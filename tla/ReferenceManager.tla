--------------------------- MODULE ReferenceManager --------------------------
(***************************************************************************)
(* How names in .fidl files become references.  While a file is parsed,    *)
(* every use of a name is recorded with all the fully qualified names it   *)
(* may stand for (FidlParserPrivate::getPossibleFQN); when all files have  *)
(* been parsed, ReferenceManager::resolveAllRef works off eight lists of   *)
(* such records, one per kind of reference, looks each name up in          *)
(* FModelManager, and sets, or takes back, what the user refers to.        *)
(*                                                                         *)
(* A name is the sequence of its identifiers.  A user is the object that   *)
(* refers (an interface, a method, a typeRef ...); an object is identified *)
(* by its fully qualified name.  `contains', which looks for an interface  *)
(* name anywhere in a name, is modelled identifier by identifier.          *)
(***************************************************************************)
EXTENDS Naturals, Sequences, SequencesExt

CONSTANTS Interfaces,       \* fully qualified names of the interfaces,
          TypeCollections,  \* of the type collections,
          Members,          \* and of what they may declare
          Declarations,     \* set of functions from some Members to their classes
          Sources           \* set of sequences of uses

Classes  == {"struct", "union", "enum", "array", "constant"}
AnyType  == Classes \ {"constant"}

\* Mutant: the passes in the order of the words of the language.
KindsSorted == <<"derived", "base", "manages", "error", "structBase", "unionBase", "enumBase", "element">>

\* resolveAllRef: the order of the eight passes.
Kinds == <<"base", "manages", "error", "derived", "structBase", "unionBase", "enumBase", "element">>
Kind  == Range(Kinds)

NoName == <<>>  \* of no object: nullptr

\* The classes a kind of reference may point to.
Wanted(kind) == CASE kind \in {"error", "enumBase"} -> {"enum"}
                  [] kind = "structBase" -> {"struct"}
                  [] kind = "unionBase"  -> {"union"}
                  [] kind = "element"    -> {"constant"}
                  [] OTHER               -> AnyType

IsList(s) == s \in Seq(Range(s))

\* What the grammar makes of the use of a name: interfaces have bases, nothing but interfaces and
\* type collections is in a model, and whoever uses several names (an interface that manages
\* others, a method with several error clauses) uses them all in one place.  The imports are the
\* prefixes that the model imports where the name is used: those further down are still to come.
GoodUse(use) ==
    /\ use.kind \in Kind /\ (use.kind = "base" => use.user \in Interfaces)
    /\ IsList(use.id) /\ use.id # <<>> /\ IsList(use.model) /\ use.model # <<>>
    /\ use.within \in {use.model} \cup Interfaces \cup TypeCollections
    /\ use.model \notin Interfaces
    /\ IsList(use.imports) /\ \A n \in DOMAIN use.imports : IsList(use.imports[n])
SamePlace(a, b) == a.kind = b.kind /\ a.user = b.user => a.within = b.within

ASSUME NamesAssumption ==
    /\ IsFiniteSet(Interfaces)
    /\ \A i \in Interfaces \cup TypeCollections : IsList(i) /\ Len(i) >= 2
    /\ \A d \in Declarations : DOMAIN d \subseteq Members /\ Range(d) \subseteq Classes
    /\ \A s \in Sources : IsList(s) /\ \A n \in DOMAIN s : GoodUse(s[n])
    /\ \A s \in Sources : \A m, n \in DOMAIN s : SamePlace(s[m], s[n])

VARIABLES
    declared,   \* what the files declare; never changes
    uses,       \* names still to be parsed: [kind, user, id, model, within, imports]
    used,       \* history: the names that have been parsed
    records,    \* kind -> its list of [user, fqn, belonged]
    pass, pos,  \* the pass and the record that come next; pass 0 while parsing
    refers,     \* [kind, user] -> set of what it refers to: {} stands for nullptr
    errors,     \* errorList
    looping     \* getBaseInterfaces goes round a circle of bases

vars == <<declared, uses, used, records, pass, pos, refers, errors, looping>>

Users == UNION {{[kind |-> k, user |-> r.user] : r \in Range(records[k])} : k \in Kind}
RefersTo(kind, user) == IF [kind |-> kind, user |-> user] \in DOMAIN refers
                           THEN refers[[kind |-> kind, user |-> user]] ELSE {}

Init ==
    /\ declared \in Declarations /\ uses \in Sources
    /\ used = {}
    /\ records = [k \in Kind |-> <<>>]
    /\ pass = 0 /\ pos = 1
    /\ refers = [u \in {} |-> {}]
    /\ errors = {} /\ looping = FALSE

-----------------------------------------------------------------------------
(* Parsing.                                                                *)

\* FidlParserPrivate::getPossibleFQN(id): within is the interface or the type collection
\* around the use, or the model.  (Imports without .* make names no object has.)
PossibleFQN(use) ==
    IF IsStrictPrefix(use.model, use.id)
       THEN <<use.id>>
       ELSE <<use.id>>
            \o [n \in DOMAIN use.imports |-> use.imports[n] \o use.id]
            \o <<use.model \o use.id>>
            \o (IF use.within = use.model THEN <<>> ELSE <<use.within \o use.id>>)

\* The interface that is recorded with the name: outside of interfaces nullptr.
Belonged(use) == IF use.within \in Interfaces /\ use.kind \notin {"base", "manages"}
                    THEN use.within ELSE NoName

\* add...Ref: a record that exists already is not added.
AddRef(list, record) == IF Contains(list, record) THEN list ELSE Append(list, record)

AddRefs(list, user, fqns, belonged) ==
    LET added[n \in 0..Len(fqns)] ==
            IF n = 0 THEN list
            ELSE AddRef(added[n - 1], [user |-> user, fqn |-> fqns[n], belonged |-> belonged])
    IN added[Len(fqns)]

\* The next use of a name is parsed.
Parse ==
    /\ pass = 0 /\ uses # <<>>
    /\ LET use == Head(uses)
       IN records' = [records EXCEPT ![use.kind] = AddRefs(@, use.user, PossibleFQN(use), Belonged(use))]
    /\ uses' = Tail(uses) /\ used' = used \cup {Head(uses)}
    /\ UNCHANGED <<declared, pass, pos, refers, errors, looping>>

-----------------------------------------------------------------------------
(* FModelManager's lookups.                                                *)

\* getBase() of the interfaces
Base == [i \in Interfaces \cup {NoName} |->
    IF RefersTo("base", i) = {} THEN NoName ELSE CHOOSE b \in RefersTo("base", i) : TRUE]

Climb(base, i) == LET up[n \in 0..Cardinality(Interfaces)] == IF n = 0 THEN i ELSE base[up[n - 1]] IN up

\* The interface n bases up from i, if there is one (getBaseInterfaces).
Up(i) == Climb(Base, i)

\* Following the bases of i never comes to an end.
InCircle(i) == Up(i)[Cardinality(Interfaces)] # NoName

\* What comes first, if there is anything.
First(S) == {n \in S : \A m \in S : n <= m}

Member(container, fqn) == container \o <<Last(fqn)>>

\* contains(fqn, interface->getFQN() + ".") for types, without the dot for constants
NamesInterface(kind, i, fqn) ==
    \E from \in 1..Len(fqn), to \in 1..Len(fqn) :
        SubSeq(fqn, from, to) = i /\ (kind = "element" \/ to < Len(fqn))

\* findInterfaceElement: the first interface from i upwards that declares the name, as a
\* type or as a constant, decides; what it declares may then be of the wrong class.
InInterface(kind, i, fqn) ==
    LET Sort        == IF kind = "element" THEN {"constant"} ELSE AnyType
        member(n)   == Member(Up(i)[n], fqn)
        declaring   == {n \in 0..Cardinality(Interfaces) : /\ Up(i)[n] # NoName
                                                           /\ member(n) \in DOMAIN declared
                                                           /\ declared[member(n)] \in Sort}
    IN IF NamesInterface(kind, i, fqn) THEN {member(n) : n \in First(declaring)} ELSE {}

OfClass(kind, objects) == {o \in objects : declared[o] \in Wanted(kind)}

\* findPublic...: the name of a member of a type collection
Public(kind, fqn) ==
    IF Front(fqn) \in TypeCollections /\ fqn \in DOMAIN declared
       THEN OfClass(kind, {fqn}) ELSE {}

\* resolveMethodErrorRef asks the bases in turn; the others leave that to findInterfaceElement.
Enclosing(kind, belonged, fqn) ==
    LET found(n) == OfClass(kind, InInterface(kind, Up(belonged)[n], fqn))
        bases    == 0..(IF kind = "error" THEN Cardinality(Interfaces) ELSE 0)
        hits     == {n \in bases : Up(belonged)[n] # NoName /\ found(n) # {}}
    IN IF belonged = NoName THEN {} ELSE UNION {found(n) : n \in First(hits)}

\* What a record's name is found to mean: one object, or none.
Find(kind, r) ==
    IF kind \in {"base", "manages"} THEN {r.fqn} \cap Interfaces
    ELSE IF Public(kind, r.fqn) # {} THEN Public(kind, r.fqn)
    ELSE Enclosing(kind, r.belonged, r.fqn)

\* Looking the name up climbs bases that form a circle: before it is found in a type
\* collection nothing is climbed, nor when the name does not mention the interface.
LoopsForever(kind, r) ==
    /\ kind \notin {"base", "manages"} /\ r.belonged # NoName
    /\ Public(kind, r.fqn) = {} /\ InCircle(r.belonged)
    /\ kind = "error" \/ NamesInterface(kind, r.belonged, r.fqn)

-----------------------------------------------------------------------------
(* The passes.                                                             *)

\* setBase, setErrorEnum, ... of the user of a reference
Refer(kind, user, objects) == refers' =
    LET changed == [kind |-> kind, user |-> user]
    IN [u \in DOMAIN refers \cup {changed} |-> IF u = changed THEN objects ELSE refers[u]]

Error(kind, user, what) == [kind |-> kind, user |-> user, what |-> what]
Resolving == pass \in 1..Len(Kinds) /\ ~looping
List      == records[Kinds[pass]]

\* All files have been parsed: resolveAllRef begins.
StartResolving ==
    /\ pass = 0 /\ uses = <<>>
    /\ pass' = 1
    /\ UNCHANGED <<declared, uses, used, records, pos, refers, errors, looping>>

\* Mutant: a second object takes the place of the first.
ToggledToLast(kind, old, ref) == IF kind = "manages" THEN old \cup ref ELSE ref

\* Mutant: the first object stays.
ToggledBoth(kind, old, ref) == old \cup ref

\* What the user refers to after ref has been found for it.  A second object takes the
\* first one away, so that a third is set again; manages has a list, from which a second
\* occurrence removes the first; an element may be found again.
Toggled(kind, old, ref) ==
    CASE kind = "manages"               -> (old \ ref) \cup (ref \ old)
      [] kind = "element" /\ old = ref  -> ref
      [] OTHER                          -> IF old = {} THEN ref ELSE {}

\* The next record of the pass: a name without an object is passed over.
Resolve ==
    /\ Resolving /\ pos \in DOMAIN List
    /\ LET kind == Kinds[pass]
           r    == List[pos]
           ref  == Find(kind, r)
           old  == RefersTo(kind, r.user)
           new  == Toggled(kind, old, ref)
       IN /\ ~LoopsForever(kind, r)
          /\ IF ref = {} THEN UNCHANGED <<refers, errors>>
             ELSE /\ Refer(kind, r.user, new)
                  /\ errors' = IF ref \subseteq new THEN errors
                               ELSE errors \cup {Error(kind, r.user, "duplicate reference")}
    /\ pos' = pos + 1
    /\ UNCHANGED <<declared, uses, used, records, pass, looping>>

\* getBaseInterfaces appends to its list for ever.
Loop ==
    /\ Resolving /\ pos \in DOMAIN List /\ LoopsForever(Kinds[pass], List[pos])
    /\ looping' = TRUE
    /\ UNCHANGED <<declared, uses, used, records, pass, pos, refers, errors>>

\* The second loop of a pass: every user that is left without anything is reported.
EndPass ==
    /\ Resolving /\ pos \notin DOMAIN List
    /\ LET kind == Kinds[pass]
           left == {r \in Range(List) : RefersTo(kind, r.user) = {}}
       IN errors' = errors \cup {Error(kind, r.user, "unresolved reference") : r \in left}
    /\ pass' = pass + 1 /\ pos' = 1
    /\ UNCHANGED <<declared, uses, used, records, refers, looping>>

Next == Parse \/ StartResolving \/ Resolve \/ Loop \/ EndPass

Spec == Init /\ [][Next]_vars

\* The program is one thread that does nothing else.
FairSpec == Spec /\ WF_vars(Next)

-----------------------------------------------------------------------------
(* Properties.                                                             *)

Done    == pass = Len(Kinds) + 1
Success == Done /\ errors = {}

\* The records of a user, and those of them that mean something.
Records(kind, user)  == {n \in DOMAIN records[kind] : records[kind][n].user = user}
Means(kind, n)       == Find(kind, records[kind][n])
Matching(kind, user) == {n \in Records(kind, user) : Means(kind, n) # {}}
Meanings(kind, user) == UNION {Means(kind, n) : n \in Matching(kind, user)}

TypeOK ==
    /\ declared \in Declarations
    /\ pass \in 0..(Len(Kinds) + 1)
    /\ DOMAIN records = Kind
    /\ Resolving => pos \in 1..(Len(List) + 1)
    /\ \A u \in DOMAIN refers :
           /\ refers[u] \subseteq IF u.kind \in {"base", "manages"} THEN Interfaces ELSE DOMAIN declared
           /\ u.kind # "manages" => \A a, b \in refers[u] : a = b
    /\ looping \in BOOLEAN

\* Two records that both mean something contradict each other, whatever they mean; those of
\* "manages" only if they mean the same, those of an element only if they do not.
Contradict(kind, m, n) == CASE kind = "manages" -> Means(kind, m) = Means(kind, n)
                            [] kind = "element" -> Means(kind, m) # Means(kind, n)
                            [] OTHER            -> TRUE

\* resolveAllRef returns true exactly when every user of a name has been given a meaning and
\* no second one (interfaces to be managed: at least one of them, and none twice), and then
\* that is what the user refers to.
VerdictExact == Done =>
    /\ Success <=> \A u \in Users :
           /\ Matching(u.kind, u.user) # {}
           /\ \A m, n \in Matching(u.kind, u.user) : m # n => ~Contradict(u.kind, m, n)
    /\ Success => \A u \in Users : refers[u] = Meanings(u.kind, u.user)

\* The nearest declaration of x as a type (as a constant, for an element) among an
\* interface and its bases.
Nearest(kind, i, x) ==
    LET Sort  == IF kind = "element" THEN {"constant"} ELSE AnyType
        at(n) == Up(i)[n] \o <<x>>
        hits  == {n \in 0..Cardinality(Interfaces) :
                    Up(i)[n] # NoName /\ at(n) \in DOMAIN declared /\ declared[at(n)] \in Sort}
    IN {at(n) : n \in First(hits)}

\* The records of a user that name the interface around it or one of its bases.
Naming(kind, user, i) == {n \in Records(kind, user) : \E up \in 0..Cardinality(Interfaces) :
    Up(i)[up] # NoName /\ NamesInterface(kind, Up(i)[up], records[kind][n].fqn)}

\* A simple name that is used in an interface, and that neither a type collection nor an
\* import of one of the bases offers as well, refers to what the interface itself or the
\* nearest of its bases declares by that name, if that is of the right class.  It takes the
\* pass over the bases to be the first one.  (Not so for an error when a base's name is part
\* of the interface's own: resolveMethodErrorRef passes over a declaration of another class
\* and goes on to that base.)
InheritedNamesResolve == Done => \A kind \in Kind \ {"base", "manages"} :
    \A r \in Range(records[kind]) :
        (/\ r.belonged # NoName /\ Len(r.fqn) = 1
         /\ \A n \in Records(kind, r.user) : Public(kind, records[kind][n].fqn) = {}
         /\ \E only \in DOMAIN records[kind] : Naming(kind, r.user, r.belonged) = {only}
         /\ kind = "error" => \A i \in Interfaces \ {r.belonged} :
                                 ~NamesInterface(kind, i, Member(r.belonged, r.fqn)))
        => RefersTo(kind, r.user) = OfClass(kind, Nearest(kind, r.belonged, Last(r.fqn)))

\* Resolving comes to an end unless the interfaces' bases, as far as they can be told
\* from the names alone, form a circle.
BaseByName(i) ==
    LET m == Matching("base", i)
    IN IF Cardinality(m) % 2 = 1 THEN Find("base", records["base"][Max(m)]) ELSE {}
BasesAcyclic == \A S \in SUBSET Interfaces :
    S # {} => \E i \in S : BaseByName(i) \cap S = {}
ResolutionTerminates == (pass = 1 /\ BasesAcyclic) ~> Done
=============================================================================
