------------------------------ MODULE ModelLookup ------------------------------
(***************************************************************************)
(* The lookups of FModelManager in .fidl models that have been loaded and  *)
(* resolved.  An object is its fully qualified name, the sequence of the   *)
(* identifiers in it; a container declares one object by a name.           *)
(***************************************************************************)
EXTENDS Naturals, Sequences, FiniteSets, SequencesExt, FiniteSetsExt

CONSTANTS
    Object,     \* the objects of all models, the models themselves included
    Class,      \* what an object is
    BaseOf,     \* the base of an interface, structure, union or enumeration, or None
    TypeOf      \* the declared type of an attribute, argument, field, array or typedef, or None

None == <<>>

TypeClasses == {"array", "struct", "union", "enumeration", "map", "typedef"}
Parts == {"field", "enumerator"}
Compound == {"struct", "union"}
Details == Parts \cup {"key", "value"}     \* what types are made of
MemberClasses == {"attribute", "method", "broadcast"}
ObjectClasses == {"model", "interface", "typeCollection", "argument"} \cup MemberClasses
                 \cup TypeClasses \cup Details

ASSUME ModelAssumption ==
    /\ Object \subseteq Seq(STRING) \ {None}
    /\ Class \in [Object -> ObjectClasses]
    /\ \A o \in Object :
           /\ Class[o] \in Details => Front(o) \in Object /\ Class[Front(o)] \in TypeClasses
           /\ Class[o] = "argument" => Front(o) \in Object /\ Class[Front(o)] \in {"method", "broadcast"}
    /\ BaseOf \in [Object -> Object \cup {None}]
    /\ TypeOf \in [Object -> Object \cup {None}]

\* The grammar of models: types with parts are structures, unions and enumerations, and what is
\* around an interface or a type collection is a model.
ASSUME ContainerAssumption == \A o \in Object :
    /\ Class[o] \in Parts => Class[Front(o)] \in Compound \cup {"enumeration"}
    /\ Class[o] \in {"interface", "typeCollection"} /\ Front(o) \in Object
       => Class[Front(o)] = "model"

\* o if it is an object of one of the classes, None otherwise
Only(o, classes) == IF o \in Object /\ Class[o] \in classes THEN o ELSE None

Members(o, classes) == {p \in Object : Front(p) = o /\ Class[p] \in classes}

-----------------------------------------------------------------------------
FindTypeCollection(n) == Only(n, {"typeCollection"})
FindInterface(n) == Only(n, {"interface"})

FindPublicType(n) ==
    IF n # None /\ FindTypeCollection(Front(n)) # None THEN Only(n, TypeClasses) ELSE None

\* findInterfaceElement: the nearest of the interface and its bases that declares the name
FindInherited(i, name, classes) ==
    LET nearest[o \in Object \cup {None}] ==
            IF o = None THEN None
            ELSE IF Only(Append(o, name), classes) # None THEN Append(o, name)
            ELSE nearest[BaseOf[o]]
    IN  nearest[i]

FindInterfaceElement(n, classes) ==
    IF n = None THEN None
    ELSE Only(FindInherited(FindInterface(Front(n)), Last(n), classes), classes)

FindAttribute(n) == FindInterfaceElement(n, {"attribute"})

FindType(n) ==
    IF FindPublicType(n) # None THEN FindPublicType(n) ELSE FindInterfaceElement(n, TypeClasses)

FindObject(n) ==
    IF Only(n, {"typeCollection", "interface"}) # None THEN n ELSE FindPublicType(n)

-----------------------------------------------------------------------------
\* buildSymbolTable leaves out what structures, unions, enumerations and maps are made of
Symbol == {o \in Object : Class[o] \notin Details}

\* findSymbol drops identifiers from the end until something is found
FindSymbol(n) ==
    LET found == {k \in DOMAIN n : SubSeq(n, 1, k) \in Symbol}
    IN  IF found = {} THEN None ELSE SubSeq(n, 1, Max(found))

\* FType::findElement: the names lead from a type to one of its parts, through bases and
\* through the types of the fields on the way; an enumerator can only be the last
FindPart(type, names) ==
    LET part[o \in Object \cup {None}, k \in 1 .. Len(names) + 1] ==
            IF o = None \/ k > Len(names) THEN None
            ELSE LET own == Only(Append(o, names[k]), Parts)
                     last == k = Len(names)
                 IN  CASE Class[o] \in Compound /\ own # None ->
                              IF last THEN own ELSE part[TypeOf[own], k + 1]
                       [] Class[o] \in Compound /\ own = None -> part[BaseOf[o], k]
                       [] Class[o] = "enumeration" /\ last ->
                              IF own # None THEN own ELSE part[BaseOf[o], k]
                       [] Class[o] \in {"array", "typedef"} -> part[TypeOf[o], k]
                       [] OTHER -> None
    IN  part[type, 1]

\* findElement: where the symbol table ends, an inherited type or the type of the symbol
\* leads on
FindElement(n) ==
    LET o == FindSymbol(n)
        rest == SubSeq(n, Len(o) + 1, Len(n))
    IN  CASE o = None \/ rest = <<>> -> o
          [] o # None /\ rest # <<>> /\ Class[o] = "interface" ->
                 FindPart(FindInherited(o, Head(rest), TypeClasses), Tail(rest))
          [] o # None /\ rest # <<>> /\ Class[o] \in TypeClasses -> FindPart(o, rest)
          [] o # None /\ rest # <<>> /\ Class[o] \in {"attribute", "argument"} ->
                 FindPart(TypeOf[o], rest)
          [] OTHER -> None
================================================================================
