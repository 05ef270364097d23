------------------------------ MODULE Deployment ------------------------------
(***************************************************************************)
(* What FDParser::parse does with deployment files once they have been     *)
(* read: FDReferenceManager resolves the names in them, pass after pass,   *)
(* ModelValidator checks the result, and an FDMapper per deployment maps   *)
(* .fidl objects to the elements that deploy them, making the missing      *)
(* ones.  What has been made belongs to deployments that mappers share.    *)
(***************************************************************************)
EXTENDS ModelLookup

CONSTANTS
    Text,       \* statements that deployment files may have, in the order of the files
    Said,       \* what a statement says: its class, its name and what else it refers to
    Inputs      \* sets of statements: the contents the files may have

Statement == Range(Text)
RootClasses == {"interface", "types", "extension"}
UseClasses == {"interfaceUse", "typesUse", "extensionUse"}
OperationClasses == {"method", "argument", "broadcast"}

\* The grammar of deployment files.  (A statement is the sequence of labels that leads to it.)
ASSUME DeploymentAssumption ==
    /\ Text \in Seq(Statement) /\ Statement \subseteq Seq(STRING) \ {None}
    /\ \A n \in Statement \cup Object : \A i \in DOMAIN n : n[i] # "+"
    /\ DOMAIN Said = Statement
    /\ \A s \in Statement :
           /\ Said[s].class \in RootClasses => Len(s) = 1
           /\ Said[s].class \in {"interface", "types"} => Said[s].target # None
           /\ Len(s) > 1 => Front(s) \in Statement
           /\ Said[s].class \in MemberClasses => Len(s) > 1 /\ Said[Front(s)].class = "interface"
           /\ Said[s].class = "argument" => /\ Len(s) > 1 /\ Said[s].list \in {"in", "out"}
                                            /\ Said[Front(s)].class \in {"method", "broadcast"}
    /\ Inputs \subseteq SUBSET Statement
    /\ \A f \in Inputs : \A s \in f : Len(s) > 1 => Front(s) \in f

\* The name of a property is an identifier, that of a specification is not empty.
ASSUME PropertyAssumption == \A s \in Statement :
    /\ Said[s].class = "spec" => Said[s].name # None
    /\ Said[s].class = "property" => /\ Said[s].name \in Seq(STRING) /\ Len(Said[s].name) = 1
                                     /\ Said[<<Head(s)>>].spec \in Seq(STRING)

VARIABLES
    files,      \* the statements in the files
    phase,      \* "resolve", "validate", "map", "use" or how parsing has ended
    pass,       \* the number of resolving passes made
    failed,     \* FDParser::parse: failed
    ref,        \* what <<statement, what>> refers to, None where that is not (yet) known
    made,       \* the elements that mappers have made
    mapping,    \* FDMapper::m_mapping of the deployments that have one
    todo,       \* deployments that still have to get one
    work, visited       \* FDMapper::initReferenced

vars == <<files, phase, pass, failed, ref, made, mapping, todo, work, visited>>

\* An element is a statement or what the mapper of r has made in element x for object o.
Made(x, r, o) == x \o <<"+", r[1]>> \o o
Plus(e) == Max({i \in DOMAIN e : e[i] = "+"})

Owner(e) == IF e \in made THEN SubSeq(e, 1, Plus(e) - 1) ELSE Front(e)
Target(e) == IF e \in made THEN SubSeq(e, Plus(e) + 2, Len(e)) ELSE ref[<<e, "target">>]
ClassOf(e) == IF e \in made THEN Class[Target(e)] ELSE Said[e].class

Root(s) == <<Head(s)>>
Elements == files \cup made
\* Mutant of Children. What mappers make is not added to the lists of its container.
ChildrenWritten(x, classes) == {s \in files \ {x} : Front(s) = x /\ Said[s].class \in classes}

Children(x, classes) == {e \in Elements \ {x} : Owner(e) = x /\ ClassOf(e) \in classes}
Of(classes) == {s \in files : Said[s].class \in classes}

Position == [s \in Statement |-> CHOOSE i \in DOMAIN Text : Text[i] = s]

\* of the statements in S: the one that comes first and the one that comes last in the files,
\* and all of them in that order
Earliest(S) == CHOOSE s \in S : \A t \in S : Position[s] <= Position[t]
Latest(S)   == CHOOSE s \in S : \A t \in S : Position[s] >= Position[t]
Ordered(S) ==
    LET first[n \in 0 .. Cardinality(S)] ==
            IF n = 0 THEN <<>>
            ELSE LET before == first[n - 1] IN Append(before, Earliest(S \ Range(before)))
    IN  first[Cardinality(S)]

-----------------------------------------------------------------------------
(* Names, as FDParser.y completes them                                     *)

\* the interface or type collection that the statement's deployment is for: curDeployments
Deployed(s) == Said[Root(s)].target

\* One identifier is a name in what is deployed or, for parts, in the statement around; two
\* are, for parts, a name in what is deployed; the rest stands for itself.
Path[s \in Statement] ==
    LET n == Said[s].name
        isPart == Said[s].class \in Parts \cup {"argument"}
    IN  CASE Len(n) = 1 /\ isPart -> Path[Front(s)] \o n
          [] Len(n) = 1 /\ ~isPart -> Deployed(s) \o n
          [] Len(n) = 2 /\ isPart -> Deployed(s) \o n
          [] OTHER -> n

\* the names that are recorded for what a statement refers to; enumerators with several
\* identifiers are recorded as they stand before two identifiers are completed
Candidates(s, what) ==
    CASE what = "decl" -> {Said[Root(s)].spec \o Said[s].name}
      [] what = "use" -> {Said[s].name}
      [] what \in {"spec", "base"} -> {Said[s][what]} \ {None}
      [] what = "target" /\ Said[s].class \in RootClasses \cup {"instance", "interfaceValue"} ->
             {Said[s].target} \ {None}
      [] what = "target" /\ Said[s].class = "enumerator" /\ Len(Said[s].name) > 1 ->
             {Said[s].name, Path[s]}
      [] OTHER -> {Path[s]}

-----------------------------------------------------------------------------
(* FDReferenceManager                                                      *)

\* the first of the statements with the name: findFDSpecification, findFDRootElement
FirstNamed(n, classes) ==
    LET named == {s \in Of(classes) : Said[s].name = n}
    IN  IF named = {} THEN None ELSE Earliest(named)

FindSpecification(n) == FirstNamed(n, {"spec"})

\* the specification and those it extends, as far as there are specifications
Bases(spec) ==
    LET up[k \in 0 .. Cardinality(Of({"spec"}))] ==
            IF k = 0 THEN spec
            ELSE IF up[k - 1] = None THEN None ELSE ref[<<up[k - 1], "base">>]
    IN  up

\* specifications that extend each other in a circle: getAllDeclarations does not return
Endless(spec) == spec # None /\ Bases(spec)[Cardinality(Of({"spec"}))] # None

\* Mutant of FindPropertyDecl. Looks at the specification itself only.
FindPropertyDeclOwn(n) ==
    LET spec == FindSpecification(Front(n))
        own == {d \in Of({"decl"}) : Front(d) = spec /\ Said[d].name = <<Last(n)>>}
    IN  IF own = {} THEN None ELSE Earliest(own)

\* The declarations of what is extended come first, so the farthest one is found.
FindPropertyDecl(n) ==
    LET chain == Bases(FindSpecification(Front(n)))
        Decls(s) == {d \in Of({"decl"}) : Front(d) = s /\ Said[d].name = <<Last(n)>>}
        declaring == {k \in DOMAIN chain : chain[k] # None /\ Decls(chain[k]) # {}}
    IN  IF declaring = {} THEN None ELSE Earliest(Decls(chain[Max(declaring)]))

Find(class, what, n) ==
    CASE what \in {"base", "spec"} -> FindSpecification(n)
      [] what = "use" -> FirstNamed(n, RootClasses)
      [] what = "decl" -> FindPropertyDecl(n)
      [] what = "target" /\ class = "types" -> FindTypeCollection(n)
      [] what = "target" /\ class \in {"interface", "interfaceValue"} -> FindInterface(n)
      [] what = "target" /\ class \in {"extension", "instance"} -> FindObject(n)
      [] what = "target" /\ class = "attribute" -> FindAttribute(n)
      [] what = "target" /\ class \in OperationClasses -> FindSymbol(n)
      [] what = "target" /\ class \in TypeClasses -> Only(FindType(n), {class})
      [] what = "target" /\ class \in Parts -> Only(FindElement(n), {class})

\* What is found for an operation is cast only when it is set: an object of another class
\* leaves the target null without an error.
Cast(class, o) == IF class \in OperationClasses THEN Only(o, {class}) ELSE o

\* Of several candidates at most one is ever found, so that none takes another back.
Referent(s, what) ==
    LET class == Said[s].class
        found == {Cast(class, Find(class, what, n)) : n \in Candidates(s, what)} \ {None}
    IN  IF found = {} THEN None ELSE CHOOSE o \in found : TRUE

Undefined(s, what) ==
    \E n \in Candidates(s, what) : Find(Said[s].class, what, n) = None

\* resolveAllRef
Passes == <<
    <<"spec", "base">>, <<"extension", "spec">>, <<"extension", "target">>,
    <<"extensionUse", "use">>, <<"instance", "target">>, <<"types", "spec">>,
    <<"types", "target">>, <<"typesUse", "use">>, <<"interface", "spec">>,
    <<"interface", "target">>, <<"interfaceUse", "use">>, <<"attribute", "target">>,
    <<"method", "target">>, <<"argument", "target">>, <<"array", "target">>,
    <<"struct", "target">>, <<"union", "target">>, <<"typedef", "target">>,
    <<"field", "target">>, <<"enumeration", "target">>, <<"enumerator", "target">>,
    <<"map", "target">>, <<"interfaceValue", "target">>, <<"broadcast", "target">>,
    <<"property", "decl">> >>

References == UNION {Of({p[1]}) \X {p[2]} : p \in Range(Passes)}

Resolve ==
    LET class == Passes[pass + 1][1]
        what == Passes[pass + 1][2]
        reads == {s \in Of({class}) : what = "decl" /\ Endless(FindSpecification(Said[Root(s)].spec))}
    IN  /\ phase = "resolve" /\ pass < Len(Passes)
        /\ pass' = pass + 1
        /\ ref' = [r \in DOMAIN ref |->
                      IF Said[r[1]].class = class /\ r[2] = what THEN Referent(r[1], what) ELSE ref[r]]
        /\ failed' = (failed \/ \E s \in Of({class}) : Undefined(s, what))
        /\ phase' = CASE reads # {} -> "overflow"
                      [] reads = {} /\ pass + 1 = Len(Passes) -> "validate"
                      [] OTHER -> phase
        /\ UNCHANGED <<files, made, mapping, todo, work, visited>>

-----------------------------------------------------------------------------
(* ModelValidator::validateFDModels                                        *)

SpecOf(r) == ref[<<r, "spec">>]
Complete(r) == SpecOf(r) # None /\ (Said[r].class # "extension" => Target(r) # None)

\* two deployments of a specification for the same interface or type collection, or with
\* the same tag
SameLabel(r1, r2) ==
    /\ r1 # r2 /\ Complete(r1) /\ Complete(r2) /\ SpecOf(r1) = SpecOf(r2)
    /\ Said[r1].class = Said[r2].class
    /\ IF Said[r1].class = "extension" THEN Said[r1].tag = Said[r2].tag
                                       ELSE Target(r1) = Target(r2)

\* the lists of elements that validateElement is called with
ArgumentLists(m) == {{a \in Children(m, {"argument"}) : Said[a].list = l} : l \in {"in", "out"}}
\* Mutant of Lists. Leaves out the arguments.
ListsOfMembers(r) == {Children(r, {c}) : c \in MemberClasses}

Lists(r) == {Children(r, {c}) : c \in MemberClasses}
            \cup UNION {ArgumentLists(m) : m \in Children(r, {"method", "broadcast"})}

Faulty(list) ==
    \/ \E e \in list : Target(e) = None
    \/ \E e1, e2 \in list : e1 # e2 /\ Target(e1) # None /\ Target(e2) # None
                            /\ Last(Target(e1)) = Last(Target(e2))

\* the types of a deployment with their parts, as validateTypeDefinition goes through them
TypeElements(r) ==
    LET types == Children(r, TypeClasses)
    IN  types \cup UNION {Children(t, Parts) : t \in types}

\* FDObject::getFQN
FullName[s \in Statement] ==
    IF Len(s) = 1 THEN Said[s].model \o Said[s].name ELSE FullName[Front(s)] \o Said[s].name

\* An object that is deployed a second time is only reported if the element's own full name
\* is that of the object.
FaultyTypes(r) ==
    LET list == Ordered(TypeElements(r))
    IN  \E i \in DOMAIN list :
           \/ Target(list[i]) = None
           \/ \E j \in 1 .. i - 1 : /\ Target(list[j]) = Target(list[i])
                                    /\ FullName[list[i]] = Target(list[i])

Twice(instances) ==
    \E e1, e2 \in instances : e1 # e2 /\ Said[e1].name = Said[e2].name

FaultyRoot(r) ==
    \/ SpecOf(r) = None
    \/ \E other \in Of(RootClasses) : SameLabel(r, other)
    \/ /\ Complete(r)
       /\ \/ Said[r].class = "interface" /\ \E list \in Lists(r) : Faulty(list)
          \/ Said[r].class \in {"interface", "types"} /\ FaultyTypes(r)
          \/ /\ Said[r].class = "extension"
             /\ \E x \in files : Root(x) = r /\ Twice(Children(x, {"instance"}))

Validate ==
    /\ phase = "validate"
    /\ failed' = (failed \/ \E r \in Of(RootClasses) : FaultyRoot(r))
    /\ phase' = "map"
    /\ todo' = Ordered(Of(RootClasses))
    /\ UNCHANGED <<files, pass, ref, made, mapping, work, visited>>

-----------------------------------------------------------------------------
(* FDMapper: a mapping has an element, or None, for every object.  What is *)
(* placed later takes the place of what was there, what is filled in does  *)
(* not.  An element without a target is not placed: nothing is ever looked *)
(* up for the null object.                                                 *)

Nothing == [o \in Object |-> None]

PlaceAll(m, S) ==
    LET LastOf(es) == IF es \subseteq files THEN Latest(es) ELSE CHOOSE e \in es \ files : TRUE
        For(o) == {e \in S : Target(e) = o}
    IN  [o \in Object |-> IF For(o) = {} THEN m[o] ELSE LastOf(For(o))]

\* an element for each object of os that has none, in the element for what contains it
Fill(r, m, os) ==
    [o \in Object |-> IF o \in os /\ m[o] = None THEN Made(m[Front(o)], r, o) ELSE m[o]]

\* initTypes of deployed types
PlaceTypes(m, x) ==
    LET types == Children(x, TypeClasses)
        whole == {t \in types : ClassOf(t) \in Compound \cup {"enumeration"}}
    IN  PlaceAll(m, types \cup UNION {Children(t, Parts) : t \in whole})

\* Mutant of PlaceCollection. Looks for missing elements first.
PlaceCollectionLate(r, m, x) ==
    LET types == Members(Target(x), TypeClasses)
        parts == UNION {Members(t, Details) : t \in types}
    IN  PlaceTypes(Fill(r, Fill(r, PlaceAll(m, {x}), types), parts), x)

\* initTypeCollection, made by the mapper of r
PlaceCollection(r, m, x) ==
    LET types == Members(Target(x), TypeClasses)
        parts == UNION {Members(t, Details) : t \in types}
    IN  Fill(r, Fill(r, PlaceTypes(PlaceAll(m, {x}), x), types), parts)

\* init, after the types
PlaceInterface(m, r) ==
    LET members == Children(r, MemberClasses)
        own == Members(Target(r), MemberClasses)
        arguments == UNION {Children(e, {"argument"}) : e \in members}
        ownArguments == UNION {Members(o, {"argument"}) : o \in own}
        written == PlaceAll(m, {r} \cup members \cup arguments)
    IN  Fill(r, Fill(r, written, own), ownArguments)

\* Mutant of Uses. Keeps uses that are not resolved.
UsesUnresolved(r) ==
    LET uses == Ordered(Children(r, UseClasses)) IN [i \in DOMAIN uses |-> ref[<<uses[i], "use">>]]

\* what a deployment uses, in the order of the use statements
Uses(r) ==
    LET uses == Ordered({u \in Children(r, UseClasses) : ref[<<u, "use">>] # None})
    IN  [i \in DOMAIN uses |-> ref[<<uses[i], "use">>]]

Mapped(r, m) == [d \in DOMAIN mapping \cup {r} |-> IF d = r THEN m ELSE mapping[d]]

\* m is the mapping of the first deployment of todo from now on; elements it has made
\* belong to the deployments they are in
Store(m) ==
    LET r == Head(todo)
    IN  /\ mapping' = Mapped(r, m)
        /\ made' = made \cup (Range(mapping'[r]) \ (files \cup {None}))

\* a deployment without a target and an extension get a mapper that maps nothing
SkipRoot ==
    LET r == Head(todo)
    IN  /\ phase = "map" /\ todo # <<>>
        /\ Said[r].class = "extension" \/ Target(r) = None
        /\ ~(Said[r].class = "extension" /\ Endless(SpecOf(r)))
        /\ todo' = Tail(todo)
        /\ mapping' = Mapped(r, Nothing)
        /\ UNCHANGED <<files, phase, pass, failed, ref, made, work, visited>>

MapTypes ==
    LET r == Head(todo)
    IN  /\ phase = "map" /\ todo # <<>>
        /\ Said[r].class = "types" /\ Target(r) # None /\ ~Endless(SpecOf(r))
        /\ Store(PlaceCollection(r, Nothing, r))
        /\ todo' = Tail(todo)
        /\ UNCHANGED <<files, phase, pass, failed, ref, work, visited>>

StartMapper ==
    LET r == Head(todo)
    IN  /\ phase = "map" /\ todo # <<>>
        /\ Said[r].class = "interface" /\ Target(r) # None /\ ~Endless(SpecOf(r))
        /\ Store(PlaceTypes(Nothing, r))
        /\ phase' = "use" /\ work' = Uses(r) /\ visited' = {}
        /\ UNCHANGED <<files, pass, failed, ref, todo>>

\* Mutant of VisitUse. Does not follow what is used by what is used.
VisitUseShallow ==
    LET r == Head(todo)
        x == Head(work)
        fresh == Said[x].class = "types" /\ x \notin visited
    IN  /\ phase = "use" /\ work # <<>>
        /\ ~(fresh /\ Target(x) # None /\ Endless(SpecOf(x)))
        /\ IF fresh /\ Target(x) # None THEN Store(PlaceCollection(r, mapping[r], x))
                                        ELSE UNCHANGED <<mapping, made>>
        /\ work' = Tail(work)
        /\ visited' = IF fresh THEN visited \cup {x} ELSE visited
        /\ UNCHANGED <<files, phase, pass, failed, ref, todo>>

\* Mutant of VisitUse. Forgets what has been visited.
VisitUseAgain ==
    LET r == Head(todo)
        x == Head(work)
        fresh == Said[x].class = "types"
    IN  /\ phase = "use" /\ work # <<>>
        /\ ~(fresh /\ Target(x) # None /\ Endless(SpecOf(x)))
        /\ IF fresh /\ Target(x) # None THEN Store(PlaceCollection(r, mapping[r], x))
                                        ELSE UNCHANGED <<mapping, made>>
        /\ work' = Tail(work) \o (IF fresh THEN Uses(x) ELSE <<>>)
        /\ visited' = IF fresh THEN visited \cup {x} ELSE visited
        /\ UNCHANGED <<files, phase, pass, failed, ref, todo>>

\* one round of the loop of initReferenced
VisitUse ==
    LET r == Head(todo)
        x == Head(work)
        fresh == Said[x].class = "types" /\ x \notin visited
    IN  /\ phase = "use" /\ work # <<>>
        /\ ~(fresh /\ Target(x) # None /\ Endless(SpecOf(x)))
        /\ IF fresh /\ Target(x) # None THEN Store(PlaceCollection(r, mapping[r], x))
                                        ELSE UNCHANGED <<mapping, made>>
        /\ work' = Tail(work) \o (IF fresh THEN Uses(x) ELSE <<>>)
        /\ visited' = IF fresh THEN visited \cup {x} ELSE visited
        /\ UNCHANGED <<files, phase, pass, failed, ref, todo>>

FinishMapper ==
    /\ phase = "use" /\ work = <<>>
    /\ Store(PlaceInterface(mapping[Head(todo)], Head(todo)))
    /\ phase' = "map" /\ todo' = Tail(todo)
    /\ UNCHANGED <<files, pass, failed, ref, work, visited>>

\* updatePropsFromSpec of a deployment whose specification goes in a circle
MapEndless ==
    /\ \/ phase = "map" /\ todo # <<>> /\ Endless(SpecOf(Head(todo)))
          /\ (Said[Head(todo)].class = "extension" \/ Target(Head(todo)) # None)
       \/ phase = "use" /\ work # <<>> /\ Said[Head(work)].class = "types"
          /\ Head(work) \notin visited /\ Target(Head(work)) # None /\ Endless(SpecOf(Head(work)))
    /\ phase' = "overflow"
    /\ UNCHANGED <<files, pass, failed, ref, made, mapping, todo, work, visited>>

-----------------------------------------------------------------------------
Init ==
    /\ files \in Inputs
    /\ phase = "resolve" /\ pass = 0 /\ failed = FALSE
    /\ ref = [r \in References |-> None]
    /\ made = {} /\ mapping = <<>> /\ todo = <<>> /\ work = <<>> /\ visited = {}

\* Everything is cleared if anything has failed.
Decide ==
    /\ phase = "map" /\ todo = <<>>
    /\ phase' = IF failed THEN "rejected" ELSE "accepted"
    /\ mapping' = IF failed THEN <<>> ELSE mapping
    /\ made' = IF failed THEN {} ELSE made
    /\ UNCHANGED <<files, pass, failed, ref, todo, work, visited>>

Next == \/ Resolve \/ Validate \/ SkipRoot \/ MapTypes \/ StartMapper \/ VisitUse
        \/ FinishMapper \/ MapEndless \/ Decide

Spec == Init /\ [][Next]_vars

FairSpec == Spec /\ WF_vars(Next)

-----------------------------------------------------------------------------
(* Properties                                                              *)

\* Statements and references keep their types, and only deployments have a mapper.
TypeOK ==
    /\ files \in Inputs
    /\ phase \in {"resolve", "validate", "map", "use", "accepted", "rejected", "overflow"}
    /\ pass \in 0 .. Len(Passes) /\ failed \in BOOLEAN
    /\ DOMAIN ref = References /\ Range(ref) \subseteq Object \cup files \cup {None}
    /\ made \cap files = {}
    /\ DOMAIN mapping \subseteq Of(RootClasses)
    /\ \A r \in DOMAIN mapping : mapping[r] \in [Object -> Elements \cup {None}]
    /\ todo \in Seq(Of(RootClasses)) /\ work \in Seq(Of(RootClasses)) /\ visited \subseteq Of({"types"})

\* Whatever generators find in accepted files refers to something of its own class, and no
\* list of members or arguments deploys the same twice, although operations are resolved
\* without regard to their class and lists are only looked at by the validator.
AcceptedIsSound == phase = "accepted" =>
    /\ \A r \in References : Candidates(r[1], r[2]) # {} => ref[r] # None
    /\ \A s \in files : /\ Said[s].class \in Parts \cup TypeClasses \cup OperationClasses \cup {"attribute"}
                        => Class[Target(s)] = Said[s].class
    /\ \A s1, s2 \in Of(OperationClasses \cup {"attribute"}) :
           s1 # s2 /\ Front(s1) = Front(s2) /\ Target(s1) = Target(s2)
           => Said[s1].class = "argument" /\ Said[s1].list # Said[s2].list

\* the statements that are read from specification n on, whatever extends what
DeclaredFrom(n) ==
    LET Extends(s1, s2) == Said[s1].base = Said[s2].name
        closed == {S \in SUBSET Of({"spec"}) :
                      /\ \A s \in Of({"spec"}) : Said[s].name = n => s \in S
                      /\ \A s1 \in S, s2 \in Of({"spec"}) : Extends(s1, s2) => s2 \in S}
    IN  {d \in Of({"decl"}) : \A S \in closed : Front(d) \in S}

\* A property finds a declaration exactly if its specification, or one that is extended by it
\* however far away, has one by that name: extensions are resolved before properties.
PropertiesInherited == phase \in {"validate", "map", "use", "accepted"} =>
    \A p \in Of({"property"}) :
        LET declared == {d \in DeclaredFrom(Said[Root(p)].spec) : Said[d].name = Said[p].name}
            found == ref[<<p, "decl">>]
        IN  IF declared = {} THEN found = None ELSE found \in declared

\* the deployments of type collections that one leads to
UsedBy(r) ==
    LET Closed(S) == \A x \in S : \A u \in Children(x, UseClasses) :
                         LET y == ref[<<u, "use">>] IN  Said[y].class = "types" => y \in S
    IN  {x \in Of({"types"}) : \A S \in SUBSET Of({"interface", "types"}) :
                                   r \in S /\ Closed(S) => x \in S}

Involved(r) == {r} \cup (IF Said[r].class = "interface" THEN UsedBy(r) ELSE {})

\* What generators look up of an interface or a type collection.
Content(c) ==
    LET direct == IF Class[c] = "interface" THEN MemberClasses ELSE TypeClasses
        inside == IF Class[c] = "interface" THEN {"argument"} ELSE Details
    IN  {c} \cup {o \in Object : \/ Class[o] \in direct /\ Front(o) = c
                                 \/ Class[o] \in inside /\ Front(Front(o)) = c}

\* A mapper finds an element for every member of its interface and their arguments, and for
\* every type of the type collections that are used, directly or not, with their parts.
MappersComplete == phase = "accepted" =>
    \A r \in Of({"interface", "types"}) : \A x \in Involved(r) : \A o \in Content(Target(x)) :
        mapping[r][o] # None /\ Target(mapping[r][o]) = o

\* Everything is deployed where it belongs and once, as far as the deployment is concerned.
Orderly(r) ==
    LET elements == {s \in files : Root(s) \in Involved(r)
                                   /\ Said[s].class \in Parts \cup TypeClasses \cup OperationClasses
                                                        \cup {"attribute", "types"}}
    IN  /\ \A s \in elements : Len(s) > 1 => Front(Target(s)) = Target(Front(s))
        /\ \A s1, s2 \in elements : s1 # s2 => Target(s1) # Target(s2)

\* the objects that the mapper of r maps to elements
Deploys(r) == {o \in Object : mapping[r][o] # None}

\* What is made for missing members is put into the element that deploys what they are in,
\* also if that element is written in another file.
MembersTogether == phase = "accepted" =>
    \A r \in DOMAIN mapping : Said[r].class # "extension" /\ Orderly(r) =>
        \A o \in Deploys(r) : Front(o) \in Deploys(r) =>
            Owner(mapping[r][o]) = mapping[r][Front(o)]

\* Mappers that share the deployment of a type collection share the elements for what is in
\* it, whoever has made them.  (Not the keys and values of maps: each mapper makes them anew.)
MappersAgree == phase = "accepted" =>
    \A r1, r2 \in DOMAIN mapping :
        Said[r1].class # "extension" /\ Said[r2].class # "extension" /\ Orderly(r1) /\ Orderly(r2) =>
            \A c, o \in Deploys(r1) \cap Deploys(r2) :
                Class[c] = "typeCollection" /\ mapping[r1][c] = mapping[r2][c]
                /\ o \in Content(c) /\ Class[o] \notin {"key", "value"}
                => mapping[r1][o] = mapping[r2][o]

\* no specifications that extend each other in a circle
ExtendsEnds ==
    \A S \in SUBSET Of({"spec"}) : S # {} => \E s \in S : \A s2 \in S : Said[s2].name # Said[s].base

\* Parsing ends, also when type collection deployments use each other in a circle.
ParsingEnds == ExtendsEnds => <>(phase \in {"accepted", "rejected"})
================================================================================
