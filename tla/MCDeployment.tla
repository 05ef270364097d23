----------------------------- MODULE MCDeployment -----------------------------
(***************************************************************************)
(* Deployment with a package of two interfaces and two type collections.   *)
(***************************************************************************)
EXTENDS Deployment, TLC

PI == <<"P", "I">>
PT == <<"P", "T">>
PU == <<"P", "U">>

ClassTable ==
    (<<"P">> :> "model") @@ (<<"P", "B">> :> "interface") @@ (PI :> "interface")
    @@ (PT :> "typeCollection") @@ (PU :> "typeCollection")
    @@ (<<"P", "B", "a">> :> "attribute") @@ (PI \o <<"c">> :> "attribute")
    @@ (PI \o <<"m">> :> "method") @@ (PI \o <<"m", "x">> :> "argument")
    @@ (PI \o <<"b">> :> "broadcast")
    @@ (PT \o <<"S">> :> "struct") @@ (PT \o <<"S", "f">> :> "field")
    @@ (PT \o <<"S", "g">> :> "field")
    @@ (PU \o <<"E">> :> "enumeration") @@ (PU \o <<"E", "A">> :> "enumerator")
    @@ (PU \o <<"M">> :> "map") @@ (PU \o <<"M", "key">> :> "key") @@ (PU \o <<"M", "val">> :> "value")

BaseTable == [o \in DOMAIN ClassTable |-> IF o = PI THEN <<"P", "B">> ELSE None] @@ <<>>
TypeTable == [o \in DOMAIN ClassTable |-> IF o = PI \o <<"c">> THEN PT \o <<"S">>
                                ELSE IF o = PT \o <<"S", "g">> THEN PU \o <<"E">> ELSE None] @@ <<>>

Interface(name, spec, of) ==
    [class |-> "interface", name |-> <<name>>, spec |-> <<spec>>, target |-> of, model |-> <<"D">>]
Types(name, spec, of, model) ==
    [class |-> "types", name |-> <<name>>, spec |-> <<spec>>, target |-> of, model |-> <<model>>]
Element(class, name) == [class |-> class, name |-> name]
Argument(list, name) == [class |-> "argument", name |-> name, list |-> list]

\* statements with what they say, in the order of the files
Statements == <<
    << <<"Base">>, [class |-> "spec", name |-> <<"Base">>, base |-> None] >>,
    << <<"Base", "p">>, Element("decl", <<"p">>) >>,
    << <<"Ext">>, [class |-> "spec", name |-> <<"Ext">>, base |-> <<"Base">>] >>,
    << <<"Round">>, [class |-> "spec", name |-> <<"Round">>, base |-> <<"Round">>] >>,
    << <<"T">>, Types("t", "Ext", PT, "P") >>,
    << <<"T", "S">>, Element("struct", <<"S">>) >>,
    << <<"T", "S", "f">>, Element("field", <<"f">>) >>,
    << <<"T", "S", "f2">>, Element("field", <<"S", "f">>) >>,
    << <<"T", "S'">>, Element("struct", PT \o <<"S">>) >>,
    << <<"T", "E">>, Element("struct", PU \o <<"E">>) >>,
    << <<"T", "use">>, Element("typesUse", <<"u">>) >>,
    << <<"T2">>, Types("t2", "Base", PT, "P") >>,
    << <<"T2", "S">>, Element("struct", <<"S">>) >>,
    << <<"U">>, Types("u", "Ext", PU, "P") >>,
    << <<"U", "E">>, Element("enumeration", <<"E">>) >>,
    << <<"U", "E", "A">>, Element("enumerator", <<"A">>) >>,
    << <<"U", "E", "EA">>, Element("enumerator", <<"E", "A">>) >>,
    << <<"U", "E", "PUEA">>, Element("enumerator", PU \o <<"E", "A">>) >>,
    << <<"U", "use">>, Element("typesUse", <<"t">>) >>,
    << <<"U3">>, Types("u3", "Round", PU, "P") >>,
    << <<"I">>, Interface("i", "Ext", PI) >>,
    << <<"I", "use t">>, Element("interfaceUse", <<"t">>) >>,
    << <<"I", "p">>, Element("property", <<"p">>) >>,
    << <<"I", "c">>, Element("attribute", <<"c">>) >>,
    << <<"I", "c", "g">>, Element("field", <<"g">>) >>,
    << <<"I", "c", "p">>, Element("property", <<"p">>) >>,
    << <<"I", "a">>, Element("attribute", <<"a">>) >>,
    << <<"I", "PBa">>, Element("attribute", <<"P", "B", "a">>) >>,
    << <<"I", "m">>, Element("method", <<"m">>) >>,
    << <<"I", "m", "x">>, Argument("in", <<"x">>) >>,
    << <<"I", "m", "mx">>, Argument("in", <<"m", "x">>) >>,
    << <<"I", "m", "out x">>, Argument("out", <<"x">>) >>,
    << <<"I", "m", "z">>, Argument("in", <<"z">>) >>,
    << <<"I", "S">>, Element("struct", PT \o <<"S">>) >>,
    << <<"I", "b">>, Element("broadcast", <<"b">>) >>,
    << <<"I", "c as b">>, Element("broadcast", <<"c">>) >>,
    << <<"J">>, Interface("j", "Base", PI) >>,
    << <<"J", "use t">>, Element("interfaceUse", <<"t">>) >>,
    << <<"J", "use u">>, Element("interfaceUse", <<"u">>) >>,
    << <<"K">>, Interface("k", "Round", PI) >>,
    << <<"K", "p">>, Element("property", <<"p">>) >>,
    << <<"V">>, [class |-> "extension", name |-> <<"v">>, spec |-> <<"Base">>, target |-> None,
                 tag |-> "provider", model |-> <<"D">>] >>,
    << <<"V", "i">>, [class |-> "instance", name |-> <<"i">>, target |-> PI] >>,
    << <<"V", "i2">>, [class |-> "instance", name |-> <<"i">>, target |-> None] >>,
    << <<"V", "use">>, Element("extensionUse", <<"v2">>) >> >>

\* the labels of the statements st in their order, and what each one says
Labels(st) == [i \in DOMAIN st |-> st[i][1]] \o <<>>
Contents(st) == [s \in {st[i][1] : i \in DOMAIN st} |-> st[CHOOSE i \in DOMAIN st : st[i][1] = s][2]] @@ <<>>

TextInOrder == Labels(Statements)
SaidTable == Contents(Statements)

\* Files have the specifications, an interface and what it uses, and up to two statements more,
\* each with the statements it is in.  Unusual ones are combined with those of their root.
Always == {<<"Base">>, <<"Base", "p">>, <<"Ext">>, <<"I">>, <<"I", "use t">>, <<"T">>}
Unusual == {<<"T", "S", "f2">>, <<"T", "S'">>, <<"T", "E">>, <<"U", "E", "EA">>, <<"U", "E", "PUEA">>,
            <<"I", "PBa">>, <<"I", "m", "mx">>, <<"I", "m", "z">>, <<"I", "S">>, <<"I", "c as b">>,
            <<"V", "i">>, <<"V", "i2">>, <<"V", "use">>, <<"K", "p">>}
Around(s) == {SubSeq(s, 1, k) : k \in DOMAIN s}
Extras == {TextInOrder[i] : i \in DOMAIN TextInOrder} \ Always
InputSets == {Always \cup Around(p[1]) \cup Around(p[2]) : p \in
                  {q \in Extras \X Extras : q[1] \in Unusual \/ q[2] \in Unusual => q[1][1] = q[2][1]}}

\* TLC evaluates a definition once, but what replaces a constant each time it is used.
MCObject == DOMAIN ClassTable
MCClass == ClassTable
MCBaseOf == BaseTable
MCTypeOf == TypeTable
MCText == TextInOrder
MCSaid == SaidTable
MCInputs == InputSets
================================================================================
