----------------------- MODULE ReferenceManagerProofs ------------------------
(* Proofs about ReferenceManager that hold for every set of interfaces, type    *)
(* collections, declarations and uses of names, and every inheritance.          *)
EXTENDS ReferenceManager, QueueLemmas, FiniteSetTheorems

\* The kinds whose pass is over, and the records that have been worked off.
Passed(kind)     == \E p \in DOMAIN Kinds : Kinds[p] = kind /\ p < pass
Reached(kind, n) == \E p \in DOMAIN Kinds : Kinds[p] = kind /\ (p < pass \/ (p = pass /\ n < pos))

\* What the records of a user say that have been worked off.
Said(kind, user) == {n \in Matching(kind, user) : Reached(kind, n)}

Duplicate(kind, user)  == Error(kind, user, "duplicate reference") \in errors
Unresolved(kind, user) == Error(kind, user, "unresolved reference") \in errors

\* At every moment of a pass: an error tells of a contradiction, without one the user refers
\* to what its records mean, and when the pass is over it has been reported if that is nothing.
Answered(kind, user) ==
    /\ Duplicate(kind, user) <=> \E m, n \in Said(kind, user) : m # n /\ Contradict(kind, m, n)
    /\ ~Duplicate(kind, user) =>
           RefersTo(kind, user) = UNION {Means(kind, n) : n \in Said(kind, user)}
    /\ Unresolved(kind, user) <=> Passed(kind) /\ RefersTo(kind, user) = {}

\* Every error is about a user.
ErrorsOfUsers == \A e \in errors : \E u \in Users :
    e \in {Error(u.kind, u.user, "duplicate reference"), Error(u.kind, u.user, "unresolved reference")}

\* Nothing is resolved while files are parsed.
ParsingFirst == pass = 0 => pos = 1 /\ DOMAIN refers = {} /\ errors = {} /\ ~looping

Lists ==
    /\ IsList(uses)
    /\ \A n \in DOMAIN uses : GoodUse(uses[n])
    /\ \A kind \in Kind : IsList(records[kind])

-----------------------------------------------------------------------------
(* Lists.                                                                  *)

LEMMA SequenceIsList ==
    ASSUME NEW T, NEW s \in Seq(T)
    PROVE  IsList(s) /\ Len(s) \in Nat /\ DOMAIN s = 1..Len(s)
<1>1. Len(s) \in Nat /\ DOMAIN s = 1..Len(s) /\ s = [n \in 1..Len(s) |-> s[n]]
  OBVIOUS
<1>2. s \in [1..Len(s) -> Range(s)]
  BY <1>1 DEF Range
<1> QED
  BY <1>1, <1>2, SeqDef DEF IsList

LEMMA ListLength ==
    ASSUME NEW s, IsList(s)
    PROVE  Len(s) \in Nat /\ DOMAIN s = 1..Len(s)
BY LenProperties DEF IsList

LEMMA KindsFacts ==
    /\ DOMAIN Kinds = 1..8 /\ Len(Kinds) = 8
    /\ \A p \in 1..8 : Kinds[p] \in Kind
    /\ \A kind \in Kind : \E p \in 1..8 : Kinds[p] = kind
    /\ \A p, q \in 1..8 : Kinds[p] = Kinds[q] => p = q
    /\ Kinds[1] = "base"
<1>1. DOMAIN Kinds = 1..8 /\ Len(Kinds) = 8 /\ Kinds[1] = "base"
  BY DEF Kinds
<1>2. \A p, q \in 1..8 : Kinds[p] = Kinds[q] => p = q
  BY DEF Kinds
<1> QED
  BY <1>1, <1>2 DEF Kind, Range

\* The names getPossibleFQN makes are finitely many.
LEMMA PossibleFQNIsList ==
    ASSUME NEW use, IsList(use.imports)
    PROVE  IsList(PossibleFQN(use))
<1> DEFINE l == use.imports
           T == {use.id, use.model \o use.id, use.within \o use.id} \cup {l[n] \o use.id : n \in DOMAIN l}
           qualified == [n \in DOMAIN l |-> l[n] \o use.id]
<1>1. Len(l) \in Nat /\ DOMAIN l = 1..Len(l)
  BY ListLength
<1>2. qualified \in Seq(T)
  <2>1. qualified \in [1..Len(l) -> T]
    BY <1>1
  <2> HIDE DEF qualified, T, l
  <2> QED
    BY <1>1, <2>1, SeqDef
<1>3. <<use.id>> \in Seq(T) /\ <<use.model \o use.id>> \in Seq(T) /\ <<use.within \o use.id>> \in Seq(T)
  <2>1. use.id \in T /\ use.model \o use.id \in T /\ use.within \o use.id \in T
    OBVIOUS
  <2> HIDE DEF T
  <2> QED
    BY <2>1
<1>4. <<>> \in Seq(T)
  OBVIOUS
<1>5. PossibleFQN(use) = IF IsStrictPrefix(use.model, use.id) THEN <<use.id>>
        ELSE <<use.id>> \o qualified \o <<use.model \o use.id>>
             \o (IF use.within = use.model THEN <<>> ELSE <<use.within \o use.id>>)
  BY DEF PossibleFQN
<1>6. PossibleFQN(use) \in Seq(T)
  <2> HIDE DEF T, qualified
  <2>1. (IF use.within = use.model THEN <<>> ELSE <<use.within \o use.id>>) \in Seq(T)
    BY <1>3, <1>4
  <2>2. <<use.id>> \o qualified \in Seq(T)
    BY <1>2, <1>3, ConcatProperties
  <2>3. <<use.id>> \o qualified \o <<use.model \o use.id>> \in Seq(T)
    BY <1>3, <2>2, ConcatProperties
  <2> QED
    BY <1>3, <1>5, <2>1, <2>3, ConcatProperties
<1> HIDE DEF T
<1> QED
  BY <1>6, SequenceIsList

\* Adding records to a list makes a list that has them.
LEMMA AddRefsIsList ==
    ASSUME NEW list, IsList(list), NEW user, NEW fqns, IsList(fqns), NEW belonged
    PROVE  LET added == AddRefs(list, user, fqns, belonged)
           IN /\ IsList(added)
              /\ Range(added) = Range(list) \cup
                     {[user |-> user, fqn |-> f, belonged |-> belonged] : f \in Range(fqns)}
<1> DEFINE L      == Len(fqns)
           rec(n) == [user |-> user, fqn |-> fqns[n], belonged |-> belonged]
           T      == Range(list) \cup {rec(n) : n \in 1..L}
           S      == Seq(T)
           step   == [n \in 1..L |-> [l \in S |-> AddRef(l, rec(n))]]
           Body(f) == [n \in 0..L |-> IF n = 0 THEN list ELSE AddRef(f[n - 1], rec(n))]
           added  == CHOOSE f : f = Body(f)
<1>1. L \in Nat
  BY ListLength
<1>2. list \in S
  <2>1. list \in Seq(Range(list)) /\ Range(list) \subseteq T
    BY DEF IsList
  <2> HIDE DEF T
  <2> QED
    BY <2>1, SeqDef
<1>3. ASSUME NEW l \in S, NEW n \in 1..L
      PROVE  AddRef(l, rec(n)) \in S /\ Range(AddRef(l, rec(n))) = Range(l) \cup {rec(n)}
  <2>1. rec(n) \in T
    OBVIOUS
  <2> HIDE DEF T, rec
  <2>2. l \in Seq(T) /\ Len(l) \in Nat /\ DOMAIN l = 1..Len(l)
    OBVIOUS
  <2>3. CASE Contains(l, rec(n))
    <3>1. rec(n) \in Range(l)
      BY <2>2, <2>3 DEF Contains, Range
    <3> QED
      BY <2>2, <2>3, <3>1 DEF AddRef
  <2>4. CASE ~Contains(l, rec(n))
    <3>1. AddRef(l, rec(n)) = Append(l, rec(n))
      BY <2>4 DEF AddRef
    <3> QED
      BY <2>1, <2>2, <3>1, AppendContents DEF Range
  <2> QED
    BY <2>3, <2>4
<1>4. step \in [1..L -> [S -> S]]
  BY <1>3
<1>5. \E f : f = Body(f)
  <2>1. PICK g \in [0..L -> S] : g[0] = list /\ \A n \in 1..L : g[n] = step[n][g[n - 1]]
    <3> HIDE DEF S, step
    <3> QED
      BY <1>1, <1>2, <1>4, FiniteRecursion
  <2>2. ASSUME NEW n \in 0..L, n # 0 PROVE g[n] = AddRef(g[n - 1], rec(n))
    <3>1. n \in 1..L /\ n - 1 \in 0..L
      BY <1>1, <2>2
    <3>2. g[n - 1] \in S /\ g[n] = step[n][g[n - 1]]
      BY <2>1, <3>1
    <3> HIDE DEF S, rec
    <3> QED
      BY <3>1, <3>2
  <2>3. g = Body(g)
    <3> HIDE DEF S, rec
    <3> QED
      BY <2>1, <2>2
  <2> QED
    BY <2>3
<1>6. added = Body(added)
  <2> HIDE DEF Body
  <2> QED
    BY <1>5
<1>7. AddRefs(list, user, fqns, belonged) = added[L]
  BY DEF AddRefs
<1> HIDE DEF added
<1> DEFINE Good(n) == added[n] \in S /\ Range(added[n]) = Range(list) \cup {rec(m) : m \in 1..n}
<1>8. \A n \in 0..L : Good(n)
  <2> DEFINE Bad == {n \in 0..L : ~Good(n)}
  <2> SUFFICES ASSUME Bad # {} PROVE FALSE
    OBVIOUS
  <2>1. PICK m \in Bad : \A n \in Bad : m <= n
    <3>1. Bad \in SUBSET Nat
      BY <1>1
    <3> HIDE DEF Bad
    <3> QED
      BY <3>1, LeastNumber
  <2>2. added[m] = IF m = 0 THEN list ELSE AddRef(added[m - 1], rec(m))
    BY <1>6, <2>1
  <2> HIDE DEF S, rec
  <2>3. m # 0
    <3>1. CASE m = 0
      <4>1. Good(0)
        BY <1>2, <2>2, <3>1
      <4> QED
        BY <2>1, <3>1, <4>1
    <3> QED
      BY <3>1
  <2>4. m \in 1..L /\ m - 1 \in 0..L /\ m - 1 \notin Bad
    <3>1. m \in 0..L /\ \A n \in Bad : m <= n
      BY <2>1
    <3> HIDE DEF Bad
    <3> QED
      BY <1>1, <2>3, <3>1
  <2>5. Good(m - 1)
    BY <2>4
  <2>6. /\ added[m] \in S
        /\ Range(added[m]) = Range(list) \cup {rec(k) : k \in 1..(m - 1)} \cup {rec(m)}
    BY <1>3, <2>2, <2>3, <2>4, <2>5
  <2>7. {rec(k) : k \in 1..(m - 1)} \cup {rec(m)} = {rec(k) : k \in 1..m}
    <3>1. \A k : k \in 1..m <=> k \in 1..(m - 1) \/ k = m
      BY <2>4
    <3> QED
      BY <3>1
  <2>8. Good(m)
    BY <2>6, <2>7
  <2> QED
    BY <2>1, <2>8
<1>9. added[L] \in S /\ Range(added[L]) = Range(list) \cup {rec(m) : m \in 1..L}
  <2> HIDE DEF S, rec
  <2> QED
    BY <1>1, <1>8
<1>10. {rec(m) : m \in 1..L} = {[user |-> user, fqn |-> f, belonged |-> belonged] : f \in Range(fqns)}
  BY ListLength DEF Range
<1> HIDE DEF T, rec
<1> QED
  BY <1>7, <1>9, <1>10, SequenceIsList

-----------------------------------------------------------------------------
(* Lookups.                                                                *)

\* A lookup finds one object at most, and one that there is.
Single(objects) == \A a, b \in objects : a = b

LEMMA FirstIsOne ==
    ASSUME NEW S \in SUBSET Nat
    PROVE  Single(First(S)) /\ First(S) \subseteq S
BY DEF Single, First

LEMMA InInterfaceIsOne ==
    ASSUME NEW kind, NEW i, NEW fqn
    PROVE  LET objects == InInterface(kind, i, fqn)
           IN Single(objects) /\ objects \subseteq DOMAIN declared
<1> DEFINE Sort      == IF kind = "element" THEN {"constant"} ELSE AnyType
           member(n) == Member(Up(i)[n], fqn)
           declaring == {n \in 0..Cardinality(Interfaces) : /\ Up(i)[n] # NoName
                                                           /\ member(n) \in DOMAIN declared
                                                           /\ declared[member(n)] \in Sort}
<1>1. declaring \in SUBSET Nat
  BY NamesAssumption, FS_CardinalityType
<1>2. InInterface(kind, i, fqn)
        = IF NamesInterface(kind, i, fqn) THEN {member(n) : n \in First(declaring)} ELSE {}
  BY DEF InInterface
<1>3. \A n \in declaring : member(n) \in DOMAIN declared
  OBVIOUS
<1> HIDE DEF declaring, member
<1>4. Single(First(declaring)) /\ First(declaring) \subseteq declaring
  BY <1>1, FirstIsOne
<1>5. CASE ~NamesInterface(kind, i, fqn)
  BY <1>2, <1>5 DEF Single
<1>6. CASE NamesInterface(kind, i, fqn)
  <2>1. InInterface(kind, i, fqn) = {member(n) : n \in First(declaring)}
    BY <1>2, <1>6
  <2> QED
    BY <1>3, <1>4, <2>1 DEF Single
<1> QED
  BY <1>5, <1>6

LEMMA OfClassIsOne ==
    ASSUME NEW kind, NEW objects, Single(objects), objects \subseteq DOMAIN declared
    PROVE  Single(OfClass(kind, objects)) /\ OfClass(kind, objects) \subseteq DOMAIN declared
BY DEF OfClass, Single

LEMMA EnclosingIsOne ==
    ASSUME NEW kind, NEW belonged, NEW fqn
    PROVE  LET objects == Enclosing(kind, belonged, fqn)
           IN Single(objects) /\ objects \subseteq DOMAIN declared
<1> DEFINE found(n) == OfClass(kind, InInterface(kind, Up(belonged)[n], fqn))
           bases    == 0..(IF kind = "error" THEN Cardinality(Interfaces) ELSE 0)
           hits     == {n \in bases : Up(belonged)[n] # NoName /\ found(n) # {}}
<1>1. hits \in SUBSET Nat
  BY NamesAssumption, FS_CardinalityType
<1>2. Enclosing(kind, belonged, fqn)
        = IF belonged = NoName THEN {} ELSE UNION {found(n) : n \in First(hits)}
  BY DEF Enclosing
<1>3. \A n : Single(found(n)) /\ found(n) \subseteq DOMAIN declared
  BY InInterfaceIsOne, OfClassIsOne
<1> HIDE DEF hits, found
<1>4. Single(First(hits))
  BY <1>1, FirstIsOne
<1> QED
  BY <1>2, <1>3, <1>4 DEF Single

LEMMA FindIsOne ==
    ASSUME NEW kind, NEW r
    PROVE  /\ Single(Find(kind, r)) /\ Find(kind, r) \subseteq Interfaces \cup DOMAIN declared
           /\ kind \in {"base", "manages"} => Find(kind, r) = {r.fqn} \cap Interfaces
           /\ kind \notin {"base", "manages"} => Find(kind, r) \subseteq DOMAIN declared
<1>1. CASE kind \in {"base", "manages"}
  BY <1>1 DEF Find, Single
<1>2. CASE kind \notin {"base", "manages"}
  <2>1. Single(Public(kind, r.fqn)) /\ Public(kind, r.fqn) \subseteq DOMAIN declared
    <3>1. CASE Public(kind, r.fqn) = {}
      BY <3>1 DEF Single
    <3>2. CASE Public(kind, r.fqn) # {}
      <4>1. Public(kind, r.fqn) = OfClass(kind, {r.fqn}) /\ {r.fqn} \subseteq DOMAIN declared
        BY <3>2 DEF Public
      <4>2. Single({r.fqn})
        BY DEF Single
      <4> QED
        BY <4>1, <4>2, OfClassIsOne
    <3> QED
      BY <3>1, <3>2
  <2>2. Find(kind, r) \in {Public(kind, r.fqn), Enclosing(kind, r.belonged, r.fqn)}
    BY <1>2 DEF Find
  <2> QED
    BY <1>2, <2>1, <2>2, EnclosingIsOne
<1> QED
  BY <1>1, <1>2

\* What a record means depends on the declarations and on the interfaces' bases only.
LEMMA MeansUnchanged ==
    ASSUME declared' = declared, records' = records, Base' = Base
    PROVE  \A kind, n : Means(kind, n)' = Means(kind, n)
<1>1. \A i : Up(i)' = Up(i)
  BY DEF Up
<1>2. \A kind, i, fqn : InInterface(kind, i, fqn)' = InInterface(kind, i, fqn)
  <2> TAKE kind, i, fqn
  <2> DEFINE Sort       == IF kind = "element" THEN {"constant"} ELSE AnyType
             member(n)  == Member(Up(i)[n], fqn)
             good(n)    == Up(i)[n] # NoName /\ member(n) \in DOMAIN declared /\ declared[member(n)] \in Sort
             declaring  == {n \in 0..Cardinality(Interfaces) : good(n)}
             found      == {member(n) : n \in First(declaring)}
  <2>1. \A n : member(n)' = member(n)
    BY <1>1 DEF Member
  <2>2. \A n : good(n)' = good(n)
    BY <1>1, <2>1
  <2>3. declaring' = declaring
    <3> HIDE DEF good
    <3> QED
      BY <2>2
  <2>4. found' = found
    <3> HIDE DEF member, declaring
    <3> QED
      BY <2>1, <2>3 DEF First
  <2>5. InInterface(kind, i, fqn) = IF NamesInterface(kind, i, fqn) THEN found ELSE {}
    BY DEF InInterface
  <2>6. InInterface(kind, i, fqn)' = IF NamesInterface(kind, i, fqn) THEN found' ELSE {}
    BY DEF InInterface, NamesInterface
  <2> HIDE DEF found
  <2> QED
    BY <2>4, <2>5, <2>6
<1>3. \A kind, objects : OfClass(kind, objects)' = OfClass(kind, objects)
  BY DEF OfClass
<1>4. \A kind, fqn : Public(kind, fqn)' = Public(kind, fqn)
  BY <1>3 DEF Public, OfClass
<1>5. \A kind, i, fqn : Enclosing(kind, i, fqn)' = Enclosing(kind, i, fqn)
  <2> TAKE kind, belonged, fqn
  <2> DEFINE found(n) == OfClass(kind, InInterface(kind, Up(belonged)[n], fqn))
             bases    == 0..(IF kind = "error" THEN Cardinality(Interfaces) ELSE 0)
             hits     == {n \in bases : Up(belonged)[n] # NoName /\ found(n) # {}}
             all      == UNION {found(n) : n \in First(hits)}
  <2>1. \A n : found(n)' = found(n)
    <3> TAKE n
    <3>1. InInterface(kind, Up(belonged)[n], fqn)' = InInterface(kind, Up(belonged)[n], fqn)
      BY <1>1, <1>2
    <3> QED
      BY <3>1 DEF OfClass
  <2>2. hits' = hits
    <3> HIDE DEF found, bases
    <3>1. bases' = bases
      BY DEF bases
    <3> QED
      BY <1>1, <2>1, <3>1
  <2>3. all' = all
    <3> HIDE DEF found, hits
    <3> QED
      BY <2>1, <2>2 DEF First
  <2>4. Enclosing(kind, belonged, fqn) = IF belonged = NoName THEN {} ELSE all
    BY DEF Enclosing
  <2>5. Enclosing(kind, belonged, fqn)' = IF belonged = NoName THEN {} ELSE all'
    BY DEF Enclosing
  <2> HIDE DEF all
  <2> QED
    BY <2>3, <2>4, <2>5
<1> QED
  BY <1>4, <1>5 DEF Means, Find

LEMMA BaseUnchanged ==
    ASSUME \A i : RefersTo("base", i)' = RefersTo("base", i)
    PROVE  Base' = Base
<1> DEFINE some(objects) == CHOOSE b \in objects : TRUE
           all           == Interfaces \cup {NoName}
<1>1. Base = [i \in all |-> IF RefersTo("base", i) = {} THEN NoName ELSE some(RefersTo("base", i))]
  BY DEF Base
<1>2. Base' = [i \in all |-> IF RefersTo("base", i)' = {} THEN NoName ELSE some(RefersTo("base", i)')]
  BY DEF Base
<1> HIDE DEF some, all
<1> QED
  BY <1>1, <1>2

LEMMA BaseMeansUnchanged ==
    ASSUME records' = records
    PROVE  \A n : /\ Means("base", n)' = Means("base", n)
                  /\ Means("manages", n)' = Means("manages", n)
BY DEF Means, Find

-----------------------------------------------------------------------------
(* Type correctness.                                                       *)

Typed == TypeOK /\ Lists /\ ParsingFirst

LEMMA InitTyped == Init => Typed
<1> SUFFICES ASSUME Init PROVE Typed
  OBVIOUS
<1>1. \A kind \in Kind : IsList(records[kind])
  <2>1. <<>> \in Seq({})
    OBVIOUS
  <2>2. IsList(<<>>)
    BY <2>1, SequenceIsList
  <2> QED
    BY <2>2 DEF Init
<1>2. Lists
  BY <1>1, NamesAssumption DEF Init, Lists
<1>3. TypeOK
  <2>1. pass = 0 /\ DOMAIN records = Kind /\ DOMAIN refers = {} /\ looping \in BOOLEAN
    BY DEF Init
  <2>2. pass \in 0..(Len(Kinds) + 1) /\ ~Resolving
    BY <2>1, KindsFacts DEF Resolving
  <2> QED
    BY <2>1, <2>2 DEF Init, TypeOK
<1> QED
  BY <1>2, <1>3 DEF Typed, Init, ParsingFirst

\* Within a pass.
LEMMA PassFacts ==
    ASSUME Typed, Resolving
    PROVE  /\ pass \in 1..8 /\ Kinds[pass] \in Kind /\ IsList(List)
           /\ Len(List) \in Nat /\ DOMAIN List = 1..Len(List) /\ pos \in 1..(Len(List) + 1)
<1>1. pass \in 1..8 /\ Kinds[pass] \in Kind /\ pos \in 1..(Len(List) + 1)
  BY KindsFacts DEF Typed, TypeOK, Resolving
<1>2. IsList(List)
  BY <1>1 DEF Typed, Lists, List
<1> QED
  BY <1>1, <1>2, ListLength

LEMMA ParseTyped ==
    ASSUME Typed, Parse
    PROVE  /\ Typed' /\ \E kind \in Kind : \E list :
                records' = [records EXCEPT ![kind] = list]
<1> DEFINE use      == Head(uses)
           list     == AddRefs(records[use.kind], use.user, PossibleFQN(use), Belonged(use))
<1>1. /\ IsList(uses) /\ uses # <<>> /\ uses' = Tail(uses) /\ pass = 0
      /\ UNCHANGED <<declared, pass, pos, refers, errors, looping>>
  BY DEF Parse, Typed, Lists
<1>2. records' = [records EXCEPT ![use.kind] = list]
  BY DEF Parse
<1>3. /\ use.kind \in Kind /\ IsList(use.imports) /\ IsList(uses')
      /\ \A n \in DOMAIN uses' : GoodUse(uses'[n])
  <2>1. uses \in Seq(Range(uses)) /\ DOMAIN uses = 1..Len(uses) /\ Len(uses) \in Nat \ {0}
    BY <1>1, ListLength DEF IsList
  <2>2. use = uses[1] /\ Tail(uses) \in Seq(Range(uses)) /\ 1 \in DOMAIN uses
    BY <1>1, <2>1
  <2>3. \A n \in DOMAIN uses' : n + 1 \in DOMAIN uses /\ uses'[n] = uses[n + 1]
    BY <1>1, <2>1
  <2>4. \A n \in DOMAIN uses : GoodUse(uses[n])
    BY DEF Typed, Lists
  <2>5. IsList(uses')
    BY <1>1, <2>2, SequenceIsList
  <2> HIDE DEF use
  <2>6. use.kind \in Kind /\ IsList(use.imports)
    BY <2>2, <2>4 DEF GoodUse
  <2> QED
    BY <2>3, <2>4, <2>5, <2>6
<1>4. IsList(list)
  <2>1. IsList(records[use.kind]) /\ IsList(PossibleFQN(use))
    BY <1>3, PossibleFQNIsList DEF Typed, Lists
  <2> QED
    BY <2>1, AddRefsIsList
<1> HIDE DEF list, use
<1>5. DOMAIN records' = Kind /\ \A kind \in Kind : IsList(records'[kind])
  BY <1>2, <1>3, <1>4 DEF Typed, TypeOK, Lists
<1>6. TypeOK' /\ ParsingFirst'
  BY <1>1, <1>5 DEF Typed, TypeOK, ParsingFirst, Resolving
<1>7. Lists'
  BY <1>1, <1>3, <1>5 DEF Lists
<1> QED
  BY <1>2, <1>3, <1>6, <1>7 DEF Typed

\* What a record is found to mean leaves a user with one object at most.
LEMMA ToggledIsOne ==
    ASSUME NEW kind, NEW old, NEW ref, Single(ref), kind # "manages" => Single(old)
    PROVE  /\ Toggled(kind, old, ref) \subseteq old \cup ref
           /\ kind # "manages" => Single(Toggled(kind, old, ref))
<1>1. CASE kind = "manages"
  BY <1>1 DEF Toggled
<1>2. CASE kind # "manages"
  <2>1. Toggled(kind, old, ref) \in {ref, {}}
    BY <1>2 DEF Toggled
  <2> QED
    BY <1>2, <2>1 DEF Single
<1> QED
  BY <1>1, <1>2

LEMMA ResolveTyped ==
    ASSUME Typed, Resolve
    PROVE  Typed'
<1> DEFINE kind == Kinds[pass]
           r    == List[pos]
           ref  == Find(kind, r)
           old  == RefersTo(kind, r.user)
           new  == Toggled(kind, old, ref)
           key  == [kind |-> kind, user |-> r.user]
           Objects(k) == IF k \in {"base", "manages"} THEN Interfaces ELSE DOMAIN declared
<1>1. /\ UNCHANGED <<declared, uses, records, pass, looping>> /\ pos' = pos + 1
      /\ Resolving /\ pos \in DOMAIN List
  BY DEF Resolve
<1>2. /\ pass \in 1..8 /\ Len(List) \in Nat /\ DOMAIN List = 1..Len(List) /\ pos \in 1..(Len(List) + 1)
  BY <1>1, PassFacts
<1>3. \/ refers' = refers
      \/ refers' = [u \in DOMAIN refers \cup {key} |-> IF u = key THEN new ELSE refers[u]]
  BY DEF Resolve, Refer
<1>4. new \subseteq Objects(kind) /\ (kind # "manages" => Single(new))
  <2>1. Single(ref) /\ ref \subseteq Objects(kind)
    BY FindIsOne
  <2>2. old \subseteq Objects(kind) /\ (kind # "manages" => Single(old))
    <3>1. CASE key \in DOMAIN refers
      BY <3>1 DEF RefersTo, Typed, TypeOK, Single
    <3>2. CASE key \notin DOMAIN refers
      BY <3>2 DEF RefersTo, Single
    <3> QED
      BY <3>1, <3>2
  <2> HIDE DEF ref, old, Objects
  <2> QED
    BY <2>1, <2>2, ToggledIsOne
<1>5. \A u \in DOMAIN refers' :
         /\ refers'[u] \subseteq Objects(u.kind)
         /\ u.kind # "manages" => \A a, b \in refers'[u] : a = b
  <2>1. \A u \in DOMAIN refers :
         /\ refers[u] \subseteq Objects(u.kind)
         /\ u.kind # "manages" => \A a, b \in refers[u] : a = b
    BY DEF Typed, TypeOK
  <2>2. key.kind = kind
    OBVIOUS
  <2> HIDE DEF new, key, kind, Objects
  <2> QED
    BY <1>3, <1>4, <2>1, <2>2 DEF Single
<1>6. pos' \in 1..(Len(List) + 1)
  BY <1>1, <1>2
<1>7. TypeOK'
  BY <1>1, <1>5, <1>6 DEF Typed, TypeOK, Resolving, List
<1>8. Lists' /\ ParsingFirst'
  BY <1>1, <1>2 DEF Typed, Lists, ParsingFirst
<1> QED
  BY <1>7, <1>8 DEF Typed

LEMMA OtherTyped ==
    ASSUME Typed, StartResolving \/ Loop \/ EndPass \/ UNCHANGED vars
    PROVE  Typed'
<1>1. UNCHANGED <<declared, uses, records, refers>>
  BY DEF StartResolving, Loop, EndPass, vars
<1>2. Lists'
  BY <1>1 DEF Typed, Lists
<1>3. CASE StartResolving \/ EndPass
  <2>1. pass' = pass + 1 /\ pos' = 1 /\ looping' = looping /\ pass \in 0..8
    <3>1. CASE StartResolving
      BY <3>1 DEF StartResolving, Typed, ParsingFirst
    <3>2. CASE EndPass
      <4>1. Resolving /\ pass' = pass + 1 /\ pos' = 1 /\ looping' = looping
        BY <3>2 DEF EndPass
      <4> QED
        BY <4>1, PassFacts
    <3> QED
      BY <1>3, <3>1, <3>2
  <2>2. Resolving' => pos' \in 1..(Len(List') + 1)
    <3> SUFFICES ASSUME Resolving' PROVE Len(List') \in Nat
      BY <2>1
    <3>1. Kinds[pass'] \in Kind
      BY <2>1, KindsFacts DEF Resolving
    <3>2. IsList(records[Kinds[pass']])
      BY <3>1 DEF Typed, Lists
    <3> QED
      BY <1>1, <3>2, ListLength DEF List
  <2>3. TypeOK' /\ ParsingFirst'
    BY <1>1, <2>1, <2>2, KindsFacts DEF Typed, TypeOK, ParsingFirst
  <2> QED
    BY <1>2, <2>3 DEF Typed
<1>4. CASE Loop
  <2>1. UNCHANGED <<pass, pos, errors>> /\ looping' = TRUE /\ ~Resolving' /\ pass # 0
    BY <1>4, KindsFacts DEF Loop, Resolving
  <2> QED
    BY <1>1, <1>2, <2>1 DEF Typed, TypeOK, ParsingFirst
<1>5. CASE UNCHANGED vars
  BY <1>1, <1>2, <1>5 DEF vars, Typed, TypeOK, ParsingFirst, Resolving, List
<1> QED
  BY <1>3, <1>4, <1>5

LEMMA StepTyped ==
    ASSUME Typed, [Next]_vars
    PROVE  Typed'
BY ParseTyped, ResolveTyped, OtherTyped DEF Next

\* Every variable keeps its type: whatever the names, a user refers to one object at most,
\* "manages" excepted, and only to objects that there are.
THEOREM TypeCorrect == Spec => []TypeOK
<1>1. Typed => TypeOK
  BY DEF Typed
<1> QED
  BY InitTyped, StepTyped, <1>1, PTL DEF Spec

-----------------------------------------------------------------------------
(* The verdict.                                                            *)

Inductive == Typed /\ ErrorsOfUsers /\ \A u \in Users : Answered(u.kind, u.user)

Clash(kind, a, b) == CASE kind = "manages" -> a = b
                       [] kind = "element" -> a # b
                       [] OTHER            -> TRUE

LEMMA UnionOfOneMore ==
    ASSUME NEW S, NEW p, NEW M
    PROVE  UNION {M[n] : n \in S \cup {p}} = (UNION {M[n] : n \in S}) \cup M[p]
OBVIOUS

\* Toggling with what one more record means: an error when it clashes with a record before,
\* and what all of them mean as long as none has clashed.
LEMMA OneMore ==
    ASSUME NEW kind, NEW S, NEW p, p \notin S, NEW M,
           \A n \in S \cup {p} : M[n] # {} /\ Single(M[n]),
           NEW dup \in BOOLEAN, NEW old,
           dup <=> \E m, n \in S : m # n /\ Clash(kind, M[m], M[n]),
           ~dup => old = UNION {M[n] : n \in S}
    PROVE  LET new  == Toggled(kind, old, M[p])
               dup2 == dup \/ ~(M[p] \subseteq new)
           IN /\ dup2 <=> \E m, n \in S \cup {p} : m # n /\ Clash(kind, M[m], M[n])
              /\ ~dup2 => new = UNION {M[n] : n \in S \cup {p}}
<1> DEFINE new   == Toggled(kind, old, M[p])
           dup2  == dup \/ ~(M[p] \subseteq new)
           clash == \E m, n \in S \cup {p} : m # n /\ Clash(kind, M[m], M[n])
<1> SUFFICES (dup2 <=> clash) /\ (~dup2 => new = UNION {M[n] : n \in S \cup {p}})
  OBVIOUS
<1>1. CASE dup
  BY <1>1
<1>2. CASE ~dup
  <2>1. old = UNION {M[n] : n \in S} /\ \A m, n \in S : m # n => ~Clash(kind, M[m], M[n])
    BY <1>2
  <2>2. CASE kind = "manages"
    <3>1. new = (old \ M[p]) \cup (M[p] \ old)
      BY <2>2 DEF Toggled
    <3>2. PICK x : M[p] = {x}
      <4>1. M[p] # {} /\ Single(M[p])
        OBVIOUS
      <4>2. PICK x : x \in M[p]
        BY <4>1
      <4>3. M[p] = {x}
        BY <4>1, <4>2 DEF Single
      <4> QED
        BY <4>3
    <3>3. CASE x \in old
      <4>1. PICK n \in S : x \in M[n]
        BY <2>1, <3>3
      <4>2. M[n] = M[p]
        BY <3>2, <4>1 DEF Single
      <4>3. clash
        BY <2>2, <4>2 DEF Clash
      <4> QED
        BY <3>1, <3>2, <3>3, <4>3
    <3>4. CASE x \notin old
      <4>1. M[p] \subseteq new /\ new = UNION {M[n] : n \in S \cup {p}}
        <5>1. new = old \cup M[p]
          BY <3>1, <3>2, <3>4
        <5>2. UNION {M[n] : n \in S \cup {p}} = (UNION {M[n] : n \in S}) \cup M[p]
          BY UnionOfOneMore
        <5> QED
          BY <2>1, <5>1, <5>2
      <4>2. \A n \in S : M[n] # M[p]
        BY <2>1, <3>2, <3>4
      <4>3. ~clash
        BY <2>1, <2>2, <4>2 DEF Clash
      <4> QED
        BY <1>2, <4>1, <4>3
    <3> QED
      BY <3>3, <3>4
  <2>3. CASE kind # "manages" /\ S = {}
    <3>1. old = {} /\ new = M[p] /\ ~clash
      BY <2>1, <2>3 DEF Toggled
    <3> QED
      BY <1>2, <2>3, <3>1
  <2>4. CASE kind = "element" /\ S # {}
    <3>1. PICK n \in S : TRUE
      BY <2>4
    <3>2. \A m \in S : M[m] = M[n]
      BY <2>1, <2>4 DEF Clash
    <3>3. old = M[n] /\ old # {}
      BY <2>1, <3>2
    <3>4. CASE M[p] = M[n]
      <4>1. new = M[p]
        BY <2>4, <3>3, <3>4 DEF Toggled
      <4>2. \A m \in S \cup {p} : M[m] = M[p]
        BY <3>2, <3>4
      <4>3. ~clash /\ UNION {M[m] : m \in S \cup {p}} = M[p]
        BY <2>4, <4>2 DEF Clash
      <4> QED
        BY <1>2, <4>1, <4>3
    <3>5. CASE M[p] # M[n]
      <4>1. new = {}
        BY <2>4, <3>3, <3>5 DEF Toggled
      <4>2. clash
        BY <2>4, <3>5 DEF Clash
      <4> QED
        BY <4>1, <4>2
    <3> QED
      BY <3>4, <3>5
  <2>5. CASE kind \notin {"manages", "element"} /\ S # {}
    <3>1. PICK n \in S : TRUE
      BY <2>5
    <3>2. old # {}
      BY <2>1, <3>1
    <3>3. new = {}
      BY <2>5, <3>2 DEF Toggled
    <3>4. clash
      BY <2>5, <3>1 DEF Clash
    <3> QED
      BY <3>3, <3>4
  <2> QED
    BY <2>2, <2>3, <2>4, <2>5
<1> QED
  BY <1>1, <1>2

LEMMA ContradictIsClash ==
    \A kind, m, n : Contradict(kind, m, n) <=> Clash(kind, Means(kind, m), Means(kind, n))
BY DEF Contradict, Clash

LEMMA UserKinds ==
    ASSUME NEW u \in Users
    PROVE  /\ u.kind \in Kind /\ u = [kind |-> u.kind, user |-> u.user]
           /\ \E r \in Range(records[u.kind]) : r.user = u.user
BY DEF Users

\* Positions in the lists are counted from one.
LEMMA Positions ==
    ASSUME Typed, NEW kind \in Kind, NEW user, NEW n \in Matching(kind, user)
    PROVE  n \in Nat \ {0} /\ n \in DOMAIN records[kind]
<1>1. IsList(records[kind]) /\ n \in DOMAIN records[kind]
  BY DEF Typed, Lists, Matching, Records
<1> QED
  BY <1>1, ListLength

\* Before the first record is worked off nothing has been said.
LEMMA NothingSaid ==
    Typed /\ pass \in {0, 1} /\ pos = 1 /\ DOMAIN refers = {} /\ errors = {} => Inductive
<1> SUFFICES ASSUME Typed, pass \in {0, 1}, pos = 1, DOMAIN refers = {}, errors = {}
             PROVE  Inductive
  OBVIOUS
<1>1. ASSUME NEW u \in Users PROVE Answered(u.kind, u.user)
  <2>1. u.kind \in Kind
    BY UserKinds
  <2>2. Said(u.kind, u.user) = {}
    <3> SUFFICES ASSUME NEW n \in Matching(u.kind, u.user), Reached(u.kind, n) PROVE FALSE
      BY DEF Said
    <3>1. n \in Nat \ {0}
      BY <2>1, Positions
    <3> QED
      BY <3>1, KindsFacts DEF Reached
  <2>3. ~Passed(u.kind) /\ RefersTo(u.kind, u.user) = {}
    BY KindsFacts DEF Passed, RefersTo
  <2> QED
    BY <2>2, <2>3 DEF Answered, Duplicate, Unresolved
<1> QED
  BY <1>1 DEF Inductive, ErrorsOfUsers

\* An answer stays when what it depends on does.
LEMMA SameAnswer ==
    ASSUME NEW kind, NEW user, Answered(kind, user), records' = records,
           Said(kind, user)' = Said(kind, user),
           \A n \in Said(kind, user) : Means(kind, n)' = Means(kind, n),
           RefersTo(kind, user)' = RefersTo(kind, user),
           Duplicate(kind, user)' <=> Duplicate(kind, user),
           Unresolved(kind, user)' <=> Unresolved(kind, user),
           Passed(kind)' <=> Passed(kind)
    PROVE  Answered(kind, user)'
<1>1. \A m, n \in Said(kind, user) : Contradict(kind, m, n)' <=> Contradict(kind, m, n)
  BY DEF Contradict
<1>2. UNION {Means(kind, n) : n \in Said(kind, user)}' = UNION {Means(kind, n) : n \in Said(kind, user)}
  OBVIOUS
<1> QED
  BY <1>1, <1>2 DEF Answered

LEMMA StutterAnswers ==
    ASSUME Inductive, UNCHANGED <<declared, records, pass, pos, refers, errors>>
    PROVE  ErrorsOfUsers' /\ \A u \in Users' : Answered(u.kind, u.user)'
<1>1. \A i, kind : RefersTo(kind, i)' = RefersTo(kind, i)
  BY DEF RefersTo
<1>2. \A kind, n : Means(kind, n)' = Means(kind, n)
  BY <1>1, BaseUnchanged, MeansUnchanged
<1>3. Users' = Users
  BY DEF Users
<1>4. ASSUME NEW u \in Users PROVE Answered(u.kind, u.user)'
  <2>1. Answered(u.kind, u.user)
    BY DEF Inductive
  <2>2. Said(u.kind, u.user)' = Said(u.kind, u.user)
    BY <1>2 DEF Said, Matching, Records, Reached
  <2>3. /\ Duplicate(u.kind, u.user)' <=> Duplicate(u.kind, u.user)
        /\ Unresolved(u.kind, u.user)' <=> Unresolved(u.kind, u.user)
        /\ Passed(u.kind)' <=> Passed(u.kind)
    BY DEF Duplicate, Unresolved, Passed, Error
  <2> QED
    BY <1>1, <1>2, <2>1, <2>2, <2>3, SameAnswer
<1> QED
  BY <1>3, <1>4 DEF Inductive, ErrorsOfUsers, Error

\* A record is worked off: what its user refers to toggles, other users are left alone.
\* What Refer leaves of what the other users refer to.
LEMMA RefersAfter ==
    ASSUME Resolve, NEW j, NEW v
    PROVE  LET kind == Kinds[pass]
               r    == List[pos]
               ref  == Find(kind, r)
           IN  RefersTo(j, v)' = IF ref # {} /\ j = kind /\ v = r.user
                                    THEN Toggled(kind, RefersTo(kind, r.user), ref) ELSE RefersTo(j, v)
<1> DEFINE kind == Kinds[pass]
           r    == List[pos]
           ref  == Find(kind, r)
           new  == Toggled(kind, RefersTo(kind, r.user), ref)
           key  == [kind |-> kind, user |-> r.user]
<1> SUFFICES RefersTo(j, v)' = IF ref # {} /\ j = kind /\ v = r.user THEN new ELSE RefersTo(j, v)
  OBVIOUS
<1>1. CASE ref = {}
  <2>1. refers' = refers
    BY <1>1 DEF Resolve
  <2> QED
    BY <1>1, <2>1 DEF RefersTo
<1>2. CASE ref # {}
  <2>1. refers' = [u \in DOMAIN refers \cup {key} |-> IF u = key THEN new ELSE refers[u]]
    BY <1>2 DEF Resolve, Refer
  <2>2. [kind |-> j, user |-> v] = key <=> j = kind /\ v = r.user
    OBVIOUS
  <2> HIDE DEF new, key, ref, kind, r
  <2>3. CASE [kind |-> j, user |-> v] = key
    BY <1>2, <2>1, <2>2, <2>3 DEF RefersTo
  <2>4. CASE [kind |-> j, user |-> v] # key
    BY <1>2, <2>1, <2>2, <2>4 DEF RefersTo
  <2> QED
    BY <2>3, <2>4
<1> QED
  BY <1>1, <1>2

LEMMA ResolveAnswers ==
    ASSUME Inductive, Resolve
    PROVE  ErrorsOfUsers' /\ \A u \in Users' : Answered(u.kind, u.user)'
<1> DEFINE kind == Kinds[pass]
           r    == List[pos]
           ref  == Find(kind, r)
           old  == RefersTo(kind, r.user)
           new  == Toggled(kind, old, ref)
           key  == [kind |-> kind, user |-> r.user]
           hit(j, v) == ref # {} /\ j = kind /\ v = r.user
<1>1. /\ declared' = declared /\ records' = records /\ pass' = pass /\ pos' = pos + 1
      /\ Resolving /\ pos \in DOMAIN List /\ Typed
  BY DEF Resolve, Inductive
<1>2. /\ pass \in 1..8 /\ kind \in Kind /\ IsList(List) /\ DOMAIN List = 1..Len(List)
      /\ Len(List) \in Nat /\ pos \in Nat \ {0}
  BY <1>1, PassFacts
<1>3. ref = Means(kind, pos) /\ List = records[kind] /\ key \in Users
  <2>1. ref = Means(kind, pos) /\ List = records[kind]
    BY DEF Means, List
  <2>2. r \in Range(records[kind])
    BY <1>1, <2>1 DEF Range
  <2> QED
    BY <1>2, <2>1, <2>2 DEF Users
<1>4. ASSUME NEW j, NEW v
      PROVE  RefersTo(j, v)' = IF hit(j, v) THEN new ELSE RefersTo(j, v)
  BY RefersAfter
<1>5. errors' = IF ref = {} \/ ref \subseteq new THEN errors
                ELSE errors \cup {Error(kind, r.user, "duplicate reference")}
  BY DEF Resolve
<1>6. ASSUME NEW j, NEW n, Reached(j, n) \/ (j = kind /\ n = pos)
      PROVE  Means(j, n)' = Means(j, n)
  <2>1. CASE kind = "base"
    <3>1. pass = 1
      BY <1>2, <2>1, KindsFacts
    <3>2. j = "base"
      BY <1>6, <2>1, <3>1, KindsFacts DEF Reached
    <3> QED
      BY <1>1, <3>2, BaseMeansUnchanged
  <2>2. CASE kind # "base"
    <3>1. \A i : RefersTo("base", i)' = RefersTo("base", i)
      BY <1>4, <2>2
    <3> QED
      BY <1>1, <3>1, BaseUnchanged, MeansUnchanged
  <2> QED
    BY <2>1, <2>2
<1>7. ASSUME NEW j \in Kind, NEW n \in Nat
      PROVE  Reached(j, n)' <=> Reached(j, n) \/ (j = kind /\ n = pos)
  BY <1>1, <1>2, KindsFacts DEF Reached
<1>8. ~Reached(kind, pos)
  BY <1>2, KindsFacts DEF Reached
<1> HIDE DEF kind, r, ref, old, new, key
<1>9. ASSUME NEW j \in Kind, NEW v
      PROVE  Said(j, v)' = IF hit(j, v) THEN Said(j, v) \cup {pos} ELSE Said(j, v)
  <2>1. Records(j, v)' = Records(j, v) /\ IsList(records[j])
    BY <1>1 DEF Records, Typed, Lists
  <2>2. Records(j, v) \subseteq Nat
    BY <2>1, ListLength DEF Records
  <2>3. \A n \in Records(j, v) : n \in Said(j, v)' <=>
            (n \in Said(j, v) \/ (j = kind /\ n = pos /\ Means(j, n) # {}))
    BY <1>6, <1>7, <2>1, <2>2 DEF Said, Matching
  <2>4. j = kind => (pos \in Records(j, v) <=> v = r.user)
    BY <1>1, <1>3 DEF Records, r
  <2>5. Said(j, v)' \subseteq Records(j, v) /\ Said(j, v) \subseteq Records(j, v)
    BY <2>1 DEF Said, Matching
  <2> QED
    BY <1>3, <2>3, <2>4, <2>5
<1>10. Users' = Users
  BY <1>1 DEF Users
<1>11. ErrorsOfUsers'
  BY <1>3, <1>5, <1>10 DEF Inductive, ErrorsOfUsers, Error, key
<1>12. \A j, v : /\ Duplicate(j, v)' <=> Duplicate(j, v) \/ (hit(j, v) /\ ~(ref \subseteq new))
                 /\ Unresolved(j, v)' <=> Unresolved(j, v)
                 /\ Passed(j)' <=> Passed(j)
  BY <1>1, <1>5 DEF Duplicate, Unresolved, Passed, Error
<1>13. ASSUME NEW u \in Users PROVE Answered(u.kind, u.user)'
  <2>0. u.kind \in Kind /\ Answered(u.kind, u.user)
    BY UserKinds DEF Inductive
  <2>1. \A n \in Said(u.kind, u.user)' : Means(u.kind, n)' = Means(u.kind, n)
    BY <1>3, <1>6, <1>9, <2>0 DEF Said
  <2>2. CASE ~hit(u.kind, u.user)
    BY <1>1, <1>4, <1>9, <1>12, <2>0, <2>1, <2>2, SameAnswer
  <2>3. CASE hit(u.kind, u.user)
    <3> DEFINE k == u.kind
               v == u.user
               S == Said(k, v)
               M == [n \in S \cup {pos} |-> Means(k, n)]
               dup == Duplicate(k, v)
    <3>1. k = kind /\ v = r.user /\ ref # {} /\ k \in Kind /\ Answered(k, v)
      BY <2>0, <2>3
    <3>2. pos \notin S /\ M[pos] = ref
      BY <1>3, <1>8, <3>1 DEF Said
    <3>3. \A n \in S \cup {pos} : M[n] # {} /\ Single(M[n]) /\ M[n] = Means(k, n)
      BY <1>3, <3>1, FindIsOne DEF Said, Matching, Means
    <3>4. dup \in BOOLEAN /\ (dup <=> \E m, n \in S : m # n /\ Clash(k, M[m], M[n]))
      <4>1. dup \in BOOLEAN
        BY DEF Duplicate
      <4>2. dup <=> \E m, n \in S : m # n /\ Contradict(k, m, n)
        BY <3>1 DEF Answered
      <4>3. \A m, n \in S : Contradict(k, m, n) <=> Clash(k, M[m], M[n])
        BY <3>3, ContradictIsClash
      <4> QED
        BY <4>1, <4>2, <4>3
    <3>5. ~dup => old = UNION {M[n] : n \in S}
      <4>1. {M[n] : n \in S} = {Means(k, n) : n \in S}
        BY <3>3
      <4>2. old = RefersTo(k, v)
        BY <3>1 DEF old
      <4> QED
        BY <3>1, <4>1, <4>2 DEF Answered
    <3>6. Said(k, v)' = S \cup {pos} /\ RefersTo(k, v)' = new
      BY <1>4, <1>9, <3>1
    <3>7. Duplicate(k, v)' <=> dup \/ ~(M[pos] \subseteq new)
      BY <1>12, <3>1, <3>2
    <3>a. \A n \in S \cup {pos} : Means(k, n)' = M[n]
      BY <2>1, <3>3, <3>6
    <3>8. \A m, n \in S \cup {pos} : Contradict(k, m, n)' <=> Clash(k, M[m], M[n])
      BY <3>a DEF Contradict, Clash
    <3>9. new = Toggled(k, old, M[pos])
      BY <3>1, <3>2 DEF new
    <3>10. UNION {Means(k, n) : n \in Said(k, v)}' = UNION {M[n] : n \in S \cup {pos}}
      <4>1. {Means(k, n) : n \in Said(k, v)}' = {M[n] : n \in S \cup {pos}}
        BY <3>a, <3>6
      <4> QED
        BY <4>1
    <3>11. ~Unresolved(k, v)' /\ ~Passed(k)'
      <4>1. ~Passed(k)
        BY <1>2, <3>1, KindsFacts DEF Passed, kind
      <4> QED
        BY <1>12, <3>1, <4>1 DEF Answered
    <3> HIDE DEF S, M, dup, k, v
    <3>12. /\ (dup \/ ~(M[pos] \subseteq new)) <=> \E m, n \in S \cup {pos} : m # n /\ Clash(k, M[m], M[n])
           /\ ~(dup \/ ~(M[pos] \subseteq new)) => new = UNION {M[n] : n \in S \cup {pos}}
      BY <3>2, <3>3, <3>4, <3>5, <3>9, OneMore
    <3>13. Answered(u.kind, u.user)'
      BY <3>6, <3>7, <3>8, <3>10, <3>11, <3>12 DEF Answered, k, v
    <3> QED
      BY <3>13
  <2> QED
    BY <2>2, <2>3
<1> QED
  BY <1>10, <1>11, <1>13

\* A pass ends: its users that are left without anything are reported.
LEMMA EndPassAnswers ==
    ASSUME Inductive, EndPass
    PROVE  ErrorsOfUsers' /\ \A u \in Users' : Answered(u.kind, u.user)'
<1> DEFINE kind == Kinds[pass]
           left == {r \in Range(List) : RefersTo(kind, r.user) = {}}
<1>1. /\ UNCHANGED <<declared, records, refers>> /\ pass' = pass + 1 /\ pos' = 1
      /\ Resolving /\ pos \notin DOMAIN List /\ Typed
  BY DEF EndPass, Inductive
<1>0. errors' = errors \cup {Error(kind, r.user, "unresolved reference") : r \in left}
  BY DEF EndPass
<1>2. pass \in 1..8 /\ kind \in Kind /\ DOMAIN List = 1..(pos - 1) /\ pos \in Nat /\ List = records[kind]
  <2>1. /\ pass \in 1..8 /\ kind \in Kind /\ Len(List) \in Nat /\ DOMAIN List = 1..Len(List)
        /\ pos \in 1..(Len(List) + 1)
    BY <1>1, PassFacts
  <2>2. pos = Len(List) + 1
    BY <1>1, <2>1
  <2> QED
    BY <2>1, <2>2 DEF List
<1> HIDE DEF left
<1>3. \A i, j : RefersTo(j, i)' = RefersTo(j, i)
  BY <1>1 DEF RefersTo
<1>4. \A j, n : Means(j, n)' = Means(j, n)
  BY <1>1, <1>3, BaseUnchanged, MeansUnchanged
<1>5. Users' = Users
  BY <1>1 DEF Users
<1>6. \A j \in Kind : Passed(j)' <=> Passed(j) \/ j = kind
  BY <1>1, <1>2, KindsFacts DEF Passed
<1>7. ~Passed(kind)
  BY <1>2, KindsFacts DEF Passed
<1>8. ASSUME NEW j \in Kind, NEW n \in DOMAIN records[j]
      PROVE  Reached(j, n)' <=> Reached(j, n)
  <2>1. n \in Nat \ {0}
    BY <1>1, ListLength DEF Typed, Lists
  <2>2. CASE j = kind
    <3>1. n < pos
      BY <1>2, <2>1, <2>2
    <3> QED
      BY <1>1, <1>2, <2>1, <2>2, <3>1, KindsFacts DEF Reached
  <2>3. CASE j # kind
    BY <1>1, <1>2, <2>1, <2>3, KindsFacts DEF Reached
  <2> QED
    BY <2>2, <2>3
<1>9. ASSUME NEW j \in Kind, NEW v PROVE Said(j, v)' = Said(j, v)
  <2>1. Matching(j, v)' = Matching(j, v) /\ Matching(j, v) \subseteq DOMAIN records[j]
    BY <1>1, <1>4 DEF Matching, Records
  <2> QED
    BY <1>8, <2>1 DEF Said
<1>10. ErrorsOfUsers'
  <2>1. \A r \in left : [kind |-> kind, user |-> r.user] \in Users
    BY <1>2 DEF Users, left
  <2>2. ASSUME NEW e \in errors' PROVE \E u \in Users :
            e \in {Error(u.kind, u.user, "duplicate reference"), Error(u.kind, u.user, "unresolved reference")}
    <3>1. CASE e \in errors
      BY <3>1 DEF Inductive, ErrorsOfUsers
    <3>2. CASE e \notin errors
      <4>1. PICK r \in left : e = Error(kind, r.user, "unresolved reference")
        BY <1>0, <2>2, <3>2
      <4> DEFINE u == [kind |-> kind, user |-> r.user]
      <4>2. u \in Users /\ u.kind = kind /\ u.user = r.user
        BY <2>1
      <4> QED
        BY <4>1, <4>2
    <3> QED
      BY <3>1, <3>2
  <2> QED
    BY <1>5, <2>2 DEF ErrorsOfUsers, Error
<1>11. ASSUME NEW u \in Users PROVE Answered(u.kind, u.user)'
  <2>0. u.kind \in Kind /\ Answered(u.kind, u.user) /\ \E r \in Range(records[u.kind]) : r.user = u.user
    BY UserKinds DEF Inductive
  <2>1. Duplicate(u.kind, u.user)' <=> Duplicate(u.kind, u.user)
    BY <1>0 DEF Duplicate, Error
  <2>2. Unresolved(u.kind, u.user)' <=>
          Unresolved(u.kind, u.user) \/ (u.kind = kind /\ RefersTo(kind, u.user) = {})
    <3>1. Unresolved(u.kind, u.user)' <=>
            Unresolved(u.kind, u.user) \/ (u.kind = kind /\ \E r \in left : r.user = u.user)
      BY <1>0 DEF Unresolved, Error
    <3> QED
      BY <1>2, <2>0, <3>1 DEF left
  <2>3. \A m, n : Contradict(u.kind, m, n)' <=> Contradict(u.kind, m, n)
    BY <1>4 DEF Contradict
  <2>4. UNION {Means(u.kind, n) : n \in Said(u.kind, u.user)}'
          = UNION {Means(u.kind, n) : n \in Said(u.kind, u.user)}
    BY <1>4, <1>9, <2>0
  <2> QED
    BY <1>3, <1>6, <1>7, <1>9, <2>0, <2>1, <2>2, <2>3, <2>4 DEF Answered
<1> QED
  BY <1>5, <1>10, <1>11

LEMMA InitInductive == Init => Inductive
BY InitTyped, NothingSaid DEF Init

LEMMA StepInductive ==
    ASSUME Inductive, [Next]_vars
    PROVE  Inductive'
<1>0. Typed /\ Typed'
  BY StepTyped DEF Inductive
<1>1. CASE Parse \/ StartResolving
  <2>1. /\ pass' \in {0, 1} /\ pos' = 1 /\ refers' = refers /\ errors' = errors
        /\ pass = 0
    BY <1>0, <1>1 DEF Parse, StartResolving, Typed, ParsingFirst
  <2>2. DOMAIN refers' = {} /\ errors' = {}
    BY <1>0, <2>1 DEF Typed, ParsingFirst
  <2>3. (Typed /\ pass \in {0, 1} /\ pos = 1 /\ DOMAIN refers = {} /\ errors = {} => Inductive)'
    BY NothingSaid, PTL
  <2> QED
    BY <1>0, <2>1, <2>2, <2>3
<1>2. CASE Resolve
  BY <1>0, <1>2, ResolveAnswers DEF Inductive
<1>3. CASE EndPass
  BY <1>0, <1>3, EndPassAnswers DEF Inductive
<1>4. CASE Loop \/ UNCHANGED vars
  <2>1. UNCHANGED <<declared, records, pass, pos, refers, errors>>
    BY <1>4 DEF Loop, vars
  <2> QED
    BY <1>0, <2>1, StutterAnswers DEF Inductive
<1> QED
  BY <1>1, <1>2, <1>3, <1>4 DEF Next

LEMMA InductiveVerdict == Inductive => VerdictExact
<1> SUFFICES ASSUME Inductive, Done
             PROVE  /\ Success <=> \A u \in Users :
                          /\ Matching(u.kind, u.user) # {}
                          /\ \A m, n \in Matching(u.kind, u.user) : m # n => ~Contradict(u.kind, m, n)
                    /\ Success => \A u \in Users : refers[u] = Meanings(u.kind, u.user)
  BY DEF VerdictExact
<1>1. pass = 9 /\ Typed
  BY KindsFacts DEF Done, Inductive
<1>2. ASSUME NEW u \in Users
      PROVE  /\ Said(u.kind, u.user) = Matching(u.kind, u.user) /\ Passed(u.kind)
             /\ Answered(u.kind, u.user)
  <2>1. u.kind \in Kind
    BY UserKinds
  <2>2. Passed(u.kind) /\ \A n : Reached(u.kind, n)
    BY <1>1, <2>1, KindsFacts DEF Passed, Reached
  <2> QED
    BY <2>2 DEF Said, Inductive
<1>3. ASSUME NEW u \in Users
      PROVE  ~Duplicate(u.kind, u.user) /\ ~Unresolved(u.kind, u.user) <=>
               /\ Matching(u.kind, u.user) # {}
               /\ \A m, n \in Matching(u.kind, u.user) : m # n => ~Contradict(u.kind, m, n)
  <2>1. \A n \in Matching(u.kind, u.user) : Means(u.kind, n) # {}
    BY DEF Matching
  <2>2. (UNION {Means(u.kind, n) : n \in Matching(u.kind, u.user)}) = {} <=> Matching(u.kind, u.user) = {}
    BY <2>1
  <2>3. ~Duplicate(u.kind, u.user) =>
          (RefersTo(u.kind, u.user) = {} <=> Matching(u.kind, u.user) = {})
    BY <1>2, <2>2 DEF Answered
  <2>4. Unresolved(u.kind, u.user) <=> RefersTo(u.kind, u.user) = {}
    BY <1>2 DEF Answered
  <2>5. Duplicate(u.kind, u.user) <=>
          \E m, n \in Matching(u.kind, u.user) : m # n /\ Contradict(u.kind, m, n)
    BY <1>2 DEF Answered
  <2> QED
    BY <2>3, <2>4, <2>5
<1>4. Success <=> \A u \in Users : ~Duplicate(u.kind, u.user) /\ ~Unresolved(u.kind, u.user)
  BY DEF Success, Inductive, ErrorsOfUsers, Duplicate, Unresolved
<1>5. ASSUME Success, NEW u \in Users
      PROVE  refers[u] = Meanings(u.kind, u.user)
  <2>1. RefersTo(u.kind, u.user) = Meanings(u.kind, u.user) /\ RefersTo(u.kind, u.user) # {}
    BY <1>2, <1>4, <1>5 DEF Answered, Meanings
  <2> QED
    BY <2>1, UserKinds DEF RefersTo
<1> QED
  BY <1>3, <1>4, <1>5

\* resolveAllRef's answer is exact, whatever names are used, whatever is declared and
\* however the interfaces inherit from each other.
THEOREM VerdictIsExact == Spec => []VerdictExact
BY InitInductive, StepInductive, InductiveVerdict, PTL DEF Spec
-----------------------------------------------------------------------------
(* Inherited names.                                                        *)

\* The records that the use of a name leaves.
Recorded(use) == {[user |-> use.user, fqn |-> f, belonged |-> Belonged(use)] :
                      f \in Range(PossibleFQN(use))}

\* The records are those of the names that have been parsed, and a user stands in one place.
Remembered ==
    /\ \A use \in used : GoodUse(use)
    /\ \A kind \in Kind : \A r \in Range(records[kind]) :
           \E use \in used : use.kind = kind /\ r \in Recorded(use)
    /\ \A use \in used : Recorded(use) \subseteq Range(records[use.kind])
    /\ \A a, b \in used : SamePlace(a, b)
    /\ \A a \in used, n \in DOMAIN uses : SamePlace(a, uses[n])
    /\ \A m, n \in DOMAIN uses : SamePlace(uses[m], uses[n])

LEMMA InitRemembered == Init => Remembered
<1> SUFFICES ASSUME Init PROVE Remembered
  OBVIOUS
<1>1. used = {} /\ uses \in Sources
  BY DEF Init
<1>2. \A kind \in Kind : Range(records[kind]) = {}
  BY DEF Init, Range
<1>3. \A m, n \in DOMAIN uses : SamePlace(uses[m], uses[n])
  BY <1>1, NamesAssumption
<1> QED
  BY <1>1, <1>2, <1>3 DEF Remembered

LEMMA ParseRemembers ==
    ASSUME Typed, Remembered, Parse
    PROVE  Remembered'
<1> DEFINE use  == Head(uses)
           list == AddRefs(records[use.kind], use.user, PossibleFQN(use), Belonged(use))
<1>1. /\ IsList(uses) /\ uses # <<>> /\ uses' = Tail(uses) /\ used' = used \cup {use}
      /\ records' = [records EXCEPT ![use.kind] = list]
  BY DEF Parse, Typed, Lists
<1>2. /\ 1 \in DOMAIN uses /\ use = uses[1]
      /\ \A n \in DOMAIN uses' : n + 1 \in DOMAIN uses /\ n + 1 # 1 /\ uses'[n] = uses[n + 1]
      /\ \A m, n \in DOMAIN uses' : m # n => m + 1 # n + 1
  <2>1. uses \in Seq(Range(uses)) /\ DOMAIN uses = 1..Len(uses) /\ Len(uses) \in Nat \ {0}
    BY <1>1, ListLength DEF IsList
  <2>2. use = uses[1] /\ DOMAIN Tail(uses) = 1..(Len(uses) - 1)
        /\ \A n \in 1..(Len(uses) - 1) : Tail(uses)[n] = uses[n + 1]
    BY <1>1, <2>1
  <2> HIDE DEF use
  <2> QED
    BY <1>1, <2>1, <2>2
<1>3. GoodUse(use) /\ use.kind \in Kind
  BY <1>2 DEF Typed, Lists, GoodUse
<1>4. Range(list) = Range(records[use.kind]) \cup Recorded(use)
  <2>1. IsList(records[use.kind]) /\ IsList(PossibleFQN(use))
    BY <1>3, PossibleFQNIsList DEF Typed, Lists, GoodUse
  <2> QED
    BY <2>1, AddRefsIsList DEF Recorded
<1>5. \A u : Recorded(u)' = Recorded(u)
  BY <1>1 DEF Recorded, PossibleFQN
<1>6. DOMAIN records = Kind
  BY DEF Typed, TypeOK
<1> HIDE DEF list, use
<1>7. /\ Range(records'[use.kind]) = Range(records[use.kind]) \cup Recorded(use)
      /\ \A kind \in Kind \ {use.kind} : Range(records'[kind]) = Range(records[kind])
  BY <1>1, <1>3, <1>4, <1>6
<1>8. \A u \in used' : GoodUse(u)
  BY <1>1, <1>3 DEF Remembered
<1>9. ASSUME NEW kind \in Kind, NEW r \in Range(records'[kind])
      PROVE  \E u \in used' : u.kind = kind /\ r \in Recorded(u)
  <2>1. r \in Range(records[kind]) \/ (kind = use.kind /\ r \in Recorded(use))
    BY <1>7, <1>9
  <2> QED
    BY <1>1, <2>1 DEF Remembered
<1>10. ASSUME NEW u \in used' PROVE Recorded(u) \subseteq Range(records'[u.kind])
  <2>1. CASE u = use
    BY <1>7, <2>1
  <2>2. CASE u # use
    <3>1. u \in used /\ u.kind \in Kind
      BY <1>1, <1>8, <2>2 DEF GoodUse
    <3>2. Range(records[u.kind]) \subseteq Range(records'[u.kind])
      BY <1>7, <3>1
    <3> QED
      BY <3>1, <3>2 DEF Remembered
  <2> QED
    BY <2>1, <2>2
<1>11. \A a, b \in used' : SamePlace(a, b)
  <2>1. \A a \in used : SamePlace(a, use) /\ SamePlace(use, a)
    BY <1>2 DEF Remembered, SamePlace
  <2>2. SamePlace(use, use)
    BY DEF SamePlace
  <2> QED
    BY <1>1, <2>1, <2>2 DEF Remembered
<1>12. \A a \in used', n \in DOMAIN uses' : SamePlace(a, uses'[n])
  BY <1>1, <1>2 DEF Remembered
<1>13. \A m, n \in DOMAIN uses' : SamePlace(uses'[m], uses'[n])
  BY <1>2 DEF Remembered
<1> QED
  BY <1>5, <1>8, <1>9, <1>10, <1>11, <1>12, <1>13 DEF Remembered

LEMMA StepRemembered ==
    ASSUME Typed, Remembered, [Next]_vars
    PROVE  Remembered'
<1>1. CASE Parse
  BY <1>1, ParseRemembers
<1>2. CASE StartResolving \/ Resolve \/ Loop \/ EndPass \/ UNCHANGED vars
  <2>1. UNCHANGED <<uses, used, records>>
    BY <1>2 DEF StartResolving, Resolve, Loop, EndPass, vars
  <2>2. \A u : Recorded(u)' = Recorded(u)
    BY <2>1 DEF Recorded, PossibleFQN
  <2> QED
    BY <2>1, <2>2 DEF Remembered
<1> QED
  BY <1>1, <1>2 DEF Next

LEMMA TwoLists ==
    ASSUME NEW s, IsList(s), NEW t, IsList(t)
    PROVE  /\ s \in Seq(Range(s) \cup Range(t)) /\ t \in Seq(Range(s) \cup Range(t))
           /\ s \o t \in Seq(Range(s) \cup Range(t)) /\ Len(s \o t) = Len(s) + Len(t)
<1> DEFINE T == Range(s) \cup Range(t)
<1>1. s \in Seq(Range(s)) /\ t \in Seq(Range(t)) /\ Range(s) \subseteq T /\ Range(t) \subseteq T
  BY DEF IsList
<1> HIDE DEF T
<1>2. s \in Seq(T) /\ t \in Seq(T)
  BY <1>1, SeqDef
<1> QED
  BY <1>2, ConcatProperties DEF T

LEMMA RangeOfConcat ==
    ASSUME NEW T, NEW s \in Seq(T), NEW t \in Seq(T)
    PROVE  Range(s \o t) = Range(s) \cup Range(t)
<1>1. ElementsOf(s \o t) = ElementsOf(s) \cup ElementsOf(t)
  BY ConcatContents
<1>2. Range(s \o t) = ElementsOf(s \o t) /\ Range(s) = ElementsOf(s) /\ Range(t) = ElementsOf(t)
  BY DEF Range, ElementsOf
<1> QED
  BY <1>1, <1>2

LEMMA SingletonList ==
    ASSUME NEW T, NEW x \in T
    PROVE  <<x>> \in Seq(T) /\ Range(<<x>>) = {x}
BY DEF Range

\* What a simple name in an interface may stand for: itself, and what the interface declares.
LEMMA SimpleNames ==
    ASSUME NEW use, GoodUse(use), use.within \in Interfaces
    PROVE  /\ \A f \in Range(PossibleFQN(use)) : Len(f) = 1 => f = use.id
           /\ Len(use.id) = 1 => use.within \o use.id \in Range(PossibleFQN(use))
<1> DEFINE l == use.imports
           qualified == [n \in DOMAIN l |-> l[n] \o use.id]
           T == {use.id, use.model \o use.id, use.within \o use.id} \cup {qualified[n] : n \in DOMAIN l}
<1>1. /\ IsList(use.id) /\ use.id # <<>> /\ Len(use.id) \in Nat /\ Len(use.id) >= 1
      /\ IsList(use.model) /\ use.model # <<>> /\ Len(use.model) \in Nat /\ Len(use.model) >= 1
      /\ IsList(use.within) /\ Len(use.within) \in Nat /\ Len(use.within) >= 2
      /\ use.within # use.model
  <2>1. /\ IsList(use.id) /\ use.id # <<>> /\ IsList(use.model) /\ use.model # <<>>
        /\ IsList(use.within) /\ Len(use.within) >= 2 /\ use.within # use.model
    BY NamesAssumption DEF GoodUse
  <2>2. \A s : IsList(s) /\ s # <<>> => Len(s) \in Nat /\ Len(s) >= 1
    BY EmptySeq DEF IsList
  <2> QED
    BY <2>1, <2>2, ListLength
<1>2. IsList(l) /\ Len(l) \in Nat /\ DOMAIN l = 1..Len(l) /\ \A n \in DOMAIN l : IsList(l[n])
  BY ListLength DEF GoodUse
<1>3. IF IsStrictPrefix(use.model, use.id) THEN PossibleFQN(use) = <<use.id>>
      ELSE /\ PossibleFQN(use) = <<use.id>> \o qualified \o <<use.model \o use.id>> \o <<use.within \o use.id>>
           /\ Range(PossibleFQN(use)) = T
  <2>1. PossibleFQN(use) = IF IsStrictPrefix(use.model, use.id) THEN <<use.id>>
          ELSE <<use.id>> \o qualified \o <<use.model \o use.id>> \o <<use.within \o use.id>>
    BY <1>1 DEF PossibleFQN
  <2>2. /\ <<use.id>> \in Seq(T) /\ <<use.model \o use.id>> \in Seq(T) /\ <<use.within \o use.id>> \in Seq(T)
        /\ Range(<<use.id>>) = {use.id} /\ Range(<<use.model \o use.id>>) = {use.model \o use.id}
        /\ Range(<<use.within \o use.id>>) = {use.within \o use.id}
    <3>1. use.id \in T /\ use.model \o use.id \in T /\ use.within \o use.id \in T
      OBVIOUS
    <3> HIDE DEF T, qualified
    <3> QED
      BY <3>1, SingletonList
  <2>3. qualified \in Seq(T) /\ Range(qualified) = {qualified[n] : n \in DOMAIN l}
    <3>1. qualified \in [1..Len(l) -> T] /\ DOMAIN qualified = DOMAIN l
      BY <1>2
    <3> HIDE DEF qualified, T, l
    <3> QED
      BY <1>2, <3>1, SeqDef DEF Range
  <2> DEFINE one == <<use.id>>  two == <<use.model \o use.id>>  three == <<use.within \o use.id>>
  <2>4. \A a, b \in Seq(T) : a \o b \in Seq(T) /\ Range(a \o b) = Range(a) \cup Range(b)
    <3> HIDE DEF T
    <3> QED
      BY RangeOfConcat, ConcatProperties
  <2>5. one \in Seq(T) /\ two \in Seq(T) /\ three \in Seq(T) /\ qualified \in Seq(T)
    BY <2>2, <2>3
  <2>6. Range(one \o qualified \o two \o three)
          = Range(one) \cup Range(qualified) \cup Range(two) \cup Range(three)
    <3> HIDE DEF T, qualified, one, two, three
    <3>1. one \o qualified \in Seq(T) /\ Range(one \o qualified) = Range(one) \cup Range(qualified)
      BY <2>4, <2>5
    <3>2. /\ one \o qualified \o two \in Seq(T)
          /\ Range(one \o qualified \o two) = Range(one) \cup Range(qualified) \cup Range(two)
      BY <2>4, <2>5, <3>1
    <3> QED
      BY <2>4, <2>5, <3>1, <3>2
  <2> QED
    BY <2>1, <2>2, <2>3, <2>6
<1>4. Len(use.id) = 1 => ~IsStrictPrefix(use.model, use.id)
  <2> SUFFICES ASSUME Len(use.id) = 1, IsPrefix(use.model, use.id) PROVE use.model = use.id
    BY DEF IsStrictPrefix
  <2> DEFINE long == Len(use.model)
  <2>1. long = 1 /\ SubSeq(use.model, 1, 1) = SubSeq(use.id, 1, 1)
    <3>1. long \in Nat /\ long >= 1 /\ long <= 1 /\ SubSeq(use.model, 1, long) = SubSeq(use.id, 1, long)
      BY <1>1 DEF IsPrefix
    <3> HIDE DEF long
    <3> QED
      BY <3>1
  <2> QED
    BY <1>1, <2>1, SubSeqFull DEF IsList
<1>5. \A n \in DOMAIN l : Len(qualified[n]) = 1 => qualified[n] = use.id
  <2> SUFFICES ASSUME NEW n \in DOMAIN l, Len(l[n] \o use.id) = 1 PROVE l[n] \o use.id = use.id
    OBVIOUS
  <2>1. Len(l[n]) \in Nat /\ Len(l[n] \o use.id) = Len(l[n]) + Len(use.id)
    BY <1>1, <1>2, TwoLists, ListLength
  <2>2. Len(l[n]) = 0 /\ IsList(l[n])
    <3> DEFINE long == Len(l[n])  short == Len(use.id)
    <3>1. long \in Nat /\ short \in Nat /\ short >= 1 /\ long + short = 1
      BY <1>1, <2>1
    <3> HIDE DEF long, short
    <3>2. long = 0
      BY <3>1
    <3> QED
      BY <1>2, <3>2 DEF long
  <2>3. l[n] = <<>>
    BY <2>2, EmptySeq DEF IsList
  <2> QED
    BY <1>1, <2>3, ConcatEmptySeq DEF IsList
<1>6. Len(use.model \o use.id) # 1 /\ Len(use.within \o use.id) # 1
  <2> DEFINE a == Len(use.model)  b == Len(use.id)  c == Len(use.within)
  <2>1. Len(use.model \o use.id) = a + b /\ Len(use.within \o use.id) = c + b
    BY <1>1, TwoLists
  <2>2. a \in Nat /\ a >= 1 /\ b \in Nat /\ b >= 1 /\ c \in Nat /\ c >= 2
    BY <1>1
  <2> HIDE DEF a, b, c
  <2> QED
    BY <2>1, <2>2
<1>7. use.id \in Range(<<use.id>>) /\ \A f \in Range(<<use.id>>) : f = use.id
  BY DEF Range
<1> HIDE DEF qualified
<1>8. CASE IsStrictPrefix(use.model, use.id)
  BY <1>3, <1>4, <1>7, <1>8
<1>9. CASE ~IsStrictPrefix(use.model, use.id)
  <2>1. Range(PossibleFQN(use)) = T
    BY <1>3, <1>9
  <2> QED
    BY <1>5, <1>6, <2>1
<1> QED
  BY <1>8, <1>9
\* Climbing starts at the interface and only meets interfaces.
LEMMA UpFacts ==
    ASSUME Typed, NEW i \in Interfaces
    PROVE  /\ Up(i)[0] = i /\ \A n \in 0..Cardinality(Interfaces) : Up(i)[n] \in Interfaces \cup {NoName}
           /\ \A n \in 1..Cardinality(Interfaces) : Up(i)[n] = Base[Up(i)[n - 1]]
<1> DEFINE C       == Cardinality(Interfaces)
           S       == Interfaces \cup {NoName}
           step    == [n \in 1..C |-> Base]
           Body(f) == [n \in 0..C |-> IF n = 0 THEN i ELSE Base[f[n - 1]]]
           up      == CHOOSE f : f = Body(f)
<1>1. C \in Nat
  BY NamesAssumption, FS_CardinalityType
<1>2. Base \in [S -> S]
  <2>1. ASSUME NEW j \in S
        PROVE  (IF RefersTo("base", j) = {} THEN NoName ELSE CHOOSE b \in RefersTo("base", j) : TRUE) \in S
    <3>1. RefersTo("base", j) \subseteq Interfaces
      BY DEF RefersTo, Typed, TypeOK
    <3> QED
      BY <3>1
  <2> QED
    BY <2>1 DEF Base
<1>3. step \in [1..C -> [S -> S]] /\ i \in S
  BY <1>2
<1>4. PICK g \in [0..C -> S] : g[0] = i /\ \A n \in 1..C : g[n] = step[n][g[n - 1]]
  <2> HIDE DEF S, C, step
  <2> QED
    BY <1>1, <1>3, FiniteRecursion
<1>5. g = Body(g)
  <2>1. ASSUME NEW n \in 0..C, n # 0 PROVE g[n] = Base[g[n - 1]]
    <3>1. n \in 1..C
      BY <1>1, <2>1
    <3> QED
      BY <1>4, <3>1
  <2> HIDE DEF S, C
  <2> QED
    BY <1>4, <2>1
<1>6. up = Body(up)
  <2> HIDE DEF Body
  <2> QED
    BY <1>5
<1>7. Up(i) = up
  BY DEF Up, Climb
<1> HIDE DEF up
<1>8. \A n \in 0..C : up[n] = IF n = 0 THEN i ELSE Base[up[n - 1]]
  <2> HIDE DEF C
  <2> QED
    BY <1>6
<1>9. \A n \in 0..C : up[n] \in S
  <2> DEFINE Bad == {n \in 0..C : up[n] \notin S}
  <2> SUFFICES ASSUME Bad # {} PROVE FALSE
    OBVIOUS
  <2>1. PICK m \in Bad : \A n \in Bad : m <= n
    <3>1. Bad \in SUBSET Nat
      BY <1>1
    <3> HIDE DEF Bad
    <3> QED
      BY <3>1, LeastNumber
  <2>2. m \in 0..C /\ up[m] \notin S
    BY <2>1
  <2>3. m # 0
    BY <1>8, <2>2
  <2>4. m - 1 \in 0..C /\ m - 1 \notin Bad
    <3> HIDE DEF Bad, C
    <3> QED
      BY <1>1, <2>1, <2>2, <2>3
  <2>5. up[m - 1] \in S
    BY <2>4
  <2> HIDE DEF S, Bad
  <2> QED
    BY <1>2, <1>8, <2>2, <2>3, <2>5
<1> QED
  <2>1. \A n \in 1..C : n \in 0..C /\ n # 0
    BY <1>1
  <2> HIDE DEF C, S
  <2> QED
    BY <1>1, <1>7, <1>8, <1>9, <2>1 DEF C, S

\* The name of a member mentions its interface.
LEMMA NamesItself ==
    ASSUME NEW kind, NEW i \in Interfaces, NEW fqn
    PROVE  LET name == Member(i, fqn)
           IN NamesInterface(kind, i, name) /\ Last(name) = Last(fqn)
<1> DEFINE x == Last(fqn)
           T == Range(i) \cup {x}
           long == Len(i)
           name == i \o <<x>>
<1>1. IsList(i) /\ long >= 2
  BY NamesAssumption
<1>2. i \in Seq(T) /\ <<x>> \in Seq(T) /\ Len(<<x>>) = 1 /\ long \in Nat
  <2>1. i \in Seq(Range(i)) /\ Range(i) \subseteq T /\ x \in T
    BY <1>1 DEF IsList
  <2> HIDE DEF T, x
  <2> QED
    BY <2>1, SeqDef
<1> HIDE DEF T, x
<1>3. Len(name) = long + 1 /\ name[long + 1] = x /\ name \in Seq(T)
  BY <1>2, ConcatProperties
<1>4. SubSeq(name, 1, long) = i
  <2>1. 1 \in 1..Len(i) /\ long \in 1..Len(i)
    BY <1>1, <1>2
  <2>2. SubSeq(name, 1, long) = SubSeq(i, 1, long)
    <3> HIDE DEF long
    <3> QED
      BY <1>2, <2>1, SubSeqOfConcat1
  <2> QED
    BY <1>2, <2>2, SubSeqFull
<1>5. 1 \in 1..Len(name) /\ long \in 1..Len(name) /\ long < Len(name)
  <2> HIDE DEF long, name
  <2> QED
    BY <1>1, <1>2, <1>3
<1>6. Member(i, fqn) = name
  BY DEF Member, x
<1> HIDE DEF name, long
<1>7. NamesInterface(kind, i, name)
  BY <1>4, <1>5 DEF NamesInterface
<1>8. Last(name) = x
  BY <1>3 DEF Last
<1> QED
  BY <1>6, <1>7, <1>8 DEF x

\* What is found around the user was asked of an interface that the name mentions.
LEMMA EnclosingNames ==
    ASSUME NEW kind, NEW i, NEW fqn, Enclosing(kind, i, fqn) # {}
    PROVE  \E n \in 0..Cardinality(Interfaces) : Up(i)[n] # NoName /\ NamesInterface(kind, Up(i)[n], fqn)
<1> DEFINE found(n) == OfClass(kind, InInterface(kind, Up(i)[n], fqn))
           bases    == 0..(IF kind = "error" THEN Cardinality(Interfaces) ELSE 0)
           hits     == {n \in bases : Up(i)[n] # NoName /\ found(n) # {}}
<1>1. Enclosing(kind, i, fqn) = IF i = NoName THEN {} ELSE UNION {found(n) : n \in First(hits)}
  BY DEF Enclosing
<1>2. PICK n \in hits : TRUE
  <2> HIDE DEF hits, found
  <2> QED
    BY <1>1 DEF First
<1>3. n \in 0..Cardinality(Interfaces)
  <2>1. Cardinality(Interfaces) \in Nat
    BY NamesAssumption, FS_CardinalityType
  <2> QED
    BY <2>1
<1>4. InInterface(kind, Up(i)[n], fqn) # {}
  BY DEF OfClass
<1>5. NamesInterface(kind, Up(i)[n], fqn)
  BY <1>4 DEF InInterface
<1> QED
  BY <1>3, <1>5

\* The name of a member of the interface is found to be the nearest declaration, if that is
\* of the right class, provided that a method's error mentions no other interface.
LEMMA EnclosingIsNearest ==
    ASSUME Typed, NEW kind, NEW i \in Interfaces, NEW fqn,
           kind = "error" => \A j \in Interfaces \ {i} : ~NamesInterface(kind, j, Member(i, fqn))
    PROVE  Enclosing(kind, i, Member(i, fqn)) = OfClass(kind, Nearest(kind, i, Last(fqn)))
<1> DEFINE name     == Member(i, fqn)
           C        == Cardinality(Interfaces)
           found(n) == OfClass(kind, InInterface(kind, Up(i)[n], name))
           bases    == 0..(IF kind = "error" THEN C ELSE 0)
           hits     == {n \in bases : Up(i)[n] # NoName /\ found(n) # {}}
<1>1. C \in Nat /\ i # NoName
  <2>1. Len(NoName) = 0 /\ Len(i) >= 2
    BY NamesAssumption DEF NoName
  <2> QED
    BY <2>1, NamesAssumption, FS_CardinalityType
<1>2. Up(i)[0] = i /\ \A n \in 0..C : Up(i)[n] \in Interfaces \cup {NoName}
  BY UpFacts
<1>3. NamesInterface(kind, i, name) /\ Last(name) = Last(fqn)
  BY NamesItself
<1>4. found(0) = OfClass(kind, Nearest(kind, i, Last(fqn)))
  <2>1. \A j : Member(j, name) = j \o <<Last(fqn)>>
    BY <1>3 DEF Member
  <2> DEFINE x         == Last(fqn)
             Sort      == IF kind = "element" THEN {"constant"} ELSE AnyType
             member(n) == Member(Up(i)[n], name)
             at(n)     == Up(i)[n] \o <<x>>
             declaring == {n \in 0..C : /\ Up(i)[n] # NoName
                                        /\ member(n) \in DOMAIN declared
                                        /\ declared[member(n)] \in Sort}
             near      == {n \in 0..C : Up(i)[n] # NoName /\ at(n) \in DOMAIN declared /\ declared[at(n)] \in Sort}
  <2>2. \A n : member(n) = at(n)
    BY <2>1
  <2>3. InInterface(kind, i, name) = {member(n) : n \in First(declaring)}
    BY <1>3 DEF InInterface
  <2>4. Nearest(kind, i, x) = {at(n) : n \in First(near)}
    BY DEF Nearest
  <2>5. declaring = near
    <3> HIDE DEF member, at, Sort
    <3> QED
      BY <2>2
  <2>6. {member(n) : n \in First(declaring)} = {at(n) : n \in First(near)}
    <3> HIDE DEF member, at, declaring, near
    <3> QED
      BY <2>2, <2>5
  <2> QED
    BY <1>2, <2>3, <2>4, <2>6
<1>5. ASSUME NEW n \in bases, Up(i)[n] # NoName, found(n) # {}
      PROVE  found(n) = found(0)
  <2>1. CASE n = 0
    BY <2>1
  <2>2. CASE n # 0
    <3>1. kind = "error" /\ n \in 0..C
      BY <2>2
    <3>2. NamesInterface(kind, Up(i)[n], name)
      BY <1>5 DEF OfClass, InInterface
    <3>3. Up(i)[n] = i
      BY <1>2, <1>5, <3>1, <3>2
    <3> QED
      BY <1>2, <3>3
  <2> QED
    BY <2>1, <2>2
<1>6. Enclosing(kind, i, name) = UNION {found(n) : n \in First(hits)}
  BY <1>1 DEF Enclosing
<1>7. 0 \in bases /\ \A n \in bases : n >= 0
  BY <1>1
<1> HIDE DEF found, bases
<1>8. CASE found(0) = {}
  <2>1. hits = {}
    BY <1>5, <1>8
  <2> QED
    BY <1>4, <1>6, <1>8, <2>1 DEF First
<1>9. CASE found(0) # {}
  <2>1. 0 \in hits /\ \A n \in hits : n \in bases
    BY <1>1, <1>2, <1>7, <1>9
  <2>2. 0 \in First(hits)
    BY <1>7, <2>1 DEF First
  <2>3. \A n \in First(hits) : found(n) = found(0)
    BY <1>5, <2>1 DEF First
  <2> QED
    BY <1>4, <1>6, <2>2, <2>3
<1> QED
  BY <1>8, <1>9

LEMMA InductiveInherits == Inductive /\ Remembered => InheritedNamesResolve
<1> SUFFICES ASSUME Inductive, Remembered, Done,
                    NEW kind \in Kind \ {"base", "manages"}, NEW r \in Range(records[kind]),
                    r.belonged # NoName, Len(r.fqn) = 1,
                    \A n \in Records(kind, r.user) : Public(kind, records[kind][n].fqn) = {},
                    NEW only \in DOMAIN records[kind], Naming(kind, r.user, r.belonged) = {only},
                    kind = "error" => \A i \in Interfaces \ {r.belonged} :
                                        ~NamesInterface(kind, i, Member(r.belonged, r.fqn))
             PROVE  RefersTo(kind, r.user) = OfClass(kind, Nearest(kind, r.belonged, Last(r.fqn)))
  BY DEF InheritedNamesResolve
<1> DEFINE b    == r.belonged
           name == Member(b, r.fqn)
           rec(n) == records[kind][n]
<1>1. pass = 9 /\ Typed
  BY KindsFacts DEF Done, Inductive
<1>2. PICK use \in used : use.kind = kind /\ r \in Recorded(use)
  BY DEF Remembered
<1>3. /\ r.user = use.user /\ b = Belonged(use) /\ r.fqn \in Range(PossibleFQN(use))
      /\ GoodUse(use)
  BY <1>2 DEF Recorded, Remembered
<1>4. b = use.within /\ b \in Interfaces
  BY <1>3 DEF Belonged
<1>5. r.fqn = use.id
  BY <1>3, <1>4, SimpleNames
<1>6. \A n \in Records(kind, r.user) : rec(n).belonged = b
  <2> SUFFICES ASSUME NEW n \in Records(kind, r.user) PROVE rec(n).belonged = b
    OBVIOUS
  <2>1. rec(n) \in Range(records[kind]) /\ rec(n).user = r.user
    BY DEF Records, Range
  <2>2. PICK other \in used : other.kind = kind /\ rec(n) \in Recorded(other)
    BY <2>1 DEF Remembered
  <2>3. other.user = use.user /\ rec(n).belonged = Belonged(other)
    BY <1>3, <2>1, <2>2 DEF Recorded
  <2>4. other.within = use.within
    BY <1>2, <2>2, <2>3 DEF Remembered, SamePlace
  <2>5. Belonged(other) = Belonged(use)
    BY <1>2, <2>2, <2>4 DEF Belonged
  <2> QED
    BY <1>3, <2>3, <2>5
<1>7. PICK n \in Records(kind, r.user) : rec(n).fqn = name /\ rec(n).belonged = b
  <2>1. name = use.within \o use.id
    <3>1. use.id \in Seq(Range(use.id)) /\ Len(use.id) = 1
      BY <1>3, <1>5 DEF GoodUse, IsList
    <3>2. use.id = <<Last(use.id)>>
      BY <3>1 DEF Last
    <3> QED
      BY <1>4, <1>5, <3>2 DEF Member
  <2>2. use.within \o use.id \in Range(PossibleFQN(use))
    BY <1>3, <1>4, <1>5, SimpleNames
  <2>3. [user |-> use.user, fqn |-> name, belonged |-> b] \in Range(records[kind])
    <3>1. [user |-> use.user, fqn |-> name, belonged |-> b] \in Recorded(use)
      <4>1. name \in Range(PossibleFQN(use)) /\ b = Belonged(use)
        BY <1>3, <2>1, <2>2
      <4> HIDE DEF name, b
      <4> QED
        BY <4>1 DEF Recorded
    <3>2. Recorded(use) \subseteq Range(records[kind])
      BY <1>2 DEF Remembered
    <3> QED
      BY <3>1, <3>2
  <2>4. PICK n \in DOMAIN records[kind] : rec(n) = [user |-> use.user, fqn |-> name, belonged |-> b]
    BY <2>3 DEF Range
  <2> QED
    BY <1>3, <2>4 DEF Records
<1>8. n = only
  <2>1. Cardinality(Interfaces) \in Nat
    BY NamesAssumption, FS_CardinalityType
  <2>2. 0 \in 0..Cardinality(Interfaces) /\ Up(b)[0] = b /\ b # NoName
    BY <1>1, <1>4, <2>1, UpFacts
  <2>3. NamesInterface(kind, b, rec(n).fqn)
    BY <1>4, <1>7, NamesItself
  <2>4. n \in Naming(kind, r.user, b)
    BY <2>2, <2>3 DEF Naming
  <2> QED
    BY <2>4
<1>9. Matching(kind, r.user) \subseteq {n}
  <2> SUFFICES ASSUME NEW m \in Records(kind, r.user), Means(kind, m) # {} PROVE m \in Naming(kind, r.user, b)
    BY <1>8 DEF Matching
  <2>1. Public(kind, rec(m).fqn) = {} /\ rec(m).belonged = b
    BY <1>6
  <2>2. Enclosing(kind, b, rec(m).fqn) # {}
    BY <2>1 DEF Means, Find
  <2> QED
    BY <2>2, EnclosingNames DEF Naming
<1>10. RefersTo(kind, r.user) = Means(kind, n)
  <2>1. [kind |-> kind, user |-> r.user] \in Users
    BY DEF Users
  <2>2. Answered(kind, r.user)
    BY <2>1 DEF Inductive
  <2>3. Said(kind, r.user) = Matching(kind, r.user)
    <3>1. \A m : Reached(kind, m)
      BY <1>1, KindsFacts DEF Reached
    <3> QED
      BY <3>1 DEF Said
  <2>4. RefersTo(kind, r.user) = UNION {Means(kind, m) : m \in Matching(kind, r.user)}
    BY <1>9, <2>2, <2>3 DEF Answered
  <2>5. CASE n \in Matching(kind, r.user)
    <3>1. Matching(kind, r.user) = {n}
      BY <1>9, <2>5
    <3> QED
      BY <2>4, <3>1
  <2>6. CASE n \notin Matching(kind, r.user)
    <3>1. Matching(kind, r.user) = {} /\ Means(kind, n) = {}
      BY <1>7, <1>9, <2>6 DEF Matching
    <3> QED
      BY <2>4, <3>1
  <2> QED
    BY <2>5, <2>6
<1>11. Means(kind, n) = Enclosing(kind, b, name)
  BY <1>7 DEF Means, Find
<1>12. Enclosing(kind, b, name) = OfClass(kind, Nearest(kind, b, Last(r.fqn)))
  BY <1>1, <1>4, EnclosingIsNearest
<1> QED
  BY <1>10, <1>11, <1>12

\* A simple name refers to the nearest declaration among its interface and the bases, through
\* any number of bases: the pass that sets them is over before the first name is looked up.
THEOREM NearestIsMeant == Spec => []InheritedNamesResolve
<1>1. Inductive => Typed
  BY DEF Inductive
<1> QED
  BY InitInductive, InitRemembered, StepInductive, StepRemembered, InductiveInherits, <1>1, PTL DEF Spec

-----------------------------------------------------------------------------
(* Resolving comes to an end.                                              *)

\* What is left, most significant first: the passes; the names to be parsed or the records of
\* the pass.
PassesLeft == 9 - pass
NamesLeft  == IF pass = 0 THEN Len(uses) ELSE IF Resolving THEN Len(List) + 1 - pos ELSE 0

Descends == PassesLeft' < PassesLeft \/ (PassesLeft' = PassesLeft /\ NamesLeft' < NamesLeft)
Bounded  == PassesLeft \in 0..9 /\ NamesLeft \in Nat

LEMMA TypedBounded == Typed => Bounded
<1> SUFFICES ASSUME Typed PROVE Bounded
  OBVIOUS
<1>1. pass \in 0..9 /\ Len(uses) \in Nat
  BY KindsFacts, ListLength DEF Typed, TypeOK, Lists
<1>2. Resolving => Len(List) \in Nat /\ pos \in 1..(Len(List) + 1)
  BY PassFacts
<1> QED
  BY <1>1, <1>2 DEF Bounded, PassesLeft, NamesLeft

LEMMA StepDescends == Typed /\ Next => Descends \/ looping'
<1> SUFFICES ASSUME Typed, Next PROVE Descends \/ looping'
  OBVIOUS
<1>1. pass \in 0..9
  BY KindsFacts DEF Typed, TypeOK
<1>2. Resolving => pass \in 1..8 /\ ~looping /\ Len(List) \in Nat /\ DOMAIN List = 1..Len(List) /\ pos \in Nat
  BY PassFacts DEF Resolving
<1>3. CASE Parse
  <2>1. pass = 0 /\ pass' = 0 /\ looping' = looping /\ uses # <<>> /\ uses' = Tail(uses)
    BY <1>3 DEF Parse
  <2>2. uses \in Seq(Range(uses))
    BY DEF Typed, Lists, IsList
  <2>3. Len(uses') = Len(uses) - 1 /\ Len(uses) \in Nat
    BY <2>1, <2>2
  <2> QED
    BY <2>1, <2>3 DEF Descends, PassesLeft, NamesLeft
<1>4. CASE Resolve
  <2>1. Resolving /\ pass' = pass /\ looping' = looping /\ records' = records /\ pos' = pos + 1
    BY <1>4 DEF Resolve
  <2>2. Resolving' /\ List' = List
    BY <2>1 DEF Resolving, List
  <2> QED
    BY <1>2, <2>1, <2>2 DEF Descends, PassesLeft, NamesLeft
<1>5. CASE StartResolving
  <2>1. ~looping /\ looping' = looping /\ pass = 0 /\ pass' = 1
    BY <1>5 DEF StartResolving, Typed, ParsingFirst
  <2> QED
    BY <2>1 DEF Descends, PassesLeft
<1>6. CASE Loop
  BY <1>6 DEF Loop
<1>7. CASE EndPass
  <2>1. Resolving /\ looping' = looping /\ pass' = pass + 1
    BY <1>7 DEF EndPass
  <2> QED
    BY <1>2, <2>1 DEF Descends, PassesLeft
<1> QED
  BY <1>3, <1>4, <1>5, <1>6, <1>7 DEF Next

\* What the names that have been found leave: every second one takes the one before it back.
LastOf(found) == IF Cardinality(found) % 2 = 1 THEN Means("base", Max(found)) ELSE {}

\* The pass over the bases gives an interface what its names alone say, the others do not change it.
BasesByName ==
    /\ pass = 1 => \A i \in Interfaces \cup {NoName} :
           RefersTo("base", i) = LastOf({n \in Matching("base", i) : n < pos})
    /\ pass > 1 => \A i \in Interfaces \cup {NoName} : RefersTo("base", i) = LastOf(Matching("base", i))

CircleOnly == looping => pass > 1 /\ ~BasesAcyclic

LEMMA MatchingFacts ==
    ASSUME Typed, NEW i
    PROVE  /\ Matching("base", i) \in SUBSET Nat /\ Matching("base", i) \subseteq DOMAIN records["base"]
           /\ \A n \in Matching("base", i) : n >= 1
           /\ IsFiniteSet(Matching("base", i))
<1>1. IsList(records["base"]) /\ Matching("base", i) \subseteq DOMAIN records["base"]
  BY KindsFacts DEF Typed, Lists, Matching, Records
<1>2. DOMAIN records["base"] = 1..Len(records["base"]) /\ Len(records["base"]) \in Nat
  BY <1>1, ListLength
<1>3. ASSUME NEW N \in Nat PROVE IsFiniteSet(1..N)
  BY FS_Interval
<1> QED
  BY <1>1, <1>2, <1>3, FS_Subset

LEMMA MatchingUnchanged ==
    ASSUME records' = records
    PROVE  /\ \A i : Matching("base", i)' = Matching("base", i)
           /\ \A found : LastOf(found)' = LastOf(found)
           /\ BasesAcyclic' <=> BasesAcyclic
<1>1. \A i : Matching("base", i)' = Matching("base", i)
  BY BaseMeansUnchanged DEF Matching, Records
<1>2. \A found : LastOf(found)' = LastOf(found)
  BY BaseMeansUnchanged DEF LastOf
<1>3. \A i : BaseByName(i)' = BaseByName(i)
  BY <1>1 DEF BaseByName, Find
<1> QED
  BY <1>1, <1>2, <1>3 DEF BasesAcyclic

\* One more name.
LEMMA OneMoreName ==
    ASSUME NEW pos0 \in Nat, NEW found \in SUBSET (0..pos0),
           \A n \in found : n < pos0 /\ Means("base", n) # {}, Means("base", pos0) # {}
    PROVE  LastOf(found \cup {pos0}) = IF LastOf(found) = {} THEN Means("base", pos0) ELSE {}
<1>1. Cardinality(found) \in Nat /\ Cardinality(found \cup {pos0}) = Cardinality(found) + 1
  <2>1. pos0 \notin found /\ IsFiniteSet(found)
    <3>1. IsFiniteSet(0..pos0)
      BY FS_Interval
    <3>2. IsFiniteSet(found)
      BY <3>1, FS_Subset
    <3> QED
      BY <3>2
  <2> QED
    BY <2>1, FS_AddElement, FS_CardinalityType
<1>2. Max(found \cup {pos0}) = pos0
  <2> DEFINE S == found \cup {pos0}
  <2>1. Max(S) = CHOOSE x \in S : \A y \in S : x >= y
    BY DEF Max
  <2>2. pos0 \in S /\ \A y \in S : y \in 0..pos0
    OBVIOUS
  <2>3. \A x \in S : (\A y \in S : x >= y) <=> x = pos0
    <3> HIDE DEF S
    <3> QED
      BY <2>2
  <2>4. Max(S) \in S /\ \A y \in S : Max(S) >= y
    <3>1. \E x \in S : \A y \in S : x >= y
      BY <2>2, <2>3
    <3> HIDE DEF S
    <3> QED
      BY <2>1, <3>1
  <2>5. Max(S) = pos0
    <3> HIDE DEF S
    <3> QED
      BY <2>3, <2>4
  <2> QED
    BY <2>5
<1>3. CASE Cardinality(found) % 2 = 1
  <2>1. Cardinality(found \cup {pos0}) % 2 # 1
    BY <1>1, <1>3
  <2>2. Max(found) \in found
    <3>1. found # {}
      BY <1>3, FS_EmptySet
    <3>2. \E x \in found : \A y \in found : x >= y
      BY <3>1, LargestNumber
    <3>3. Max(found) = CHOOSE x \in found : \A y \in found : x >= y
      BY DEF Max
    <3> QED
      BY <3>2, <3>3
  <2> QED
    BY <1>3, <2>1, <2>2 DEF LastOf
<1>4. CASE Cardinality(found) % 2 # 1
  <2>1. Cardinality(found \cup {pos0}) % 2 = 1
    BY <1>1, <1>4
  <2> QED
    BY <1>2, <1>4, <2>1 DEF LastOf
<1> QED
  BY <1>3, <1>4

LEMMA ResolveNames ==
    ASSUME Typed, BasesByName, Resolve
    PROVE  BasesByName'
<1> DEFINE r        == List[pos]
           ref      == Find(Kinds[pass], r)
           found(i) == {n \in Matching("base", i) : n < pos}
           after(i) == {n \in Matching("base", i) : n < pos + 1}
<1>1. /\ records' = records /\ pass' = pass /\ pos' = pos + 1 /\ Resolving /\ pos \in DOMAIN List
  BY DEF Resolve
<1>2. /\ pass \in 1..8 /\ DOMAIN List = 1..Len(List) /\ Len(List) \in Nat /\ pos \in Nat \ {0}
  BY <1>1, PassFacts
<1>3. /\ \A i : Matching("base", i)' = Matching("base", i)
      /\ \A found0 : LastOf(found0)' = LastOf(found0)
  BY <1>1, MatchingUnchanged
<1>4. CASE pass = 1
  <2>1. Kinds[pass] = "base" /\ List = records["base"] /\ ref = Means("base", pos)
    BY <1>4, KindsFacts DEF List, Means
  <2>2. ASSUME NEW i \in Interfaces \cup {NoName} PROVE RefersTo("base", i)' = LastOf(after(i))
    <3>1. pos \in Matching("base", i) <=> i = r.user /\ ref # {}
      BY <1>1, <2>1 DEF Matching, Records
    <3>2. RefersTo("base", i) = LastOf(found(i))
      BY <1>4 DEF BasesByName
    <3>3. \A n \in Matching("base", i) : n \in Nat /\ Means("base", n) # {}
      BY MatchingFacts DEF Matching
    <3>4. RefersTo("base", i)' = IF pos \in Matching("base", i)
                                    THEN Toggled("base", RefersTo("base", i), ref) ELSE RefersTo("base", i)
      BY <2>1, <3>1, RefersAfter
    <3>5. CASE pos \in Matching("base", i)
      <4>1. after(i) = found(i) \cup {pos}
        <5>1. \A n \in Nat : n < pos + 1 <=> n < pos \/ n = pos
          BY <1>2
        <5> QED
          BY <3>3, <3>5, <5>1
      <4>2. found(i) \in SUBSET (0..pos) /\ \A n \in found(i) : n < pos /\ Means("base", n) # {}
        BY <1>2, <3>3
      <4>3. Means("base", pos) # {} /\ pos \in Nat
        BY <1>2, <3>3, <3>5
      <4> HIDE DEF found, after
      <4>4. LastOf(found(i) \cup {pos}) = IF LastOf(found(i)) = {} THEN Means("base", pos) ELSE {}
        BY <4>2, <4>3, OneMoreName
      <4> QED
        BY <2>1, <3>2, <3>4, <3>5, <4>1, <4>4 DEF Toggled
    <3>6. CASE pos \notin Matching("base", i)
      <4>1. after(i) = found(i)
        BY <1>2, <3>3, <3>6
      <4> HIDE DEF found, after
      <4> QED
        BY <3>2, <3>4, <3>6, <4>1
    <3> QED
      BY <3>5, <3>6
  <2>3. \A i : {n \in Matching("base", i) : n < pos}' = after(i)
    BY <1>1, <1>3
  <2> HIDE DEF after
  <2> QED
    BY <1>1, <1>3, <1>4, <2>2, <2>3 DEF BasesByName
<1>5. CASE pass # 1
  <2>1. Kinds[pass] # "base"
    BY <1>2, <1>5, KindsFacts
  <2>2. \A i : RefersTo("base", i)' = RefersTo("base", i)
    BY <2>1, RefersAfter
  <2> QED
    BY <1>1, <1>2, <1>3, <1>5, <2>2 DEF BasesByName
<1> QED
  BY <1>4, <1>5

LEMMA StepNames ==
    ASSUME Typed, BasesByName, [Next]_vars
    PROVE  BasesByName'
<1>1. CASE Parse
  BY <1>1 DEF Parse, BasesByName
<1>2. CASE StartResolving
  <2>1. pass' = 1 /\ pos' = 1 /\ refers' = refers /\ DOMAIN refers = {} /\ records' = records
    BY <1>2 DEF StartResolving, Typed, ParsingFirst
  <2>2. \A i : RefersTo("base", i)' = {}
    BY <2>1 DEF RefersTo
  <2>3. ASSUME NEW i PROVE LastOf({n \in Matching("base", i) : n < pos})' = {}
    <3>1. {n \in Matching("base", i) : n < 1} = {}
      <4>1. \A n \in Matching("base", i) : n \in Nat /\ n >= 1
        BY MatchingFacts
      <4> QED
        BY <4>1
    <3>2. LastOf({}) = {}
      BY FS_EmptySet DEF LastOf
    <3>3. {n \in Matching("base", i) : n < pos}' = {}
      BY <2>1, <3>1, MatchingUnchanged
    <3> QED
      BY <2>1, <3>2, <3>3, MatchingUnchanged
  <2>4. \A i : RefersTo("base", i)' = LastOf({n \in Matching("base", i) : n < pos})'
    BY <2>2, <2>3
  <2> QED
    BY <2>1, <2>4 DEF BasesByName
<1>3. CASE EndPass
  <2>1. /\ Resolving /\ pos \notin DOMAIN List /\ pass' = pass + 1 /\ refers' = refers /\ records' = records
    BY <1>3 DEF EndPass
  <2>2. /\ pass \in 1..8 /\ DOMAIN List = 1..Len(List) /\ Len(List) \in Nat /\ pos \in 1..(Len(List) + 1)
    BY <2>1, PassFacts
  <2>3. /\ \A i : RefersTo("base", i)' = RefersTo("base", i)
        /\ \A i : Matching("base", i)' = Matching("base", i)
        /\ \A found : LastOf(found)' = LastOf(found)
    BY <2>1, MatchingUnchanged DEF RefersTo
  <2>4. ASSUME pass = 1, NEW i PROVE {n \in Matching("base", i) : n < pos} = Matching("base", i)
    <3>1. List = records["base"]
      BY <2>4, KindsFacts DEF List
    <3> QED
      BY <2>1, <2>2, <3>1, MatchingFacts
  <2>5. pass' > 1 /\ pass' # 1 /\ (pass = 1 \/ pass > 1)
    BY <2>1, <2>2
  <2> QED
    BY <2>3, <2>4, <2>5 DEF BasesByName
<1>4. CASE Loop \/ UNCHANGED vars
  <2>1. UNCHANGED <<records, pass, pos, refers>>
    BY <1>4 DEF Loop, vars
  <2>2. \A i : RefersTo("base", i)' = RefersTo("base", i)
    BY <2>1 DEF RefersTo
  <2> QED
    BY <2>1, <2>2, MatchingUnchanged DEF BasesByName
<1> QED
  BY <1>1, <1>2, <1>3, <1>4, ResolveNames DEF Next

\* Bases that cannot be followed to an end form a circle: an interface that is met twice is in it.
LEMMA CircleOfBases ==
    ASSUME Typed, Remembered, BasesByName, pass > 1, NEW b \in Interfaces, InCircle(b)
    PROVE  ~BasesAcyclic
<1> DEFINE C  == Cardinality(Interfaces)
           up == Up(b)
<1>1. /\ C \in Nat /\ up[0] = b /\ up[C] # NoName
      /\ \A n \in 0..C : up[n] \in Interfaces \cup {NoName}
      /\ \A n \in 1..C : up[n] = Base[up[n - 1]]
  BY UpFacts, NamesAssumption, FS_CardinalityType DEF InCircle
<1> HIDE DEF up
<1>2. Base[NoName] = NoName
  <2>1. Matching("base", NoName) = {}
    <3> SUFFICES ASSUME NEW n \in Records("base", NoName) PROVE FALSE
      BY DEF Matching
    <3>1. records["base"][n] \in Range(records["base"]) /\ records["base"][n].user = NoName /\ "base" \in Kind
      BY KindsFacts DEF Records, Range
    <3>2. PICK use \in used : use.kind = "base" /\ records["base"][n] \in Recorded(use)
      BY <3>1 DEF Remembered
    <3>3. use.user = NoName /\ use.kind = "base"
      BY <3>1, <3>2 DEF Recorded
    <3>4. Len(NoName) >= 2
      BY <3>2, <3>3, NamesAssumption DEF Remembered, GoodUse
    <3> QED
      BY <3>4 DEF NoName
  <2>2. LastOf({}) = {}
    BY FS_EmptySet DEF LastOf
  <2>3. RefersTo("base", NoName) = {}
    BY <2>1, <2>2 DEF BasesByName
  <2> QED
    BY <2>3 DEF Base
<1>3. ASSUME NEW i \in Interfaces, Base[i] # NoName PROVE Base[i] \in BaseByName(i)
  <2>1. RefersTo("base", i) = BaseByName(i)
    BY DEF BasesByName, LastOf, BaseByName, Means
  <2> QED
    BY <1>3, <2>1 DEF Base
<1>4. ASSUME NEW k \in 0..C PROVE up[k] \in Interfaces
  <2> SUFFICES ASSUME up[k] = NoName PROVE FALSE
    BY <1>1
  <2> DEFINE Later == {n \in k..C : up[n] # NoName}
  <2>1. Later \in SUBSET Nat /\ C \in Later
    BY <1>1
  <2>2. PICK m \in Later : \A n \in Later : m <= n
    <3> HIDE DEF Later
    <3> QED
      BY <2>1, LeastNumber
  <2>3. m - 1 \in k..C /\ m \in 1..C /\ m - 1 < m /\ up[m] # NoName
    BY <1>1, <2>2
  <2>4. up[m - 1] = NoName
    BY <2>2, <2>3
  <2> QED
    BY <1>1, <1>2, <2>3, <2>4
<1>5. PICK i, j \in 0..C : i < j /\ up[i] = up[j]
  <2> DEFINE f == [n \in 0..C |-> up[n]]
  <2>1. f \in [0..C -> Interfaces]
    BY <1>4
  <2>2. IsFiniteSet(0..C) /\ Cardinality(0..C) = C + 1 /\ C < C + 1
    <3> HIDE DEF C
    <3> QED
      BY <1>1, FS_Interval
  <2>3. \E x, y \in 0..C : x # y /\ f[x] = f[y]
    <3> HIDE DEF f
    <3> QED
      BY <2>1, <2>2, NamesAssumption, FS_PigeonHole DEF C
  <2>4. \A x, y \in 0..C : x # y => x < y \/ y < x
    BY <1>1
  <2> QED
    BY <2>3, <2>4
<1> DEFINE S == {up[n] : n \in i..j - 1}
<1>6. S \in SUBSET Interfaces /\ S # {}
  <2>1. i \in i..j - 1 /\ i..j - 1 \subseteq 0..C
    BY <1>1, <1>5
  <2> QED
    BY <1>4, <2>1
<1>7. ASSUME NEW n \in i..j - 1 PROVE BaseByName(up[n]) \cap S # {}
  <2>1. n \in 0..C /\ n + 1 \in 1..C /\ n + 1 \in 0..C /\ (n + 1) - 1 = n
    BY <1>1, <1>5
  <2>2. up[n + 1] \in Interfaces /\ up[n] \in Interfaces /\ up[n + 1] = Base[up[n]]
    BY <1>1, <1>4, <2>1
  <2>3. up[n + 1] # NoName
    <3>1. Len(up[n + 1]) >= 2
      BY <2>2, NamesAssumption
    <3> QED
      BY <3>1 DEF NoName
  <2>4. up[n + 1] \in BaseByName(up[n])
    BY <1>3, <2>2, <2>3
  <2>5. up[n + 1] \in S
    <3>1. CASE n = j - 1
      <4>1. up[n + 1] = up[i] /\ i \in i..j - 1
        BY <1>5, <3>1
      <4> QED
        BY <4>1
    <3>2. CASE n # j - 1
      <4>1. n + 1 \in i..j - 1
        BY <1>1, <1>5, <3>2
      <4> QED
        BY <4>1
    <3> QED
      BY <3>1, <3>2
  <2> QED
    BY <2>4, <2>5
<1> HIDE DEF S
<1>8. \A s \in S : BaseByName(s) \cap S # {}
  BY <1>7 DEF S
<1> QED
  BY <1>6, <1>8 DEF BasesAcyclic

LEMMA StepCircles ==
    ASSUME Typed, Remembered, BasesByName, CircleOnly, [Next]_vars
    PROVE  CircleOnly'
<1>1. CASE Parse \/ StartResolving
  <2>1. ~looping /\ looping' = looping
    BY <1>1 DEF Parse, StartResolving, CircleOnly
  <2> QED
    BY <2>1 DEF CircleOnly
<1>2. CASE Resolve \/ EndPass \/ UNCHANGED vars
  <2>1. looping' = looping /\ records' = records /\ (pass > 1 => pass' > 1)
    <3>1. pass \in 0..9
      BY KindsFacts DEF Typed, TypeOK
    <3>2. looping' = looping /\ records' = records /\ pass' \in {pass, pass + 1}
      BY <1>2 DEF Resolve, EndPass, vars
    <3> QED
      BY <3>1, <3>2
  <2> QED
    BY <2>1, MatchingUnchanged DEF CircleOnly
<1>3. CASE Loop
  <2> DEFINE kind == Kinds[pass]
             r    == List[pos]
  <2>1. Resolving /\ pos \in DOMAIN List /\ LoopsForever(kind, r) /\ records' = records /\ pass' = pass
    BY <1>3 DEF Loop
  <2>2. kind # "base" /\ r.belonged # NoName /\ InCircle(r.belonged)
    BY <2>1 DEF LoopsForever
  <2>3. pass > 1
    <3>1. pass \in 1..8
      BY <2>1, PassFacts
    <3> QED
      BY <2>2, <3>1, KindsFacts
  <2>4. r.belonged \in Interfaces
    <3>1. kind \in Kind /\ r \in Range(records[kind])
      BY <2>1, PassFacts DEF List, Range
    <3>2. PICK use \in used : r \in Recorded(use)
      BY <3>1 DEF Remembered
    <3>3. r.belonged = Belonged(use)
      BY <3>2 DEF Recorded
    <3> QED
      BY <2>2, <3>3 DEF Belonged
  <2> HIDE DEF r, kind
  <2>5. ~BasesAcyclic
    BY <2>2, <2>3, <2>4, CircleOfBases
  <2> QED
    BY <2>1, <2>3, <2>5, MatchingUnchanged DEF CircleOnly
<1> QED
  BY <1>1, <1>2, <1>3 DEF Next

\* The other half of ResolutionTerminates: getBaseInterfaces always returns if the names that the
\* interfaces give for their bases form no circle, whatever else the files say.
THEOREM ResolvingReturns == Spec => [](BasesAcyclic => ~looping)
<1>1. Init => BasesByName /\ CircleOnly
  BY DEF Init, BasesByName, CircleOnly
<1>2. CircleOnly => (BasesAcyclic => ~looping)
  BY DEF CircleOnly
<1> QED
  BY InitTyped, InitRemembered, StepTyped, StepRemembered, StepNames, StepCircles, <1>1, <1>2, PTL DEF Spec

\* Every step of parsing and resolving lowers the number of passes left or, within a pass, of the
\* names left, but for one: the step into getBaseInterfaces' endless loop, which is only taken if
\* the bases form a circle.  So files without such a circle are resolved in finitely many steps.
THEOREM ResolvingDescends ==
    Spec => []Bounded /\ [][Descends \/ (looping' /\ ~BasesAcyclic')]_vars
<1>1. Init => BasesByName /\ CircleOnly
  BY DEF Init, BasesByName, CircleOnly
<1>2. Typed /\ CircleOnly' /\ [Next]_vars => [Descends \/ (looping' /\ ~BasesAcyclic')]_vars
  BY StepDescends DEF CircleOnly
<1> QED
  BY InitTyped, InitRemembered, StepTyped, StepRemembered, StepNames, StepCircles, TypedBounded,
     <1>1, <1>2, PTL DEF Spec
=============================================================================
