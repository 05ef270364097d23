--------------------------- MODULE DeploymentProofs ---------------------------
(* Proofs about Deployment that hold for all .fidl models and for deployment   *)
(* files with any statements that the grammar allows.                          *)
EXTENDS Deployment, QueueLemmas, FiniteSetTheorems

-----------------------------------------------------------------------------
(* The statements of the files, in their order.                            *)

LEMMA StatementsFinite == IsFiniteSet(Statement)
<1>1. Text \in Seq(Statement) /\ Len(Text) \in Nat /\ DOMAIN Text = 1..Len(Text)
  BY DeploymentAssumption
<1>2. IsFiniteSet(1..Len(Text))
  BY <1>1, FS_Interval
<1>3. Text \in Surjection(1..Len(Text), Statement)
  BY <1>1 DEF Surjection, Statement, Range
<1> QED
  BY <1>2, <1>3, FS_Surjection

LEMMA PositionFacts ==
    /\ \A s \in Statement : Position[s] \in 1..Len(Text) /\ Text[Position[s]] = s
    /\ \A s, t \in Statement : Position[s] = Position[t] => s = t
    /\ Len(Text) \in Nat
<1>1. Text \in Seq(Statement) /\ Len(Text) \in Nat /\ DOMAIN Text = 1..Len(Text)
  BY DeploymentAssumption
<1>2. ASSUME NEW s \in Statement PROVE Position[s] \in 1..Len(Text) /\ Text[Position[s]] = s
  <2>1. \E i \in DOMAIN Text : Text[i] = s
    BY DEF Statement, Range
  <2>2. Position[s] = CHOOSE i \in DOMAIN Text : Text[i] = s
    BY DEF Position
  <2> QED
    BY <1>1, <2>1, <2>2
<1> QED
  BY <1>1, <1>2

LEMMA EarliestIsOne ==
    ASSUME NEW S \in SUBSET Statement, S # {}
    PROVE  Earliest(S) \in S /\ \A t \in S : Position[Earliest(S)] <= Position[t]
<1> DEFINE P == {Position[s] : s \in S}
<1>1. P \in SUBSET Nat /\ P # {}
  BY PositionFacts
<1>2. PICK m \in P : \A n \in P : m <= n
  <2> HIDE DEF P
  <2> QED
    BY <1>1, LeastNumber
<1>3. \E s \in S : \A t \in S : Position[s] <= Position[t]
  BY <1>2
<1> QED
  BY <1>3 DEF Earliest

LEMMA LatestIsOne ==
    ASSUME NEW S \in SUBSET Statement, S # {}
    PROVE  Latest(S) \in S /\ \A t \in S : Position[Latest(S)] >= Position[t]
<1> DEFINE P == {Len(Text) - Position[s] : s \in S}
<1>1. P \in SUBSET Nat /\ P # {}
  BY PositionFacts
<1>2. PICK m \in P : \A n \in P : m <= n
  <2> HIDE DEF P
  <2> QED
    BY <1>1, LeastNumber
<1>3. PICK s \in S : m = Len(Text) - Position[s]
  BY <1>2
<1>4. ASSUME NEW t \in S PROVE Position[s] >= Position[t]
  <2>1. Len(Text) - Position[s] <= Len(Text) - Position[t]
    BY <1>2, <1>3
  <2>2. Position[s] \in Nat /\ Position[t] \in Nat /\ Len(Text) \in Nat
    BY PositionFacts
  <2> QED
    BY <2>1, <2>2
<1>5. \E x \in S : \A t \in S : Position[x] >= Position[t]
  BY <1>4
<1> QED
  BY <1>5 DEF Latest

\* Ordered lists the statements of a set, each of them.
LEMMA OrderedIsAll ==
    ASSUME NEW Z \in SUBSET Statement
    PROVE  Ordered(Z) \in Seq(Z) /\ Range(Ordered(Z)) = Z
<1> DEFINE N       == Cardinality(Z)
           T       == Z \cup {Earliest({})}
           X       == Seq(T)
           next(l) == Append(l, Earliest(Z \ Range(l)))
           step    == [n \in 1..N |-> [l \in X |-> next(l)]]
           Body(f) == [n \in 0..N |-> IF n = 0 THEN <<>> ELSE next(f[n - 1])]
           first   == CHOOSE f : f = Body(f)
<1>1. IsFiniteSet(Z) /\ N \in Nat
  BY StatementsFinite, FS_Subset, FS_CardinalityType
<1>2. ASSUME NEW l \in X PROVE next(l) \in X
  <2>1. Earliest(Z \ Range(l)) \in T
    <3>1. CASE Z \ Range(l) = {}
      BY <3>1
    <3>2. CASE Z \ Range(l) # {}
      BY <3>2, EarliestIsOne
    <3> QED
      BY <3>1, <3>2
  <2> HIDE DEF T
  <2> QED
    BY <2>1
<1>3. step \in [1..N -> [X -> X]]
  BY <1>2
<1>4. \E f : f = Body(f)
  <2> DEFINE start == <<>>
  <2>1. start \in X
    OBVIOUS
  <2>2. PICK g \in [0..N -> X] : g[0] = start /\ \A n \in 1..N : g[n] = step[n][g[n - 1]]
    <3>1. N \in Nat
      BY <1>1
    <3> HIDE DEF N, T, X, next, Body, first, step, start
    <3>2. \A a \in X : \A k \in Nat : \A st \in [1..k -> [X -> X]] :
              \E g \in [0..k -> X] : g[0] = a /\ \A n \in 1..k : g[n] = st[n][g[n - 1]]
      BY FiniteRecursion
    <3>3. step \in [1..N -> [X -> X]] /\ start \in X
      BY <1>3, <2>1
    <3> QED
      BY <3>1, <3>2, <3>3
  <2>3. ASSUME NEW n \in 0..N, n # 0 PROVE g[n] = next(g[n - 1])
    <3>1. n \in 1..N /\ n - 1 \in 0..N
      BY <1>1, <2>3
    <3>2. g[n - 1] \in X /\ g[n] = step[n][g[n - 1]]
      BY <2>2, <3>1
    <3> HIDE DEF X, next
    <3> QED
      BY <3>1, <3>2
  <2>4. g = Body(g)
    <3> HIDE DEF X, next
    <3> QED
      BY <2>2, <2>3
  <2> QED
    BY <2>4
<1>5. first = Body(first)
  <2> HIDE DEF Body
  <2> QED
    BY <1>4
<1>6. Ordered(Z) = first[N]
  BY DEF Ordered
<1> HIDE DEF first
<1> DEFINE Good(n) == /\ first[n] \in Seq(Z) /\ IsFiniteSet(Range(first[n]))
                      /\ Cardinality(Range(first[n])) = n
           Bad     == {n \in 0..N : ~Good(n)}
<1>7. \A n \in 0..N : Good(n)
  <2> SUFFICES ASSUME Bad # {} PROVE FALSE
    OBVIOUS
  <2>1. PICK m \in Bad : \A n \in Bad : m <= n
    <3>1. Bad \in SUBSET Nat
      BY <1>1
    <3> HIDE DEF Bad
    <3> QED
      BY <3>1, LeastNumber
  <2>2. first[m] = IF m = 0 THEN <<>> ELSE next(first[m - 1])
    BY <1>5, <2>1
  <2>3. m # 0
    <3> SUFFICES ASSUME m = 0 PROVE FALSE
      OBVIOUS
    <3>1. first[0] = <<>> /\ Range(first[0]) = {}
      BY <2>2 DEF Range
    <3>2. first[0] \in Seq(Z)
      BY <3>1
    <3>3. IsFiniteSet(Range(first[0])) /\ Cardinality(Range(first[0])) = 0
      BY <3>1, FS_EmptySet
    <3>4. Good(0)
      BY <3>2, <3>3
    <3> QED
      BY <2>1, <3>4
  <2>4. m \in 1..N /\ m - 1 \in 0..N /\ m - 1 \notin Bad
    <3>1. m \in 0..N /\ \A n \in Bad : m <= n
      BY <2>1
    <3> HIDE DEF Bad
    <3> QED
      BY <1>1, <2>3, <3>1
  <2> DEFINE l == first[m - 1]
             e == Earliest(Z \ Range(l))
  <2>5. l \in Seq(Z) /\ IsFiniteSet(Range(l)) /\ Cardinality(Range(l)) = m - 1
    BY <2>4
  <2>6. first[m] = Append(l, e)
    BY <2>2, <2>3
  <2> HIDE DEF l
  <2>7. Z \ Range(l) # {}
    <3> SUFFICES ASSUME Z \subseteq Range(l) PROVE FALSE
      OBVIOUS
    <3>1. N <= m - 1
      BY <2>5, FS_Subset
    <3> QED
      BY <1>1, <2>4, <3>1
  <2>8. e \in Z /\ e \notin Range(l)
    BY <2>7, EarliestIsOne
  <2> HIDE DEF e
  <2>9. first[m] \in Seq(Z) /\ Range(first[m]) = Range(l) \cup {e}
    BY <2>5, <2>6, <2>8, AppendContents DEF Range
  <2>10. Cardinality(Range(l) \cup {e}) = m /\ IsFiniteSet(Range(l) \cup {e})
    <3>1. m - 1 + 1 = m
      BY <2>4
    <3> QED
      BY <2>5, <2>8, <3>1, FS_AddElement
  <2>11. Good(m)
    BY <2>9, <2>10
  <2> QED
    BY <2>1, <2>11
<1>8. Good(N)
  BY <1>1, <1>7
<1>9. Range(first[N]) \in SUBSET Z
  BY <1>8 DEF Range
<1> QED
  BY <1>1, <1>6, <1>8, <1>9, FS_Subset

-----------------------------------------------------------------------------
(* What is looked up.                                                      *)

TargetClasses == RootClasses \cup {"instance", "interfaceValue", "attribute"} \cup OperationClasses
                 \cup TypeClasses \cup Parts

LEMMA PassesFacts ==
    /\ Len(Passes) = 25 /\ DOMAIN Passes = 1..25
    /\ \A i \in 1..25 : /\ Passes[i] = <<Passes[i][1], Passes[i][2]>>
                        /\ Passes[i][2] \in {"base", "spec", "use", "decl", "target"}
                        /\ Passes[i][2] = "target" => Passes[i][1] \in TargetClasses
                        /\ Passes[i][2] = "spec" => Passes[i][1] \in RootClasses
                        /\ Passes[i][2] = "decl" => i = 25
    /\ Passes[1] = <<"spec", "base">> /\ \A i \in 2..25 : Passes[i] # <<"spec", "base">>
    /\ Passes[25] = <<"property", "decl">>
<1>1. Len(Passes) = 25 /\ DOMAIN Passes = 1..25
  BY DEF Passes
<1>2. ASSUME NEW i \in 1..25
      PROVE  /\ Passes[i] = <<Passes[i][1], Passes[i][2]>>
             /\ Passes[i][2] \in {"base", "spec", "use", "decl", "target"}
             /\ Passes[i][2] = "target" => Passes[i][1] \in TargetClasses
             /\ Passes[i][2] = "spec" => Passes[i][1] \in RootClasses
             /\ Passes[i][2] = "decl" => i = 25
             /\ i # 1 => Passes[i] # <<"spec", "base">>
  BY DEF Passes, TargetClasses, RootClasses, OperationClasses, TypeClasses, Parts
<1>3. Passes[1] = <<"spec", "base">> /\ Passes[25] = <<"property", "decl">>
  BY DEF Passes
<1>4. 2..25 \subseteq 1..25 /\ 1 \notin 2..25
  OBVIOUS
<1> QED
  BY <1>1, <1>2, <1>3, <1>4

LEMMA PassesHave ==
    /\ \A class \in TypeClasses \cup Parts \cup OperationClasses
                    \cup {"attribute", "interface", "types"} : <<class, "target">> \in Range(Passes)
    /\ \A class \in RootClasses : <<class, "spec">> \in Range(Passes)
    /\ <<"spec", "base">> \in Range(Passes) /\ <<"property", "decl">> \in Range(Passes)
    /\ \A class \in UseClasses : <<class, "use">> \in Range(Passes)
<1>1. \A i \in 1..25 : Passes[i] \in Range(Passes)
  BY PassesFacts DEF Range
<1> QED
  BY <1>1 DEF Passes, TypeClasses, Parts, OperationClasses, UseClasses, RootClasses

\* What a reference may refer to: something of its own class.
TargetKinds(class) ==
    CASE class = "types" -> {"typeCollection"}
      [] class \in {"interface", "interfaceValue"} -> {"interface"}
      [] class \in {"extension", "instance"} -> {"typeCollection", "interface"} \cup TypeClasses
      [] OTHER -> {class}

Fits(class, what) ==
    CASE what \in {"base", "spec"} -> Of({"spec"})
      [] what = "use" -> Of(RootClasses)
      [] what = "decl" -> Of({"decl"})
      [] OTHER -> {o \in Object : Class[o] \in TargetKinds(class)}

FilesFit == files \subseteq Statement
RefsFit == /\ DOMAIN ref = References
           /\ \A r \in References : ref[r] \in Fits(Said[r[1]].class, r[2]) \cup {None}

LEMMA NoneIsNothing == None \notin Statement /\ None \notin Object
BY ModelAssumption, DeploymentAssumption

LEMMA OfFacts ==
    ASSUME FilesFit, NEW classes
    PROVE  Of(classes) \subseteq files /\ Of(classes) \subseteq Statement /\ IsFiniteSet(Of(classes))
           /\ Cardinality(Of(classes)) \in Nat
<1>1. Of(classes) \subseteq files /\ Of(classes) \subseteq Statement
  BY DEF Of, FilesFit
<1> QED
  BY <1>1, StatementsFinite, FS_Subset, FS_CardinalityType

LEMMA IsReference ==
    ASSUME NEW s \in files, NEW what, <<Said[s].class, what>> \in Range(Passes)
    PROVE  <<s, what>> \in References
BY DEF References, Of

LEMMA ReferenceIs ==
    ASSUME NEW r \in References
    PROVE  /\ r = <<r[1], r[2]>> /\ r[1] \in files
           /\ \E i \in 1..25 : Passes[i] = <<Said[r[1]].class, r[2]>>
<1>1. PICK p \in Range(Passes) : r \in Of({p[1]}) \X {p[2]}
  BY DEF References
<1>2. PICK i \in 1..25 : p = Passes[i]
  BY PassesFacts DEF Range
<1> QED
  BY <1>1, <1>2, PassesFacts DEF Of

LEMMA FirstNamedIs ==
    ASSUME FilesFit, NEW n, NEW classes
    PROVE  LET named == {s \in Of(classes) : Said[s].name = n}
           IN  /\ FirstNamed(n, classes) \in Of(classes) \cup {None}
               /\ named # {} => FirstNamed(n, classes) \in named
               /\ named = {} <=> FirstNamed(n, classes) = None
<1> DEFINE named == {s \in Of(classes) : Said[s].name = n}
<1>1. named \in SUBSET Statement /\ named \subseteq Of(classes)
  BY OfFacts
<1>2. named # {} => Earliest(named) \in named
  BY <1>1, EarliestIsOne
<1>3. FirstNamed(n, classes) = IF named = {} THEN None ELSE Earliest(named)
  BY DEF FirstNamed
<1>4. /\ FirstNamed(n, classes) \in Of(classes) \cup {None}
      /\ named # {} => FirstNamed(n, classes) \in named
      /\ named = {} <=> FirstNamed(n, classes) = None
  <2> HIDE DEF named
  <2> QED
    BY <1>1, <1>2, <1>3, NoneIsNothing
<1> QED
  BY <1>4

\* The chain of the specifications that are extended.
LEMMA BasesAre ==
    ASSUME FilesFit, RefsFit, NEW spec \in Of({"spec"}) \cup {None}
    PROVE  LET N     == Cardinality(Of({"spec"}))
               chain == Bases(spec)
           IN  /\ N \in Nat /\ chain \in [0..N -> Of({"spec"}) \cup {None}]
               /\ chain[0] = spec
               /\ \A n \in 1..N : chain[n] = IF chain[n - 1] = None THEN None
                                                                    ELSE ref[<<chain[n - 1], "base">>]
<1> DEFINE N       == Cardinality(Of({"spec"}))
           Z       == Of({"spec"}) \cup {None}
           next(s) == IF s = None THEN None ELSE ref[<<s, "base">>]
           step    == [n \in 1..N |-> [s \in Z |-> next(s)]]
           Body(f) == [k \in 0..N |-> IF k = 0 THEN spec ELSE next(f[k - 1])]
           chain   == CHOOSE f : f = Body(f)
<1>1. N \in Nat
  BY OfFacts
<1>2. ASSUME NEW s \in Z PROVE next(s) \in Z
  <2>1. CASE s = None
    BY <2>1
  <2>2. CASE s # None
    <3>1. s \in files /\ Said[s].class = "spec"
      BY <2>2 DEF Of
    <3>2. <<s, "base">> \in References
      BY <3>1, IsReference, PassesHave
    <3>3. ref[<<s, "base">>] \in Fits("spec", "base") \cup {None}
      BY <3>1, <3>2 DEF RefsFit
    <3> QED
      BY <2>2, <3>3 DEF Fits
  <2> QED
    BY <2>1, <2>2
<1>3. step \in [1..N -> [Z -> Z]]
  BY <1>2
<1>4. PICK g \in [0..N -> Z] : g[0] = spec /\ \A n \in 1..N : g[n] = step[n][g[n - 1]]
  <2> HIDE DEF N, Z, step
  <2>1. \A a \in Z : \A k \in Nat : \A st \in [1..k -> [Z -> Z]] :
            \E f \in [0..k -> Z] : f[0] = a /\ \A n \in 1..k : f[n] = st[n][f[n - 1]]
    BY FiniteRecursion
  <2>2. spec \in Z
    BY DEF Z
  <2> QED
    BY <1>1, <1>3, <2>1, <2>2
<1>5. ASSUME NEW n \in 1..N PROVE g[n] = next(g[n - 1])
  <2>1. n - 1 \in 0..N
    BY <1>1
  <2>2. g[n - 1] \in Z /\ g[n] = step[n][g[n - 1]]
    BY <1>4, <2>1
  <2> HIDE DEF Z, next
  <2> QED
    BY <2>2
<1>6. g = Body(g)
  <2> HIDE DEF Z, next
  <2>1. \A k \in 0..N : k # 0 => k \in 1..N
    BY <1>1
  <2> QED
    BY <1>4, <1>5, <2>1
<1>7. chain = Body(chain)
  <2> HIDE DEF Body
  <2> QED
    BY <1>6
<1>8. Bases(spec) = chain
  BY DEF Bases
<1> HIDE DEF chain, next
<1>9. \A n \in 1..N : n \in 0..N /\ n # 0 /\ n - 1 \in 0..N
  BY <1>1
<1>10. chain[0] = spec /\ \A n \in 1..N : chain[n] = next(chain[n - 1])
  BY <1>1, <1>7, <1>9
<1> DEFINE Good(n) == chain[n] \in Z
           Bad     == {n \in 0..N : ~Good(n)}
<1>11. \A n \in 0..N : Good(n)
  <2> SUFFICES ASSUME Bad # {} PROVE FALSE
    OBVIOUS
  <2>1. PICK m \in Bad : \A n \in Bad : m <= n
    <3>1. Bad \in SUBSET Nat
      BY <1>1
    <3> HIDE DEF Bad
    <3> QED
      BY <3>1, LeastNumber
  <2>2. m \in 0..N /\ ~Good(m)
    OBVIOUS
  <2>3. m # 0
    <3>1. Good(0)
      BY <1>10
    <3> HIDE DEF Good
    <3> QED
      BY <2>2, <3>1
  <2>4. m \in 1..N /\ m - 1 \in 0..N /\ m - 1 \notin Bad
    <3>1. m \in 0..N /\ \A n \in Bad : m <= n
      BY <2>1
    <3> HIDE DEF Bad
    <3> QED
      BY <1>1, <2>3, <3>1
  <2>5. chain[m - 1] \in Z
    BY <2>4
  <2> HIDE DEF Z, Bad
  <2>6. chain[m] \in Z
    BY <1>2, <1>10, <2>4, <2>5
  <2> QED
    BY <2>2, <2>6
<1>12. DOMAIN chain = 0..N
  BY <1>7
<1>13. chain \in [0..N -> Z]
  <2> HIDE DEF Z, Body
  <2>1. chain = [k \in 0..N |-> chain[k]]
    BY <1>7, <1>12 DEF Body
  <2> QED
    BY <1>11, <2>1
<1> QED
  BY <1>1, <1>8, <1>10, <1>13 DEF next

LEMMA MaxIsOne ==
    ASSUME NEW N \in Nat, NEW Z \in SUBSET (0..N), Z # {}
    PROVE  Max(Z) \in Z /\ \A n \in Z : n <= Max(Z)
<1>1. \E a \in Z : \A b \in Z : a >= b
  BY LargestNumber
<1>2. Max(Z) \in Z /\ \A n \in Z : Max(Z) >= n
  BY <1>1 DEF Max
<1> QED
  BY <1>2

LEMMA FindPropertyDeclIs ==
    ASSUME FilesFit, RefsFit, NEW n
    PROVE  LET chain == Bases(FindSpecification(Front(n)))
               Decls(s) == {d \in Of({"decl"}) : Front(d) = s /\ Said[d].name = <<Last(n)>>}
               declaring == {k \in DOMAIN chain : chain[k] # None /\ Decls(chain[k]) # {}}
           IN  /\ declaring = {} => FindPropertyDecl(n) = None
               /\ declaring # {} => \E k \in declaring : FindPropertyDecl(n) \in Decls(chain[k])
<1> DEFINE chain == Bases(FindSpecification(Front(n)))
           Decls(s) == {d \in Of({"decl"}) : Front(d) = s /\ Said[d].name = <<Last(n)>>}
           declaring == {k \in DOMAIN chain : chain[k] # None /\ Decls(chain[k]) # {}}
           N == Cardinality(Of({"spec"}))
<1>1. FindSpecification(Front(n)) \in Of({"spec"}) \cup {None}
  BY FirstNamedIs DEF FindSpecification
<1>2. N \in Nat /\ DOMAIN chain = 0..N
  BY <1>1, BasesAre
<1>3. FindPropertyDecl(n) = IF declaring = {} THEN None ELSE Earliest(Decls(chain[Max(declaring)]))
  BY DEF FindPropertyDecl
<1>4. \A s : Decls(s) \in SUBSET Statement
  BY OfFacts
<1>5. declaring \in SUBSET (0..N)
  BY <1>2
<1>6. ASSUME declaring # {} PROVE \E k \in declaring : FindPropertyDecl(n) \in Decls(chain[k])
  <2>1. Max(declaring) \in declaring
    <3> HIDE DEF declaring, N
    <3> QED
      BY <1>2, <1>5, <1>6, MaxIsOne
  <2>2. Decls(chain[Max(declaring)]) # {}
    BY <2>1
  <2>3. Earliest(Decls(chain[Max(declaring)])) \in Decls(chain[Max(declaring)])
    <3> HIDE DEF Decls, declaring, chain
    <3> QED
      BY <1>4, <2>2, EarliestIsOne
  <2> HIDE DEF Decls, declaring, chain
  <2> QED
    BY <1>3, <1>6, <2>1, <2>3
<1>7. declaring = {} => FindPropertyDecl(n) = None
  BY <1>3
<1> QED
  BY <1>6, <1>7

\* What is found has the class that was looked for.
LEMMA FindFits ==
    ASSUME FilesFit, RefsFit, NEW i \in 1..25, NEW n
    PROVE  Cast(Passes[i][1], Find(Passes[i][1], Passes[i][2], n))
               \in Fits(Passes[i][1], Passes[i][2]) \cup {None}
<1> DEFINE class == Passes[i][1]
           what  == Passes[i][2]
<1>1. what \in {"base", "spec", "use", "decl", "target"} /\ (what = "target" => class \in TargetClasses)
      /\ (what \in {"base", "spec", "use", "decl"} => class \notin OperationClasses)
  BY PassesFacts DEF Passes, OperationClasses
<1> SUFFICES Cast(class, Find(class, what, n)) \in Fits(class, what) \cup {None}
  OBVIOUS
<1> HIDE DEF class, what
<1>2. CASE what \in {"base", "spec"}
  BY <1>1, <1>2, FirstNamedIs DEF Find, FindSpecification, Fits, Cast
<1>3. CASE what = "use"
  BY <1>1, <1>3, FirstNamedIs DEF Find, Fits, Cast
<1>4. CASE what = "decl"
  <2>1. FindPropertyDecl(n) \in Of({"decl"}) \cup {None}
    BY FindPropertyDeclIs
  <2> QED
    BY <1>1, <1>4, <2>1 DEF Find, Fits, Cast
<1>5. CASE what = "target"
  <2> DEFINE kinds == {o \in Object : Class[o] \in TargetKinds(class)}
  <2>1. Fits(class, what) = kinds
    BY <1>5 DEF Fits
  <2>2. CASE class \in {"types", "interface", "interfaceValue"}
    <3>1. Find(class, what, n) = IF class = "types" THEN FindTypeCollection(n) ELSE FindInterface(n)
      BY <1>5, <2>2 DEF Find, OperationClasses, TypeClasses, Parts
    <3> QED
      BY <2>1, <2>2, <3>1 DEF Cast, TargetKinds, OperationClasses, FindTypeCollection, FindInterface, Only
  <2>3. CASE class \in {"extension", "instance"}
    <3>1. FindObject(n) \in kinds \cup {None}
      BY <2>3, NoneIsNothing DEF FindObject, FindPublicType, Only, TargetKinds
    <3> QED
      BY <1>5, <2>1, <2>3, <3>1 DEF Find, Cast, OperationClasses, TypeClasses, Parts
  <2>4. CASE class = "attribute"
    <3>1. FindAttribute(n) \in kinds \cup {None}
      BY <2>4 DEF FindAttribute, FindInterfaceElement, Only, TargetKinds
    <3> QED
      BY <1>5, <2>1, <2>4, <3>1 DEF Find, Cast, OperationClasses, TypeClasses, Parts
  <2>5. CASE class \in OperationClasses
    <3>1. \A o : Only(o, {class}) \in kinds \cup {None}
      BY <2>5 DEF Only, TargetKinds, OperationClasses
    <3> QED
      BY <2>1, <2>5, <3>1 DEF Cast
  <2>6. CASE class \in TypeClasses \cup Parts
    <3>1. \A o : Only(o, {class}) \in kinds \cup {None}
      BY <2>6 DEF Only, TargetKinds, TypeClasses, Parts
    <3>2. class \notin OperationClasses \cup {"types", "interface", "interfaceValue", "extension",
                                             "instance", "attribute"}
      BY <2>6 DEF TypeClasses, Parts, OperationClasses
    <3>3. Cast(class, Find(class, what, n)) = Find(class, what, n)
      BY <3>2 DEF Cast
    <3>4. Find(class, what, n) \in {Only(FindType(n), {class}), Only(FindElement(n), {class})}
      BY <1>5, <2>6, <3>2 DEF Find
    <3> QED
      BY <2>1, <3>1, <3>3, <3>4
  <2> QED
    BY <1>1, <1>5, <2>2, <2>3, <2>4, <2>5, <2>6 DEF TargetClasses, RootClasses
<1> QED
  BY <1>1, <1>2, <1>3, <1>4, <1>5

-----------------------------------------------------------------------------
(* What mappers make.                                                      *)

\* The labels of elements.  (No prover knows that "+" is a string.)
Label == STRING \cup {"+"}

LEMMA LabelSequences == Object \subseteq Seq(Label) /\ Statement \subseteq Seq(Label)
<1>1. STRING \subseteq Label
  BY DEF Label
<1>2. ASSUME NEW s \in Seq(STRING) PROVE s \in Seq(Label)
  <2>1. Len(s) \in Nat /\ s \in [1..Len(s) -> STRING]
    OBVIOUS
  <2>2. s \in [1..Len(s) -> Label]
    BY <1>1, <2>1
  <2> QED
    BY <2>1, <2>2, SeqDef
<1> QED
  BY <1>2, ModelAssumption, DeploymentAssumption

\* What has been made tells what it is in and what it deploys.
LEMMA MadeFacts ==
    ASSUME NEW x \in Seq(Label), NEW r \in Statement, NEW o \in Object
    PROVE  LET e == Made(x, r, o)
           IN  /\ e \in Seq(Label) \ {None} /\ e \notin Statement
               /\ SubSeq(e, 1, Plus(e) - 1) = x /\ SubSeq(e, Plus(e) + 2, Len(e)) = o
<1> DEFINE e == Made(x, r, o)
           m == Len(x)
           n == Len(o)
           plus == {i \in DOMAIN e : e[i] = "+"}
<1>1. m \in Nat /\ DOMAIN x = 1..m /\ \A i \in 1..m : x[i] \in Label
  OBVIOUS
<1>2. o \in Seq(Label) /\ n \in Nat /\ DOMAIN o = 1..n /\ \A i \in 1..n : o[i] \in Label /\ o[i] # "+"
  <2>1. o \in Seq(Label) /\ \A i \in DOMAIN o : o[i] # "+"
    BY LabelSequences, DeploymentAssumption
  <2> QED
    BY <2>1
<1>3. r[1] \in Label /\ r[1] # "+"
  <2>1. r \in Seq(Label) /\ r # <<>> /\ \A i \in DOMAIN r : r[i] # "+"
    BY LabelSequences, DeploymentAssumption DEF None
  <2> QED
    BY <2>1
<1> DEFINE mid == <<"+", r[1]>>
<1>4. mid \in Seq(Label) /\ Len(mid) = 2 /\ mid[1] = "+" /\ mid[2] = r[1]
  <2>1. Len(mid) = 2 /\ mid[1] = "+" /\ mid[2] = r[1]
    OBVIOUS
  <2> DEFINE label == r[1]
  <2>2. label \in Label /\ "+" \in Label
    <3>1. "+" \in Label
      BY DEF Label
    <3>2. label \in Label
      BY <1>3
    <3> QED
      BY <3>1, <3>2
  <2> HIDE DEF label
  <2>3. <<"+", label>> \in Seq(Label)
    BY <2>2
  <2> QED
    BY <2>1, <2>3 DEF label
<1>5. e = x \o mid \o o
  BY DEF Made
<1> DEFINE front == x \o mid
<1> HIDE DEF mid, m, n
<1>6. /\ front \in Seq(Label) /\ Len(front) = m + 2
      /\ \A i \in 1..m : front[i] = x[i]
      /\ front[m + 1] = "+" /\ front[m + 2] = r[1]
  <2>1. Len(x) = m
    BY DEF m
  <2>2. front \in Seq(Label) /\ Len(front) = m + 2
    <3>1. x \in Seq(Label) /\ mid \in Seq(Label)
      BY <1>4
    <3>2. x \o mid \in Seq(Label) /\ Len(x \o mid) = Len(x) + Len(mid)
      BY <3>1, ConcatProperties
    <3> QED
      BY <1>4, <2>1, <3>2
  <2>3. \A i \in 1..(m + 2) : front[i] = IF i <= m THEN x[i] ELSE mid[i - m]
    BY <1>1, <1>4, <2>1, <2>2
  <2> HIDE DEF front
  <2>4. 1..m \subseteq 1..(m + 2) /\ (m + 1) - m = 1 /\ (m + 2) - m = 2 /\ m + 1 \in 1..(m + 2)
        /\ m + 2 \in 1..(m + 2) /\ ~(m + 1 <= m) /\ ~(m + 2 <= m) /\ \A i \in 1..m : i <= m
    BY <1>1
  <2> QED
    BY <1>4, <2>2, <2>3, <2>4
<1> HIDE DEF front
<1>7. /\ e \in Seq(Label) /\ Len(e) = m + 2 + n
      /\ \A i \in 1..m : e[i] = x[i]
      /\ e[m + 1] = "+" /\ e[m + 2] = r[1]
      /\ \A i \in 1..n : e[m + 2 + i] = o[i]
  <2>1. Len(o) = n /\ e = front \o o
    BY <1>5 DEF n, front
  <2> HIDE DEF e
  <2>2. e \in Seq(Label) /\ Len(e) = m + 2 + n
    <3>1. front \in Seq(Label) /\ o \in Seq(Label)
      BY <1>2, <1>6
    <3>2. front \o o \in Seq(Label) /\ Len(front \o o) = Len(front) + Len(o)
      BY <3>1, ConcatProperties
    <3> QED
      BY <1>6, <2>1, <3>2
  <2>3. \A i \in 1..(m + 2 + n) : e[i] = IF i <= m + 2 THEN front[i] ELSE o[i - (m + 2)]
    BY <1>1, <1>2, <1>6, <2>1, <2>2
  <2>4. \A i \in 1..(m + 2) : i \in 1..(m + 2 + n) /\ i <= m + 2
    BY <1>1, <1>2
  <2>5. \A i \in 1..n : m + 2 + i \in 1..(m + 2 + n) /\ ~(m + 2 + i <= m + 2) /\ (m + 2 + i) - (m + 2) = i
    BY <1>1, <1>2
  <2>6. 1..m \subseteq 1..(m + 2) /\ m + 1 \in 1..(m + 2) /\ m + 2 \in 1..(m + 2)
    BY <1>1
  <2> QED
    BY <1>6, <2>2, <2>3, <2>4, <2>5, <2>6
<1> HIDE DEF e
<1>8. DOMAIN e = 1..(m + 2 + n)
  BY <1>1, <1>2, <1>7
<1>9. m + 1 \in plus /\ \A i \in plus : i <= m + 1
  <2>1. m + 1 \in 1..(m + 2 + n)
    BY <1>1, <1>2
  <2>2. ASSUME NEW i \in plus, ~(i <= m + 1) PROVE FALSE
    <3>1. i \in 1..(m + 2 + n) /\ e[i] = "+"
      BY <1>8
    <3>2. i = m + 2 \/ \E j \in 1..n : i = m + 2 + j
      <4>1. i = m + 2 \/ (i - (m + 2) \in 1..n /\ i = m + 2 + (i - (m + 2)))
        BY <1>1, <1>2, <2>2, <3>1
      <4> QED
        BY <4>1
    <3> QED
      BY <1>2, <1>3, <1>7, <3>1, <3>2
  <2> QED
    BY <1>7, <1>8, <2>1, <2>2
<1>10. Plus(e) = m + 1
  <2>1. plus \in SUBSET (0..(m + 2 + n)) /\ plus # {} /\ m + 2 + n \in Nat
    BY <1>1, <1>2, <1>8, <1>9
  <2>2. Plus(e) = Max(plus)
    BY DEF Plus
  <2> HIDE DEF plus
  <2>3. Max(plus) \in plus /\ \A i \in plus : i <= Max(plus)
    BY <2>1, MaxIsOne
  <2>4. Max(plus) \in Nat
    <3>1. Max(plus) \in 0..(m + 2 + n)
      BY <2>1, <2>3
    <3> QED
      BY <1>1, <1>2, <3>1
  <2> QED
    BY <1>1, <1>9, <2>2, <2>3, <2>4
<1>11. SubSeq(e, 1, m) = x
  <2>1. 1..m \subseteq DOMAIN e
    BY <1>1, <1>2, <1>8
  <2>2. SubSeq(e, 1, m) \in Seq(Label) /\ Len(SubSeq(e, 1, m)) = m
        /\ \A i \in 1..m : SubSeq(e, 1, m)[i] = e[i]
    BY <1>1, <1>7, <1>2
  <2>3. Len(x) = m
    BY DEF m
  <2> QED
    BY <1>1, <1>7, <2>2, <2>3
<1>12. SubSeq(e, m + 3, m + 2 + n) = o
  <2> DEFINE t == SubSeq(e, m + 3, m + 2 + n)
  <2>1. t \in Seq(Label) /\ Len(t) = n /\ \A i \in 1..n : t[i] = e[m + 3 + i - 1]
    BY <1>1, <1>2, <1>7
  <2>2. \A i \in 1..n : m + 3 + i - 1 = m + 2 + i
    BY <1>1, <1>2
  <2>3. Len(o) = n
    BY DEF n
  <2>4. o \in Seq(Label)
    BY <1>2
  <2> HIDE DEF t
  <2>5. \A i \in 1..n : t[i] = o[i]
    BY <1>7, <2>1, <2>2
  <2>6. t = o
    BY <2>1, <2>3, <2>4, <2>5, SeqEqual
  <2> QED
    BY <2>6 DEF t
<1>13. e # None
  <2>1. Len(e) # 0
    BY <1>1, <1>2, <1>7
  <2> QED
    BY <2>1 DEF None
<1>14. e \notin Statement
  <2>1. m + 1 \in DOMAIN e
    BY <1>9
  <2>2. \A z \in Statement : \A i \in DOMAIN z : z[i] # "+"
    BY DeploymentAssumption
  <2> QED
    BY <1>7, <2>1, <2>2
<1>15. (m + 1) - 1 = m /\ (m + 1) + 2 = m + 3
  BY <1>1
<1> QED
  BY <1>7, <1>10, <1>11, <1>12, <1>13, <1>14, <1>15 DEF e

\* Everything that mappers can make for these files, what it deploys and what it is in.
AllMade    == {Made(x, r, o) : x \in Seq(Label), r \in Of(RootClasses), o \in Object}
AnyElement == files \cup AllMade
Goal(e)    == IF e \in files THEN ref[<<e, "target">>] ELSE SubSeq(e, Plus(e) + 2, Len(e))
Inside(e)  == IF e \in files THEN Front(e) ELSE SubSeq(e, 1, Plus(e) - 1)
Kind(e)    == IF e \in files THEN Said[e].class ELSE Class[Goal(e)]

MadeFit == made \subseteq AllMade

\* Mappings that map objects to elements that deploy them.
Mappings == {m \in [Object -> AnyElement \cup {None}] :
                \A o \in Object : m[o] # None => Goal(m[o]) = o}

LEMMA AllMadeFacts ==
    ASSUME FilesFit, NEW x \in Seq(Label), NEW r \in Of(RootClasses), NEW o \in Object
    PROVE  LET e == Made(x, r, o)
           IN  /\ e \in AllMade /\ e \in Seq(Label) \ {None} /\ e \notin files
               /\ Goal(e) = o /\ Inside(e) = x /\ Kind(e) = Class[o]
<1> DEFINE e == Made(x, r, o)
<1>1. r \in Statement
  BY OfFacts
<1>2. e \in Seq(Label) \ {None} /\ e \notin Statement
      /\ SubSeq(e, 1, Plus(e) - 1) = x /\ SubSeq(e, Plus(e) + 2, Len(e)) = o
  BY <1>1, MadeFacts
<1>3. e \in AllMade
  BY DEF AllMade
<1>4. e \notin files
  BY <1>2 DEF FilesFit
<1> HIDE DEF e
<1>5. Goal(e) = o /\ Inside(e) = x
  BY <1>2, <1>4 DEF Goal, Inside
<1>6. Kind(e) = Class[o]
  BY <1>4, <1>5 DEF Kind
<1> QED
  BY <1>2, <1>3, <1>4, <1>5, <1>6 DEF e

LEMMA ElementFacts ==
    ASSUME FilesFit, MadeFit, NEW e \in Elements
    PROVE  /\ e \in AnyElement /\ e \in Seq(Label) \ {None}
           /\ Target(e) = Goal(e) /\ Owner(e) = Inside(e) /\ ClassOf(e) = Kind(e)
           /\ e \in made <=> e \notin files
           /\ e \in made => Goal(e) \in Object
<1>1. \A d \in made : d \notin files /\ d \in AllMade /\ d \in Seq(Label) \ {None} /\ Goal(d) \in Object
  <2> TAKE d \in made
  <2>1. PICK x \in Seq(Label), r \in Of(RootClasses), o \in Object : d = Made(x, r, o)
    BY DEF MadeFit, AllMade
  <2> QED
    BY <2>1, AllMadeFacts
<1>2. e \in made <=> e \notin files
  BY <1>1 DEF Elements
<1>3. e \in Seq(Label) \ {None}
  BY <1>1, LabelSequences, NoneIsNothing DEF Elements, FilesFit
<1>4. Target(e) = Goal(e) /\ Owner(e) = Inside(e)
  BY <1>2 DEF Target, Goal, Owner, Inside
<1>5. ClassOf(e) = Kind(e)
  BY <1>2, <1>4 DEF ClassOf, Kind
<1> QED
  BY <1>1, <1>2, <1>3, <1>4, <1>5 DEF Elements, AnyElement

LEMMA AnyElementFacts ==
    ASSUME FilesFit, NEW e \in AnyElement
    PROVE  e \in Seq(Label) \ {None}
<1>1. CASE e \in files
  BY <1>1, LabelSequences, NoneIsNothing DEF FilesFit
<1>2. CASE e \in AllMade
  <2>1. PICK x \in Seq(Label), r \in Of(RootClasses), o \in Object : e = Made(x, r, o)
    BY <1>2 DEF AllMade
  <2> QED
    BY <2>1, AllMadeFacts
<1> QED
  BY <1>1, <1>2 DEF AnyElement

LEMMA ChildrenFacts ==
    ASSUME FilesFit, MadeFit, NEW x, NEW classes
    PROVE  /\ Children(x, classes) \subseteq Elements
           /\ \A e \in Children(x, classes) : Inside(e) = x /\ Kind(e) \in classes
           /\ \A e \in Elements : e # x /\ Inside(e) = x /\ Kind(e) \in classes => e \in Children(x, classes)
BY ElementFacts DEF Children

-----------------------------------------------------------------------------
(* Placing and filling.                                                    *)

LEMMA PlaceAllFacts ==
    ASSUME FilesFit, MadeFit, NEW m \in Mappings, NEW S \in SUBSET Elements
    PROVE  /\ PlaceAll(m, S) \in Mappings
           /\ \A o \in Object :
                  LET es == {e \in S : Goal(e) = o}
                  IN  PlaceAll(m, S)[o] \in IF es = {} THEN {m[o]} ELSE es
<1> DEFINE For(o) == {e \in S : Target(e) = o}
           LastOf(es) == IF es \subseteq files THEN Latest(es) ELSE CHOOSE e \in es \ files : TRUE
           p == PlaceAll(m, S)
<1>1. \A o : For(o) = {e \in S : Goal(e) = o}
  BY ElementFacts
<1>2. p = [o \in Object |-> IF For(o) = {} THEN m[o] ELSE LastOf(For(o))]
  BY DEF PlaceAll
<1>3. ASSUME NEW o \in Object, For(o) # {} PROVE LastOf(For(o)) \in For(o)
  <2>1. CASE For(o) \subseteq files
    <3>1. For(o) \in SUBSET Statement
      BY <2>1 DEF FilesFit
    <3> HIDE DEF For
    <3>2. Latest(For(o)) \in For(o)
      BY <1>3, <3>1, LatestIsOne
    <3> QED
      BY <2>1, <3>2
  <2>2. CASE ~(For(o) \subseteq files)
    <3> HIDE DEF For
    <3>1. For(o) \ files # {}
      BY <2>2
    <3> QED
      BY <2>2, <3>1
  <2> QED
    BY <2>1, <2>2
<1> HIDE DEF LastOf, For, p
<1>4. \A o \in Object : p[o] = IF For(o) = {} THEN m[o] ELSE LastOf(For(o))
  BY <1>2
<1>5. \A o \in Object : p[o] \in IF For(o) = {} THEN {m[o]} ELSE For(o)
  BY <1>3, <1>4
<1>6. m \in [Object -> AnyElement \cup {None}] /\ \A o \in Object : m[o] # None => Goal(m[o]) = o
  BY DEF Mappings
<1>7. \A o : For(o) \subseteq AnyElement /\ \A e \in For(o) : Goal(e) = o
  BY <1>1, ElementFacts
<1>8. \A o \in Object : p[o] \in AnyElement \cup {None} /\ (p[o] # None => Goal(p[o]) = o)
  BY <1>5, <1>6, <1>7
<1>9. p \in [Object -> AnyElement \cup {None}]
  <2>1. p = [o \in Object |-> p[o]]
    BY <1>2
  <2> QED
    BY <1>8, <2>1
<1>10. p \in Mappings
  BY <1>8, <1>9 DEF Mappings
<1> QED
  BY <1>1, <1>5, <1>10 DEF p

LEMMA FillFacts ==
    ASSUME FilesFit, NEW m \in Mappings, NEW r \in Of(RootClasses), NEW os \in SUBSET Object,
           \A o \in os : Front(o) \in Object
    PROVE  /\ Fill(r, m, os) \in Mappings
           /\ \A o \in Object : Fill(r, m, os)[o] =
                  IF o \in os /\ m[o] = None THEN Made(m[Front(o)], r, o) ELSE m[o]
           /\ \A o \in os : m[o] = None => /\ m[Front(o)] \in Seq(Label)
                                           /\ Made(m[Front(o)], r, o) # None
           /\ \A o \in os : Fill(r, m, os)[o] # None
<1> DEFINE p == Fill(r, m, os)
<1>1. p = [o \in Object |-> IF o \in os /\ m[o] = None THEN Made(m[Front(o)], r, o) ELSE m[o]]
  BY DEF Fill
<1>2. m \in [Object -> AnyElement \cup {None}] /\ \A o \in Object : m[o] # None => Goal(m[o]) = o
  BY DEF Mappings
<1>3. ASSUME NEW o \in os
      PROVE  /\ m[Front(o)] \in Seq(Label)
             /\ Made(m[Front(o)], r, o) \in AllMade \ {None} /\ Goal(Made(m[Front(o)], r, o)) = o
  <2>1. m[Front(o)] \in AnyElement \cup {None}
    BY <1>2
  <2>2. None \in Seq(Label)
    BY DEF None
  <2>3. m[Front(o)] \in Seq(Label)
    BY <2>1, <2>2, AnyElementFacts
  <2> QED
    BY <2>3, AllMadeFacts
<1> HIDE DEF p
<1>4. \A o \in Object : p[o] = IF o \in os /\ m[o] = None THEN Made(m[Front(o)], r, o) ELSE m[o]
  BY <1>1
<1>5. \A o \in Object : p[o] \in AnyElement \cup {None} /\ (p[o] # None => Goal(p[o]) = o)
  BY <1>2, <1>3, <1>4 DEF AnyElement
<1>6. p \in [Object -> AnyElement \cup {None}]
  <2>1. p = [o \in Object |-> p[o]]
    BY <1>1
  <2> QED
    BY <1>5, <2>1
<1>7. p \in Mappings
  BY <1>5, <1>6 DEF Mappings
<1>8. \A o \in os : p[o] # None
  BY <1>3, <1>4
<1> QED
  BY <1>3, <1>4, <1>7, <1>8 DEF p

\* An object that is mapped stays mapped.
Grows(m, p) == \A o \in Object : m[o] # None => p[o] # None
Covers(m, c) == \A o \in Content(c) : m[o] # None

\* What initTypes places: the elements for types in x and for their parts.
Whole(x) == {t \in Children(x, TypeClasses) : ClassOf(t) \in Compound \cup {"enumeration"}}
TypesIn(x) == Children(x, TypeClasses) \cup UNION {Children(t, Parts) : t \in Whole(x)}

LEMMA PlaceTypesFacts ==
    ASSUME FilesFit, MadeFit, NEW m \in Mappings, NEW x
    PROVE  /\ TypesIn(x) \subseteq Elements
           /\ PlaceTypes(m, x) = PlaceAll(m, TypesIn(x))
           /\ PlaceTypes(m, x) \in Mappings /\ Grows(m, PlaceTypes(m, x))
<1>1. TypesIn(x) \in SUBSET Elements
  BY ChildrenFacts DEF TypesIn
<1>2. PlaceTypes(m, x) = PlaceAll(m, TypesIn(x))
  BY DEF PlaceTypes, TypesIn, Whole
<1>3. /\ PlaceAll(m, TypesIn(x)) \in Mappings
      /\ \A o \in Object : LET es == {e \in TypesIn(x) : Goal(e) = o}
                           IN  PlaceAll(m, TypesIn(x))[o] \in IF es = {} THEN {m[o]} ELSE es
  BY <1>1, PlaceAllFacts
<1>4. None \notin TypesIn(x)
  BY <1>1, ElementFacts
<1>5. Grows(m, PlaceAll(m, TypesIn(x)))
  BY <1>3, <1>4 DEF Grows
<1> QED
  BY <1>1, <1>2, <1>3, <1>5

LEMMA PlaceGrows ==
    ASSUME FilesFit, MadeFit, NEW m \in Mappings, NEW S \in SUBSET Elements
    PROVE  /\ PlaceAll(m, S) \in Mappings /\ Grows(m, PlaceAll(m, S))
           /\ \A e \in S : Goal(e) \in Object => PlaceAll(m, S)[Goal(e)] # None
<1>1. /\ PlaceAll(m, S) \in Mappings
      /\ \A o \in Object : LET es == {e \in S : Goal(e) = o}
                           IN  PlaceAll(m, S)[o] \in IF es = {} THEN {m[o]} ELSE es
  BY PlaceAllFacts
<1>2. None \notin S
  BY ElementFacts
<1> QED
  BY <1>1, <1>2 DEF Grows

LEMMA FillGrows ==
    ASSUME FilesFit, NEW m \in Mappings, NEW r \in Of(RootClasses), NEW os \in SUBSET Object,
           \A o \in os : Front(o) \in Object
    PROVE  /\ Fill(r, m, os) \in Mappings /\ Grows(m, Fill(r, m, os))
           /\ \A o \in os : Fill(r, m, os)[o] # None
BY FillFacts DEF Grows

LEMMA PlaceCollectionFacts ==
    ASSUME FilesFit, MadeFit, NEW m \in Mappings, NEW r \in Of(RootClasses),
           NEW x \in files, Goal(x) \in Object, Class[Goal(x)] = "typeCollection"
    PROVE  LET p == PlaceCollection(r, m, x)
           IN  p \in Mappings /\ Grows(m, p) /\ Covers(p, Goal(x))
<1> DEFINE c     == Goal(x)
           types == Members(c, TypeClasses)
           parts == UNION {Members(t, Details) : t \in types}
           m1    == PlaceAll(m, {x})
           m2    == PlaceTypes(m1, x)
           m3    == Fill(r, m2, types)
           p     == Fill(r, m3, parts)
<1>1. x \in Elements /\ Target(x) = c
  BY ElementFacts DEF Elements
<1>2. PlaceCollection(r, m, x) = p
  BY <1>1 DEF PlaceCollection
<1>3. types \in SUBSET Object /\ \A o \in types : Front(o) = c
  BY DEF Members
<1>4. parts \in SUBSET Object /\ \A o \in parts : Front(o) \in types
  BY DEF Members
<1>5. m1 \in Mappings /\ Grows(m, m1) /\ m1[c] # None
  BY <1>1, PlaceGrows
<1> HIDE DEF m1
<1>6. m2 \in Mappings /\ Grows(m1, m2)
  BY <1>5, PlaceTypesFacts
<1> HIDE DEF m2
<1>7. m3 \in Mappings /\ Grows(m2, m3) /\ \A o \in types : m3[o] # None
  BY <1>3, <1>6, FillGrows
<1> HIDE DEF m3
<1>8. p \in Mappings /\ Grows(m3, p) /\ \A o \in parts : p[o] # None
  BY <1>3, <1>4, <1>7, FillGrows
<1> HIDE DEF p
<1>9. Grows(m, p) /\ p[c] # None /\ \A o \in types \cup parts : p[o] # None
  BY <1>3, <1>4, <1>5, <1>6, <1>7, <1>8 DEF Grows
<1>10. ASSUME NEW o \in Content(c) PROVE o \in {c} \cup types \cup parts
  <2>2. o = c \/ (o \in Object /\ Class[o] \in TypeClasses /\ Front(o) = c)
              \/ (o \in Object /\ Class[o] \in Details /\ Front(Front(o)) = c)
    BY DEF Content
  <2>3. CASE o \in Object /\ Class[o] \in TypeClasses /\ Front(o) = c
    BY <2>3 DEF Members
  <2>4. CASE o \in Object /\ Class[o] \in Details /\ Front(Front(o)) = c
    <3>1. Front(o) \in types
      BY <2>4, ModelAssumption DEF Members
    <3>2. o \in Members(Front(o), Details)
      BY <2>4 DEF Members
    <3> QED
      BY <3>1, <3>2
  <2> QED
    BY <2>2, <2>3, <2>4
<1>11. Covers(p, c)
  BY <1>9, <1>10 DEF Covers
<1> QED
  BY <1>2, <1>8, <1>9, <1>11

LEMMA PlaceInterfaceFacts ==
    ASSUME FilesFit, MadeFit, NEW m \in Mappings, NEW r \in Of(RootClasses),
           Goal(r) \in Object, Class[Goal(r)] = "interface"
    PROVE  LET p == PlaceInterface(m, r)
           IN  p \in Mappings /\ Grows(m, p) /\ Covers(p, Goal(r))
<1> DEFINE c            == Goal(r)
           members      == Children(r, MemberClasses)
           own          == Members(c, MemberClasses)
           arguments    == UNION {Children(e, {"argument"}) : e \in members}
           ownArguments == UNION {Members(o, {"argument"}) : o \in own}
           written      == {r} \cup members \cup arguments
           m1           == PlaceAll(m, written)
           m2           == Fill(r, m1, own)
           p            == Fill(r, m2, ownArguments)
<1>1. r \in Elements /\ Target(r) = c
  BY ElementFacts, OfFacts DEF Elements
<1>2. PlaceInterface(m, r) = p
  BY <1>1 DEF PlaceInterface
<1>3. written \in SUBSET Elements
  BY <1>1, ChildrenFacts
<1>4. own \in SUBSET Object /\ \A o \in own : Front(o) = c
  BY DEF Members
<1>5. ownArguments \in SUBSET Object /\ \A o \in ownArguments : Front(o) \in own
  BY DEF Members
<1>6. m1 \in Mappings /\ Grows(m, m1) /\ m1[c] # None
  BY <1>3, PlaceGrows
<1> HIDE DEF m1
<1>7. m2 \in Mappings /\ Grows(m1, m2) /\ \A o \in own : m2[o] # None
  BY <1>4, <1>6, FillGrows
<1> HIDE DEF m2
<1>8. p \in Mappings /\ Grows(m2, p) /\ \A o \in ownArguments : p[o] # None
  BY <1>4, <1>5, <1>7, FillGrows
<1> HIDE DEF p
<1>9. Grows(m, p) /\ p[c] # None /\ \A o \in own \cup ownArguments : p[o] # None
  BY <1>4, <1>5, <1>6, <1>7, <1>8 DEF Grows
<1>10. ASSUME NEW o \in Content(c) PROVE o \in {c} \cup own \cup ownArguments
  <2>1. o = c \/ (o \in Object /\ Class[o] \in MemberClasses /\ Front(o) = c)
              \/ (o \in Object /\ Class[o] = "argument" /\ Front(Front(o)) = c)
    BY DEF Content
  <2>2. CASE o \in Object /\ Class[o] \in MemberClasses /\ Front(o) = c
    BY <2>2 DEF Members
  <2>3. CASE o \in Object /\ Class[o] = "argument" /\ Front(Front(o)) = c
    <3>1. Front(o) \in own
      BY <2>3, ModelAssumption DEF Members, MemberClasses
    <3>2. o \in Members(Front(o), {"argument"})
      BY <2>3 DEF Members
    <3> QED
      BY <3>1, <3>2
  <2> QED
    BY <2>1, <2>2, <2>3
<1>11. Covers(p, c)
  BY <1>9, <1>10 DEF Covers
<1> QED
  BY <1>2, <1>8, <1>9, <1>11

-----------------------------------------------------------------------------
(* Types.                                                                  *)

\* Mappers start when everything has been resolved, and one works at a time.
PhasesFit ==
    /\ phase \notin {"resolve", "overflow"} => pass = Len(Passes)
    /\ phase \in {"resolve", "validate"} => made = {} /\ mapping = <<>>
    /\ phase = "use" => /\ todo # <<>> /\ Said[Head(todo)].class = "interface"
                        /\ ref[<<Head(todo), "target">>] # None
                        /\ Head(todo) \in DOMAIN mapping

MappingsFit == \A r \in DOMAIN mapping : mapping[r] \in Mappings

Typed == TypeOK /\ RefsFit /\ MadeFit /\ PhasesFit /\ MappingsFit

LEMMA TypedFacts ==
    ASSUME Typed
    PROVE  /\ FilesFit /\ RefsFit /\ MadeFit
           /\ \A s \in files : Len(s) > 1 => Front(s) \in files
BY DeploymentAssumption DEF Typed, TypeOK, FilesFit

\* What deployments are for, and what they use.
LEMMA RootFacts ==
    ASSUME FilesFit, RefsFit, NEW r \in Of({"interface", "types"})
    PROVE  /\ r \in files /\ r \in Of(RootClasses) /\ Goal(r) = ref[<<r, "target">>]
           /\ <<r, "target">> \in References /\ <<r, "spec">> \in References
           /\ Goal(r) # None => /\ Goal(r) \in Object
                                /\ Said[r].class = "interface" => Class[Goal(r)] = "interface"
                                /\ Said[r].class = "types" => Class[Goal(r)] = "typeCollection"
<1>1. r \in files /\ Said[r].class \in {"interface", "types"}
  BY DEF Of
<1>2. <<r, "target">> \in References /\ <<r, "spec">> \in References
  BY <1>1, IsReference, PassesHave DEF RootClasses
<1>3. ref[<<r, "target">>] \in {o \in Object : Class[o] \in TargetKinds(Said[r].class)} \cup {None}
  BY <1>2 DEF RefsFit, Fits
<1>4. TargetKinds("types") = {"typeCollection"} /\ TargetKinds("interface") = {"interface"}
  BY DEF TargetKinds
<1> QED
  BY <1>1, <1>2, <1>3, <1>4 DEF Goal, Of, RootClasses

LEMMA UsesFacts ==
    ASSUME FilesFit, RefsFit, MadeFit, NEW x
    PROVE  /\ Children(x, UseClasses) \subseteq files
           /\ Uses(x) \in Seq(Of(RootClasses))
           /\ Range(Uses(x)) = {ref[<<u, "use">>] : u \in Children(x, UseClasses)} \ {None}
<1> DEFINE us   == {u \in Children(x, UseClasses) : ref[<<u, "use">>] # None}
           list == Ordered(us)
<1>1. ASSUME NEW u \in Children(x, UseClasses)
      PROVE  u \in files /\ ref[<<u, "use">>] \in Of(RootClasses) \cup {None}
  <2>1. u \in Elements /\ Kind(u) \in UseClasses
    BY ChildrenFacts
  <2>2. u \in files
    <3> SUFFICES ASSUME u \notin files PROVE FALSE
      OBVIOUS
    <3>1. Goal(u) \in Object /\ Kind(u) = Class[Goal(u)]
      BY <2>1, ElementFacts DEF Kind
    <3>2. Class[Goal(u)] \in ObjectClasses
      BY <3>1, ModelAssumption
    <3> QED
      BY <2>1, <3>1, <3>2 DEF ObjectClasses, UseClasses, MemberClasses, TypeClasses, Details, Parts
  <2>3. Said[u].class \in UseClasses
    BY <2>1, <2>2 DEF Kind
  <2>4. <<u, "use">> \in References
    BY <2>2, <2>3, IsReference, PassesHave
  <2>5. ref[<<u, "use">>] \in Fits(Said[u].class, "use") \cup {None}
    BY <2>4 DEF RefsFit
  <2> QED
    BY <2>2, <2>5 DEF Fits
<1>2. us \in SUBSET Statement
  BY <1>1 DEF FilesFit
<1>3. list \in Seq(us) /\ Range(list) = us
  <2> HIDE DEF us
  <2> QED
    BY <1>2, OrderedIsAll
<1>4. Uses(x) = [i \in DOMAIN list |-> ref[<<list[i], "use">>]]
  BY DEF Uses
<1>5. \A u \in us : ref[<<u, "use">>] \in Of(RootClasses) /\ ref[<<u, "use">>] # None
  BY <1>1, OfFacts, NoneIsNothing
<1>6. Range(Uses(x)) = {ref[<<u, "use">>] : u \in us}
  <2> HIDE DEF us, list
  <2> DEFINE used(u) == ref[<<u, "use">>]
  <2>1. Range(list) = {list[i] : i \in DOMAIN list} /\ Range(list) = us
    BY <1>3 DEF Range
  <2>2. Range(Uses(x)) = {used(list[i]) : i \in DOMAIN list}
    BY <1>4 DEF Range
  <2> HIDE DEF used
  <2>3. Range(Uses(x)) = {used(u) : u \in us}
    BY <2>1, <2>2
  <2> QED
    BY <2>3 DEF used
<1>7. Uses(x) \in Seq(Of(RootClasses))
  <2> HIDE DEF us, list
  <2>1. Len(list) \in Nat /\ DOMAIN list = 1..Len(list) /\ \A i \in 1..Len(list) : list[i] \in us
    BY <1>3
  <2>2. Uses(x) \in [1..Len(list) -> Of(RootClasses)]
    BY <1>4, <1>5, <2>1
  <2> QED
    BY <2>1, <2>2, SeqDef
<1> QED
  BY <1>1, <1>5, <1>6, <1>7

\* What does not change while mappers work.
LEMMA Settled ==
    ASSUME files' = files, ref' = ref
    PROVE  /\ Mappings' = Mappings /\ AllMade' = AllMade /\ AnyElement' = AnyElement
           /\ \A e : Goal(e)' = Goal(e) /\ Inside(e)' = Inside(e) /\ Kind(e)' = Kind(e)
           /\ \A classes : Of(classes)' = Of(classes)
           /\ References' = References /\ (RefsFit => RefsFit')
<1>1. \A classes : Of(classes)' = Of(classes)
  BY DEF Of
<1>2. AllMade' = AllMade
  BY <1>1 DEF AllMade
<1>3. AnyElement' = AnyElement
  BY <1>2 DEF AnyElement
<1>4. \A e : Goal(e)' = Goal(e) /\ Inside(e)' = Inside(e)
  BY DEF Goal, Inside
<1>5. \A e : Kind(e)' = Kind(e)
  BY <1>4 DEF Kind
<1>6. Mappings' = Mappings
  BY <1>3, <1>4 DEF Mappings
<1>7. References' = References
  BY <1>1 DEF References
<1>8. \A class, what : Fits(class, what)' = Fits(class, what)
  BY <1>1 DEF Fits
<1>9. RefsFit => RefsFit'
  BY <1>7, <1>8 DEF RefsFit
<1> QED
  BY <1>1, <1>2, <1>3, <1>4, <1>5, <1>6, <1>7, <1>9

LEMMA RefsRange ==
    ASSUME RefsFit
    PROVE  DOMAIN ref = References /\ Range(ref) \subseteq Object \cup files \cup {None}
<1>1. \A class, what : Fits(class, what) \subseteq Object \cup files
  BY DEF Fits, Of
<1> QED
  BY <1>1 DEF RefsFit, Range

LEMMA ReferentFacts ==
    ASSUME FilesFit, RefsFit, NEW i \in 1..25, NEW s, Said[s].class = Passes[i][1]
    PROVE  /\ Referent(s, Passes[i][2]) \in Fits(Passes[i][1], Passes[i][2]) \cup {None}
           /\ Candidates(s, Passes[i][2]) # {} /\ ~Undefined(s, Passes[i][2])
              /\ Passes[i][1] \notin OperationClasses => Referent(s, Passes[i][2]) # None
<1> DEFINE class    == Passes[i][1]
           what     == Passes[i][2]
           thing(n) == Cast(class, Find(class, what, n))
           found    == {thing(n) : n \in Candidates(s, what)} \ {None}
<1>1. Referent(s, what) = IF found = {} THEN None ELSE CHOOSE o \in found : TRUE
  BY DEF Referent
<1>2. \A n : thing(n) \in Fits(class, what) \cup {None}
  BY FindFits
<1>3. found \subseteq Fits(class, what) /\ None \notin found
  <2> HIDE DEF thing, class, what
  <2> QED
    BY <1>2
<1>4. Referent(s, what) \in Fits(class, what) \cup {None} /\ (found # {} => Referent(s, what) # None)
  <2> HIDE DEF found, class, what
  <2> QED
    BY <1>1, <1>3
<1>5. ASSUME Candidates(s, what) # {}, ~Undefined(s, what), class \notin OperationClasses
      PROVE  found # {}
  <2>1. PICK n : n \in Candidates(s, what)
    BY <1>5
  <2>2. Find(class, what, n) # None
    BY <1>5, <2>1 DEF Undefined
  <2>3. thing(n) # None
    BY <1>5, <2>2 DEF Cast
  <2> HIDE DEF thing, class, what
  <2> QED
    BY <2>1, <2>3
<1> QED
  BY <1>4, <1>5

LEMMA InitTyped ==
    ASSUME Init
    PROVE  Typed
<1>1. FilesFit /\ files \in Inputs
  BY DeploymentAssumption DEF Init, FilesFit
<1>2. RefsFit
  BY DEF Init, RefsFit
<1>3. MadeFit /\ PhasesFit /\ MappingsFit
  BY DEF Init, MadeFit, PhasesFit, MappingsFit
<1>4. DOMAIN mapping = {} /\ todo \in Seq(Of(RootClasses)) /\ work \in Seq(Of(RootClasses))
  BY DEF Init
<1>5. phase = "resolve" /\ pass = 0 /\ failed = FALSE /\ made = {} /\ visited = {}
  BY DEF Init
<1>6. pass \in 0..Len(Passes)
  BY <1>5, PassesFacts
<1>7. TypeOK
  BY <1>1, <1>2, <1>4, <1>5, <1>6, RefsRange DEF TypeOK
<1> QED
  BY <1>2, <1>3, <1>7 DEF Typed

LEMMA ResolveTyped ==
    ASSUME Typed, Resolve
    PROVE  Typed'
<1> USE DEF Typed
<1>1. FilesFit /\ RefsFit /\ phase = "resolve" /\ pass \in 0..25 /\ pass < 25 /\ made = {} /\ mapping = <<>>
  BY TypedFacts, PassesFacts DEF Resolve, TypeOK, PhasesFit
<1>2. /\ files' = files /\ made' = {} /\ mapping' = <<>> /\ todo' = todo /\ work' = work
      /\ visited' = visited /\ pass' = pass + 1
  BY <1>1 DEF Resolve
<1>3. pass + 1 \in 1..25 /\ pass' \in 0..Len(Passes)
  BY <1>1, <1>2, PassesFacts
<1>4. /\ \A classes : Of(classes)' = Of(classes)
      /\ References' = References /\ \A class, what : Fits(class, what)' = Fits(class, what)
  BY <1>2 DEF Of, References, Fits
<1>5. RefsFit'
  <2> DEFINE class == Passes[pass + 1][1]
             what  == Passes[pass + 1][2]
  <2>1. ref' = [r \in DOMAIN ref |->
                   IF Said[r[1]].class = class /\ r[2] = what THEN Referent(r[1], what) ELSE ref[r]]
    BY DEF Resolve
  <2>2. \A r \in References : ref[r] \in Fits(Said[r[1]].class, r[2]) \cup {None}
    BY <1>1 DEF RefsFit
  <2>3. DOMAIN ref = References
    BY <1>1 DEF RefsFit
  <2>4. \A s : Said[s].class = class => Referent(s, what) \in Fits(class, what) \cup {None}
    BY <1>1, <1>3, ReferentFacts
  <2> HIDE DEF class, what
  <2>5. \A r \in References : ref'[r] \in Fits(Said[r[1]].class, r[2]) \cup {None}
    BY <2>1, <2>2, <2>3, <2>4
  <2> QED
    BY <1>4, <2>1, <2>3, <2>5 DEF RefsFit
<1>6. phase' \in {"resolve", "validate", "overflow"} /\ (phase' = "validate" => pass' = Len(Passes))
      /\ failed' \in BOOLEAN
  <2>1. failed' \in BOOLEAN
    BY DEF Resolve, TypeOK
  <2>2. phase' \in {"resolve", "validate", "overflow"} /\ (phase' = "validate" => pass' = Len(Passes))
    BY <1>1, <1>2 DEF Resolve
  <2> QED
    BY <2>1, <2>2
<1>7. DOMAIN mapping' = {}
  BY <1>2
<1>8. MadeFit' /\ PhasesFit' /\ MappingsFit'
  BY <1>2, <1>6, <1>7 DEF MadeFit, PhasesFit, MappingsFit
<1>9. /\ files' \in Inputs /\ todo' \in Seq(Of(RootClasses)') /\ work' \in Seq(Of(RootClasses)')
      /\ visited' \subseteq Of({"types"})'
  BY <1>2, <1>4 DEF TypeOK
<1>10. DOMAIN ref' = References' /\ Range(ref)' \subseteq Object \cup files' \cup {None}
  <2>1. RefsFit => DOMAIN ref = References /\ Range(ref) \subseteq Object \cup files \cup {None}
    BY RefsRange
  <2>2. (RefsFit => DOMAIN ref = References /\ Range(ref) \subseteq Object \cup files \cup {None})'
    BY RefsRange, PTL
  <2> QED
    BY <1>5, <2>2
<1>11. TypeOK'
  BY <1>2, <1>3, <1>6, <1>7, <1>9, <1>10 DEF TypeOK
<1> QED
  BY <1>5, <1>8, <1>11

\* A mapping that is stored fits, and what it has made is there from then on.
LEMMA StoreFacts ==
    ASSUME Typed, files' = files, ref' = ref, todo # <<>>, NEW m \in Mappings, Store(m)
    PROVE  /\ Head(todo) \in Of(RootClasses) /\ MadeFit' /\ MappingsFit'
           /\ DOMAIN mapping' = DOMAIN mapping \cup {Head(todo)}
           /\ mapping'[Head(todo)] = m
           /\ \A d \in DOMAIN mapping \ {Head(todo)} : mapping'[d] = mapping[d]
           /\ made \subseteq made' /\ Range(m) \subseteq files' \cup made' \cup {None}
           /\ made' \ made \subseteq Range(m)
           /\ made' \cap files' = {} /\ DOMAIN mapping' \subseteq Of(RootClasses)'
           /\ \A d \in DOMAIN mapping' : mapping'[d] \in [Object -> Elements' \cup {None}]
<1> USE DEF Typed
<1> DEFINE r == Head(todo)
<1>1. r \in Of(RootClasses) /\ FilesFit
  BY TypedFacts DEF TypeOK
<1>2. mapping' = [d \in DOMAIN mapping \cup {r} |-> IF d = r THEN m ELSE mapping[d]]
  BY DEF Store, Mapped
<1>3. DOMAIN mapping' = DOMAIN mapping \cup {r} /\ mapping'[r] = m
      /\ \A d \in DOMAIN mapping \ {r} : mapping'[d] = mapping[d]
  BY <1>2
<1>4. made' = made \cup (Range(m) \ (files \cup {None}))
  BY <1>3 DEF Store
<1>5. m \in [Object -> AnyElement \cup {None}] /\ Range(m) \subseteq AnyElement \cup {None}
  BY DEF Mappings, Range
<1>6. made' \subseteq AllMade /\ made \subseteq made'
  BY <1>4, <1>5 DEF AnyElement, MadeFit
<1>7. /\ Mappings' = Mappings /\ AllMade' = AllMade
      /\ \A classes : Of(classes)' = Of(classes)
  BY Settled
<1>8. MadeFit'
  BY <1>6, <1>7 DEF MadeFit
<1>9. MappingsFit'
  BY <1>3, <1>7 DEF MappingsFit
<1>10. made' \cap files' = {}
  <2>1. made \cap files = {}
    BY DEF TypeOK
  <2> QED
    BY <1>4, <2>1
<1>11. Range(m) \subseteq files' \cup made' \cup {None}
  BY <1>4
<1>12. DOMAIN mapping' \subseteq Of(RootClasses)'
  BY <1>1, <1>3, <1>7 DEF TypeOK
<1>13. \A d \in DOMAIN mapping' : mapping'[d] \in [Object -> Elements' \cup {None}]
  <2>1. m \in [Object -> Elements' \cup {None}]
    BY <1>5, <1>11 DEF Elements, Range
  <2>2. Elements \subseteq Elements'
    BY <1>6 DEF Elements
  <2>3. ASSUME NEW d \in DOMAIN mapping PROVE mapping[d] \in [Object -> Elements' \cup {None}]
    <3>1. mapping[d] \in [Object -> Elements \cup {None}]
      BY DEF TypeOK
    <3> QED
      BY <2>2, <3>1
  <2> QED
    BY <1>3, <2>1, <2>3
<1> QED
  BY <1>1, <1>3, <1>4, <1>6, <1>8, <1>9, <1>10, <1>11, <1>12, <1>13

\* The parts of the type invariant that only depend on what mappers leave alone.
LEMMA SettledTyped ==
    ASSUME Typed, files' = files, ref' = ref, pass' = pass, failed' = failed
    PROVE  /\ files' \in Inputs /\ pass' \in 0..Len(Passes) /\ failed' \in BOOLEAN
           /\ DOMAIN ref' = References' /\ Range(ref)' \subseteq Object \cup files' \cup {None}
           /\ RefsFit' /\ (pass = Len(Passes) => pass' = Len(Passes))
BY Settled DEF Typed, TypeOK, Range

LEMMA ValidateTyped ==
    ASSUME Typed, Validate
    PROVE  Typed'
<1> USE DEF Typed
<1>1. /\ files' = files /\ ref' = ref /\ pass' = pass /\ made' = made /\ mapping' = mapping
      /\ work' = work /\ visited' = visited /\ phase' = "map" /\ made = {} /\ mapping = <<>>
      /\ todo' = Ordered(Of(RootClasses)) /\ pass = Len(Passes)
  BY DEF Validate, PhasesFit
<1>2. failed' \in BOOLEAN
  BY DEF Validate, TypeOK
<1>3. Of(RootClasses) \in SUBSET Statement
  BY TypedFacts, OfFacts
<1>4. todo' \in Seq(Of(RootClasses))
  BY <1>1, <1>3, OrderedIsAll
<1>5. /\ \A classes : Of(classes)' = Of(classes)
      /\ References' = References /\ RefsFit'
  BY <1>1, Settled
<1>6. /\ files' \in Inputs /\ pass' \in 0..Len(Passes)
      /\ DOMAIN ref' = References' /\ Range(ref)' \subseteq Object \cup files' \cup {None}
      /\ work' \in Seq(Of(RootClasses)') /\ visited' \subseteq Of({"types"})'
  BY <1>1, <1>5 DEF TypeOK, Range
<1>7. DOMAIN mapping' = {}
  BY <1>1
<1>8. TypeOK'
  BY <1>1, <1>2, <1>4, <1>5, <1>6, <1>7 DEF TypeOK
<1>9. MadeFit' /\ PhasesFit' /\ MappingsFit'
  BY <1>1, <1>7 DEF MadeFit, PhasesFit, MappingsFit
<1> QED
  BY <1>5, <1>8, <1>9

LEMMA NothingIsMapping == Nothing \in Mappings
BY DEF Nothing, Mappings

LEMMA SkipRootTyped ==
    ASSUME Typed, SkipRoot
    PROVE  Typed'
<1> USE DEF Typed
<1> DEFINE r == Head(todo)
<1>1. /\ files' = files /\ ref' = ref /\ pass' = pass /\ failed' = failed /\ made' = made
      /\ work' = work /\ visited' = visited /\ phase = "map" /\ phase' = "map" /\ todo # <<>>
      /\ todo' = Tail(todo) /\ mapping' = Mapped(r, Nothing) /\ pass = Len(Passes)
  BY DEF SkipRoot, PhasesFit
<1>2. /\ \A classes : Of(classes)' = Of(classes) /\ Mappings' = Mappings /\ AllMade' = AllMade
  BY <1>1, Settled
<1>3. r \in Of(RootClasses) /\ todo' \in Seq(Of(RootClasses))
  BY <1>1 DEF TypeOK
<1>4. DOMAIN mapping' = DOMAIN mapping \cup {r} /\ mapping'[r] = Nothing
      /\ \A d \in DOMAIN mapping \ {r} : mapping'[d] = mapping[d]
  BY <1>1 DEF Mapped
<1>5. Elements' = Elements /\ Nothing \in [Object -> Elements \cup {None}]
  BY <1>1 DEF Elements, Nothing
<1>6. \A d \in DOMAIN mapping' : mapping'[d] \in [Object -> Elements' \cup {None}]
  BY <1>4, <1>5 DEF TypeOK
<1>7. TypeOK'
  BY <1>1, <1>2, <1>3, <1>4, <1>6, SettledTyped DEF TypeOK
<1>8. MadeFit' /\ PhasesFit' /\ MappingsFit'
  BY <1>1, <1>2, <1>4, NothingIsMapping DEF MadeFit, PhasesFit, MappingsFit
<1> QED
  BY <1>1, <1>7, <1>8, SettledTyped

LEMMA MapTypesTyped ==
    ASSUME Typed, MapTypes
    PROVE  Typed'
<1> USE DEF Typed
<1> DEFINE r == Head(todo)
           m == PlaceCollection(r, Nothing, r)
<1>1. /\ files' = files /\ ref' = ref /\ pass' = pass /\ failed' = failed
      /\ work' = work /\ visited' = visited /\ phase = "map" /\ phase' = "map" /\ todo # <<>>
      /\ todo' = Tail(todo) /\ pass = Len(Passes) /\ Said[r].class = "types" /\ Target(r) # None
      /\ Store(m)
  BY DEF MapTypes, PhasesFit
<1>2. \A classes : Of(classes)' = Of(classes)
  BY <1>1, Settled
<1>3. r \in Of(RootClasses) /\ r \in files /\ todo' \in Seq(Of(RootClasses))
  BY <1>1 DEF TypeOK, Of
<1>4. m \in Mappings
  <2>1. Target(r) = Goal(r) /\ r \in Of({"interface", "types"})
    BY <1>1, <1>3, TypedFacts, ElementFacts DEF Of, Elements
  <2>2. Goal(r) \in Object /\ Class[Goal(r)] = "typeCollection"
    BY <1>1, <2>1, TypedFacts, RootFacts
  <2> QED
    BY <1>3, <2>2, TypedFacts, NothingIsMapping, PlaceCollectionFacts
<1> HIDE DEF m
<1>5. /\ MadeFit' /\ MappingsFit' /\ made' \cap files' = {} /\ DOMAIN mapping' \subseteq Of(RootClasses)'
      /\ \A d \in DOMAIN mapping' : mapping'[d] \in [Object -> Elements' \cup {None}]
  BY <1>1, <1>4, StoreFacts
<1>6. TypeOK'
  BY <1>1, <1>2, <1>3, <1>5, SettledTyped DEF TypeOK
<1>7. PhasesFit'
  BY <1>1 DEF PhasesFit
<1> QED
  BY <1>1, <1>5, <1>6, <1>7, SettledTyped

LEMMA StartMapperTyped ==
    ASSUME Typed, StartMapper
    PROVE  Typed'
<1> USE DEF Typed
<1> DEFINE r == Head(todo)
           m == PlaceTypes(Nothing, r)
<1>1. /\ files' = files /\ ref' = ref /\ pass' = pass /\ failed' = failed
      /\ work' = Uses(r) /\ visited' = {} /\ phase = "map" /\ phase' = "use" /\ todo # <<>>
      /\ todo' = todo /\ pass = Len(Passes) /\ Said[r].class = "interface" /\ Target(r) # None
      /\ Store(m)
  BY DEF StartMapper, PhasesFit
<1>2. \A classes : Of(classes)' = Of(classes)
  BY <1>1, Settled
<1>3. r \in Of(RootClasses) /\ r \in files /\ todo' \in Seq(Of(RootClasses))
  BY <1>1 DEF TypeOK, Of
<1>4. m \in Mappings
  BY TypedFacts, NothingIsMapping, PlaceTypesFacts
<1> HIDE DEF m
<1>5. /\ MadeFit' /\ MappingsFit' /\ made' \cap files' = {} /\ DOMAIN mapping' \subseteq Of(RootClasses)'
      /\ \A d \in DOMAIN mapping' : mapping'[d] \in [Object -> Elements' \cup {None}]
      /\ r \in DOMAIN mapping'
  BY <1>1, <1>4, StoreFacts
<1>6. work' \in Seq(Of(RootClasses))
  BY <1>1, TypedFacts, UsesFacts
<1>7. TypeOK'
  BY <1>1, <1>2, <1>3, <1>5, <1>6, SettledTyped DEF TypeOK
<1>8. PhasesFit'
  <2>1. ref[<<r, "target">>] # None
    BY <1>1, <1>3 DEF Target, TypeOK
  <2> QED
    BY <1>1, <1>5, <2>1 DEF PhasesFit
<1> QED
  BY <1>1, <1>5, <1>7, <1>8, SettledTyped

LEMMA VisitUseTyped ==
    ASSUME Typed, VisitUse
    PROVE  Typed'
<1> USE DEF Typed
<1> DEFINE r     == Head(todo)
           x     == Head(work)
           fresh == Said[x].class = "types" /\ x \notin visited
           m     == PlaceCollection(r, mapping[r], x)
<1>1. /\ files' = files /\ ref' = ref /\ pass' = pass /\ failed' = failed
      /\ phase = "use" /\ phase' = "use" /\ todo' = todo /\ todo # <<>> /\ work # <<>>
      /\ pass = Len(Passes) /\ Said[r].class = "interface" /\ ref[<<r, "target">>] # None
      /\ r \in DOMAIN mapping
      /\ work' = Tail(work) \o (IF fresh THEN Uses(x) ELSE <<>>)
      /\ visited' = IF fresh THEN visited \cup {x} ELSE visited
  BY DEF VisitUse, PhasesFit
<1>2. \A classes : Of(classes)' = Of(classes)
  BY <1>1, Settled
<1>3. r \in Of(RootClasses) /\ x \in Of(RootClasses) /\ x \in files /\ (fresh => x \in Of({"types"}))
      /\ Tail(work) \in Seq(Of(RootClasses))
  BY <1>1 DEF TypeOK, Of
<1>4. /\ MadeFit' /\ MappingsFit' /\ made' \cap files' = {} /\ DOMAIN mapping' \subseteq Of(RootClasses)'
      /\ \A d \in DOMAIN mapping' : mapping'[d] \in [Object -> Elements' \cup {None}]
      /\ r \in DOMAIN mapping'
  <2>1. CASE fresh /\ Target(x) # None
    <3>1. Store(m)
      BY <2>1 DEF VisitUse
    <3>2. Target(x) = Goal(x) /\ x \in Of({"interface", "types"})
      BY <1>3, <2>1, TypedFacts, ElementFacts DEF Of, Elements
    <3>3. Goal(x) \in Object /\ Class[Goal(x)] = "typeCollection"
      BY <2>1, <3>2, TypedFacts, RootFacts
    <3>4. mapping[r] \in Mappings
      BY <1>1 DEF MappingsFit
    <3>5. m \in Mappings
      BY <1>3, <3>3, <3>4, TypedFacts, PlaceCollectionFacts
    <3> HIDE DEF m
    <3> QED
      BY <1>1, <3>1, <3>5, StoreFacts
  <2>2. CASE ~(fresh /\ Target(x) # None)
    <3>1. mapping' = mapping /\ made' = made
      BY <2>2 DEF VisitUse
    <3>2. Elements' = Elements /\ Mappings' = Mappings /\ AllMade' = AllMade
      BY <1>1, <3>1, Settled DEF Elements
    <3> QED
      BY <1>1, <1>2, <3>1, <3>2 DEF TypeOK, MadeFit, MappingsFit
  <2> QED
    BY <2>1, <2>2
<1>5. work' \in Seq(Of(RootClasses))
  <2>1. (IF fresh THEN Uses(x) ELSE <<>>) \in Seq(Of(RootClasses))
    BY TypedFacts, UsesFacts
  <2> HIDE DEF x, fresh
  <2> QED
    BY <1>1, <1>3, <2>1, ConcatProperties
<1>6. visited' \subseteq Of({"types"})
  BY <1>1, <1>3 DEF TypeOK
<1>7. TypeOK'
  BY <1>1, <1>2, <1>4, <1>5, <1>6, SettledTyped DEF TypeOK
<1>8. PhasesFit'
  BY <1>1, <1>4 DEF PhasesFit
<1> QED
  BY <1>1, <1>4, <1>7, <1>8, SettledTyped

LEMMA FinishMapperTyped ==
    ASSUME Typed, FinishMapper
    PROVE  Typed'
<1> USE DEF Typed
<1> DEFINE r == Head(todo)
           m == PlaceInterface(mapping[r], r)
<1>1. /\ files' = files /\ ref' = ref /\ pass' = pass /\ failed' = failed
      /\ work' = work /\ visited' = visited /\ phase = "use" /\ phase' = "map" /\ todo # <<>>
      /\ todo' = Tail(todo) /\ pass = Len(Passes) /\ Said[r].class = "interface"
      /\ ref[<<r, "target">>] # None /\ r \in DOMAIN mapping
      /\ Store(m)
  BY DEF FinishMapper, PhasesFit
<1>2. \A classes : Of(classes)' = Of(classes)
  BY <1>1, Settled
<1>3. r \in Of(RootClasses) /\ r \in Of({"interface", "types"}) /\ todo' \in Seq(Of(RootClasses))
  BY <1>1 DEF TypeOK, Of
<1>4. m \in Mappings
  <2>1. Goal(r) \in Object /\ Class[Goal(r)] = "interface"
    BY <1>1, <1>3, TypedFacts, RootFacts
  <2>2. mapping[r] \in Mappings
    BY <1>1 DEF MappingsFit
  <2> QED
    BY <1>3, <2>1, <2>2, TypedFacts, PlaceInterfaceFacts
<1> HIDE DEF m
<1>5. /\ MadeFit' /\ MappingsFit' /\ made' \cap files' = {} /\ DOMAIN mapping' \subseteq Of(RootClasses)'
      /\ \A d \in DOMAIN mapping' : mapping'[d] \in [Object -> Elements' \cup {None}]
  BY <1>1, <1>4, StoreFacts
<1>6. TypeOK'
  BY <1>1, <1>2, <1>3, <1>5, SettledTyped DEF TypeOK
<1>7. PhasesFit'
  BY <1>1 DEF PhasesFit
<1> QED
  BY <1>1, <1>5, <1>6, <1>7, SettledTyped

LEMMA StepTyped == Typed /\ [Next]_vars => Typed'
<1> SUFFICES ASSUME Typed, [Next]_vars PROVE Typed'
  OBVIOUS
<1>1. CASE MapEndless
  <2>1. /\ phase' = "overflow" /\ UNCHANGED <<files, pass, failed, ref, made, mapping, todo, work, visited>>
    BY <1>1 DEF MapEndless
  <2>2. Mappings' = Mappings /\ AllMade' = AllMade /\ Elements' = Elements /\ RefsFit'
        /\ \A classes : Of(classes)' = Of(classes)
    BY <2>1, Settled DEF Elements, Typed
  <2>3. TypeOK'
    BY <2>1, <2>2, SettledTyped DEF TypeOK, Typed
  <2> QED
    BY <2>1, <2>2, <2>3 DEF Typed, MadeFit, MappingsFit, PhasesFit
<1>2. CASE Decide
  <2>1. /\ phase = "map" /\ phase' \in {"accepted", "rejected"}
        /\ UNCHANGED <<files, pass, failed, ref, todo, work, visited>>
        /\ mapping' = IF failed THEN <<>> ELSE mapping
        /\ made' = IF failed THEN {} ELSE made
    BY <1>2 DEF Decide
  <2>2. Mappings' = Mappings /\ AllMade' = AllMade /\ RefsFit'
        /\ \A classes : Of(classes)' = Of(classes)
    BY <2>1, Settled DEF Typed
  <2>3. made' \cap files' = {} /\ DOMAIN mapping' \subseteq Of(RootClasses)'
        /\ \A d \in DOMAIN mapping' : mapping'[d] \in [Object -> Elements' \cup {None}]
    BY <2>1, <2>2 DEF TypeOK, Typed, Elements
  <2>4. TypeOK'
    BY <2>1, <2>2, <2>3, SettledTyped DEF TypeOK, Typed
  <2>5. MadeFit' /\ MappingsFit' /\ PhasesFit'
    BY <2>1, <2>2 DEF Typed, MadeFit, MappingsFit, PhasesFit
  <2> QED
    BY <2>2, <2>4, <2>5 DEF Typed
<1>3. CASE UNCHANGED vars
  <2>1. UNCHANGED <<files, phase, pass, failed, ref, made, mapping, todo, work, visited>>
    BY <1>3 DEF vars
  <2>2. Mappings' = Mappings /\ AllMade' = AllMade /\ Elements' = Elements /\ RefsFit'
        /\ \A classes : Of(classes)' = Of(classes)
    BY <2>1, Settled DEF Elements, Typed
  <2>3. TypeOK'
    BY <2>1, <2>2, SettledTyped DEF TypeOK, Typed
  <2> QED
    BY <2>1, <2>2, <2>3 DEF Typed, MadeFit, MappingsFit, PhasesFit
<1> QED
  BY <1>1, <1>2, <1>3, ResolveTyped, ValidateTyped, SkipRootTyped, MapTypesTyped, StartMapperTyped,
     VisitUseTyped, FinishMapperTyped DEF Next

\* TypeOK of Deployment: references refer to objects and statements only, mappings map objects
\* to elements that are there, and nothing that is made is taken for a statement.
THEOREM TypeCorrect == Spec => []TypeOK
<1>1. Typed => TypeOK
  BY DEF Typed
<1> QED
  BY InitTyped, StepTyped, <1>1, PTL DEF Spec

-----------------------------------------------------------------------------
(* What is accepted is sound.                                              *)

\* A pass that reports nothing resolves everything, but for what is found of another class.
Resolved(i) == \A s \in Of({Passes[i][1]}) :
    Candidates(s, Passes[i][2]) # {} /\ Passes[i][1] \notin OperationClasses
    => ref[<<s, Passes[i][2]>>] # None

ResolvedSoFar == ~failed => \A i \in 1..pass : Resolved(i)

\* What the validator's lists hold.
Listed == Of(OperationClasses \cup {"attribute"})
SameList(s1, s2) ==
    /\ s1 # s2 /\ Front(s1) = Front(s2) /\ Said[s1].class = Said[s2].class
    /\ Said[s1].class = "argument" => Said[s1].list = Said[s2].list

Validated == phase \in {"map", "use", "accepted"} /\ ~failed =>
    /\ \A s \in Listed : ref[<<s, "target">>] # None
    /\ \A s1, s2 \in Listed : SameList(s1, s2) => ref[<<s1, "target">>] # ref[<<s2, "target">>]

Judged == Typed /\ ResolvedSoFar /\ Validated /\ (phase = "accepted" => ~failed)

LEMMA ResolveResolves ==
    ASSUME Typed, ResolvedSoFar, Resolve
    PROVE  ResolvedSoFar'
<1> DEFINE class == Passes[pass + 1][1]
           what  == Passes[pass + 1][2]
<1>1. /\ FilesFit /\ RefsFit /\ DOMAIN ref = References /\ pass \in 0..25 /\ pass < 25
      /\ files' = files /\ pass' = pass + 1 /\ pass + 1 \in 1..25
  <2>1. FilesFit /\ RefsFit
    BY TypedFacts
  <2>2. DOMAIN ref = References /\ pass \in 0..25
    BY PassesFacts DEF Typed, TypeOK
  <2>3. pass < 25 /\ files' = files /\ pass' = pass + 1
    BY PassesFacts DEF Resolve
  <2> QED
    BY <2>1, <2>2, <2>3
<1>2. ref' = [r \in DOMAIN ref |->
                 IF Said[r[1]].class = class /\ r[2] = what THEN Referent(r[1], what) ELSE ref[r]]
  BY DEF Resolve
<1>3. failed' = (failed \/ \E s \in Of({class}) : Undefined(s, what))
  BY DEF Resolve
<1> SUFFICES ASSUME ~failed', NEW i \in 1..(pass + 1), NEW s \in Of({Passes[i][1]})',
                    (Candidates(s, Passes[i][2]) # {})', Passes[i][1] \notin OperationClasses
             PROVE  ref'[<<s, Passes[i][2]>>] # None
  BY <1>1 DEF ResolvedSoFar, Resolved
<1>4. /\ ~failed /\ ~\E t \in Of({class}) : Undefined(t, what)
      /\ i \in 1..25 /\ s \in Of({Passes[i][1]}) /\ Candidates(s, Passes[i][2]) # {}
  <2>1. Of({Passes[i][1]})' = Of({Passes[i][1]})
    BY <1>1 DEF Of
  <2>2. Candidates(s, Passes[i][2]) # {}
    OBVIOUS
  <2>3. ~failed /\ ~\E t \in Of({class}) : Undefined(t, what)
    BY <1>3
  <2>4. i \in 1..25
    BY <1>1
  <2> QED
    BY <2>1, <2>2, <2>3, <2>4
<1>5. s \in files /\ Said[s].class = Passes[i][1] /\ <<s, Passes[i][2]>> \in References
  <2>1. Passes[i] = <<Passes[i][1], Passes[i][2]>> /\ Passes[i] \in Range(Passes)
    BY <1>4, PassesFacts DEF Range
  <2>2. s \in files /\ Said[s].class = Passes[i][1]
    BY <1>4 DEF Of
  <2> QED
    BY <2>1, <2>2, IsReference
<1>6. ref'[<<s, Passes[i][2]>>] = IF Passes[i][1] = class /\ Passes[i][2] = what THEN Referent(s, what)
                                  ELSE ref[<<s, Passes[i][2]>>]
  BY <1>1, <1>2, <1>5
<1>7. CASE Passes[i][1] = class /\ Passes[i][2] = what
  <2>1. s \in Of({class}) /\ Said[s].class = class
    BY <1>4, <1>5, <1>7
  <2>2. ~Undefined(s, what) /\ Candidates(s, what) # {} /\ class \notin OperationClasses
    BY <1>4, <1>7, <2>1
  <2>3. Referent(s, what) # None
    BY <1>1, <2>1, <2>2, ReferentFacts
  <2> QED
    BY <1>6, <1>7, <2>3
<1>8. CASE ~(Passes[i][1] = class /\ Passes[i][2] = what)
  <2>1. i \in 1..pass
    <3>1. i # pass + 1
      BY <1>8
    <3> QED
      BY <1>1, <3>1
  <2>2. ref[<<s, Passes[i][2]>>] # None
    BY <1>4, <2>1 DEF ResolvedSoFar, Resolved
  <2> QED
    BY <1>6, <1>8, <2>2
<1> QED
  BY <1>7, <1>8

\* The list of the validator that has a statement.
ListWith(s) ==
    IF Said[s].class = "argument" THEN {a \in Children(Front(s), {"argument"}) : Said[a].list = Said[s].list}
                                  ELSE Children(Front(s), {Said[s].class})

LEMMA ListedFacts ==
    ASSUME Typed, made = {}, NEW s \in Listed
    PROVE  /\ \E r \in Of({"interface"}) : ListWith(s) \in Lists(r)
           /\ s \in ListWith(s)
           /\ \A t \in Listed : SameList(s, t) => t \in ListWith(s)
<1>1. \A t \in Listed : /\ t \in files /\ Said[t].class \in OperationClasses \cup {"attribute"}
                        /\ t \in Statement
  BY TypedFacts DEF Listed, Of, FilesFit
<1>2. \A t \in Statement : t \in Seq(Label)
  BY LabelSequences
<1>3. ASSUME NEW t \in files, t \in Statement, Len(t) > 1
      PROVE  Front(t) # t /\ t \in Children(Front(t), {Said[t].class}) /\ Front(t) \in files
  <2>1. Len(Front(t)) = Len(t) - 1
    BY <1>2, <1>3 DEF Front
  <2>2. Len(t) \in Nat
    BY <1>2, <1>3
  <2>3. Front(t) # t
    BY <2>1, <2>2
  <2>4. Front(t) \in files
    BY <1>3, TypedFacts
  <2>5. Owner(t) = Front(t) /\ ClassOf(t) = Said[t].class /\ t \in Elements
    BY DEF Owner, ClassOf, Elements
  <2> QED
    BY <2>3, <2>4, <2>5 DEF Children
<1>4. \A t \in Listed : Len(t) > 1
  <2>1. \A t \in Listed : Said[t].class \in MemberClasses \/ Said[t].class = "argument"
    BY <1>1 DEF MemberClasses, OperationClasses
  <2> QED
    BY <1>1, <2>1, DeploymentAssumption
<1>5. s \in files /\ s \in Statement /\ Front(s) \in files /\ s \in Children(Front(s), {Said[s].class})
  BY <1>1, <1>3, <1>4
<1>6. s \in ListWith(s)
  BY <1>5 DEF ListWith
<1>7. ASSUME NEW t \in Listed, SameList(s, t) PROVE t \in ListWith(s)
  <2>1. t \in Children(Front(t), {Said[t].class})
    BY <1>1, <1>3, <1>4
  <2> QED
    BY <1>7, <2>1 DEF SameList, ListWith
<1>8. \E r \in Of({"interface"}) : ListWith(s) \in Lists(r)
  <2>1. CASE Said[s].class \in MemberClasses
    <3>1. Said[Front(s)].class = "interface"
      BY <1>5, <2>1, DeploymentAssumption
    <3>2. Front(s) \in Of({"interface"})
      BY <1>5, <3>1 DEF Of
    <3>3. ListWith(s) = Children(Front(s), {Said[s].class})
      BY <2>1 DEF ListWith, MemberClasses
    <3>4. ListWith(s) \in Lists(Front(s))
      BY <2>1, <3>3 DEF Lists
    <3> QED
      BY <3>2, <3>4
  <2>2. CASE Said[s].class = "argument"
    <3> DEFINE m == Front(s)
    <3>1. Said[m].class \in {"method", "broadcast"} /\ Said[s].list \in {"in", "out"}
      BY <1>5, <2>2, DeploymentAssumption
    <3>2. m \in Statement /\ Len(m) > 1 /\ Said[Front(m)].class = "interface"
      BY <1>5, <3>1, TypedFacts, DeploymentAssumption DEF FilesFit, MemberClasses
    <3>3. Front(m) \in Of({"interface"}) /\ m \in Children(Front(m), {Said[m].class})
      BY <1>3, <1>5, <3>2 DEF Of
    <3>4. m \in Children(Front(m), {"method", "broadcast"})
      BY <3>1, <3>3 DEF Children
    <3>5. ListWith(s) \in ArgumentLists(m)
      BY <2>2, <3>1 DEF ListWith, ArgumentLists
    <3>6. ListWith(s) \in Lists(Front(m))
      BY <3>4, <3>5 DEF Lists
    <3> QED
      BY <3>3, <3>6
  <2> QED
    BY <1>1, <2>1, <2>2 DEF MemberClasses, OperationClasses
<1> QED
  BY <1>6, <1>7, <1>8

LEMMA ValidateValidates ==
    ASSUME Typed, ResolvedSoFar, Validate
    PROVE  Validated'
<1>1. made = {} /\ pass = 25 /\ files' = files /\ ref' = ref
  BY PassesFacts DEF Validate, Typed, PhasesFit
<1>2. failed' = (failed \/ \E r \in Of(RootClasses) : FaultyRoot(r))
  BY DEF Validate
<1>3. Listed' = Listed
  BY <1>1 DEF Listed, Of
<1> SUFFICES ASSUME ~failed'
             PROVE  /\ \A s \in Listed : ref[<<s, "target">>] # None
                    /\ \A s1, s2 \in Listed : SameList(s1, s2) => ref[<<s1, "target">>] # ref[<<s2, "target">>]
  BY <1>1, <1>3 DEF Validated, SameList
<1>4. \A t : Target(t) = ref[<<t, "target">>]
  BY <1>1 DEF Target
<1>5. ASSUME NEW r \in Of({"interface"}) PROVE \A list \in Lists(r) : ~Faulty(list)
  <2>1. r \in Of({"interface", "types"}) /\ r \in Of(RootClasses) /\ r \in files /\ r \in Statement
        /\ Said[r].class = "interface"
    BY <1>5, TypedFacts DEF Of, RootClasses, FilesFit
  <2>2. ~FaultyRoot(r)
    BY <1>2, <2>1
  <2>3. Target(r) # None
    <3>1. PICK i \in 1..25 : Passes[i] = <<"interface", "target">>
      <4>1. <<"interface", "target">> \in Range(Passes)
        BY PassesHave
      <4> QED
        BY <4>1, PassesFacts DEF Range
    <3>2. Resolved(i) /\ Passes[i][1] = "interface" /\ Passes[i][2] = "target"
      <4>1. ~failed /\ i \in 1..pass
        BY <1>1, <1>2
      <4> QED
        BY <3>1, <4>1 DEF ResolvedSoFar
    <3>3. Candidates(r, "target") = {Said[r].target} \ {None}
      BY <2>1 DEF Candidates, RootClasses
    <3>4. Said[r].target # None
      BY <2>1, DeploymentAssumption
    <3>5. ref[<<r, "target">>] # None
      BY <1>5, <3>2, <3>3, <3>4 DEF Resolved, OperationClasses
    <3> QED
      BY <1>4, <3>5
  <2>4. SpecOf(r) # None
    BY <2>2 DEF FaultyRoot
  <2>5. Complete(r)
    BY <2>3, <2>4 DEF Complete
  <2> QED
    BY <2>1, <2>2, <2>5 DEF FaultyRoot
<1>6. ASSUME NEW s \in Listed
      PROVE  /\ ref[<<s, "target">>] # None
             /\ \A t \in Listed : SameList(s, t) => ref[<<s, "target">>] # ref[<<t, "target">>]
  <2>1. ~Faulty(ListWith(s)) /\ s \in ListWith(s)
        /\ \A t \in Listed : SameList(s, t) => t \in ListWith(s)
    BY <1>1, <1>5, ListedFacts
  <2>2. \A e \in ListWith(s) : Target(e) # None
    BY <2>1 DEF Faulty
  <2>3. ASSUME NEW t \in Listed, SameList(s, t) PROVE Target(s) # Target(t)
    <3>1. t \in ListWith(s) /\ s # t
      BY <2>1, <2>3 DEF SameList
    <3> QED
      BY <2>1, <2>2, <3>1 DEF Faulty
  <2> QED
    BY <1>4, <2>1, <2>2, <2>3
<1> QED
  BY <1>6

LEMMA StepJudged == Judged /\ [Next]_vars => Judged'
<1> SUFFICES ASSUME Judged, [Next]_vars PROVE Judged'
  OBVIOUS
<1>1. Typed /\ ResolvedSoFar /\ Validated /\ (phase = "accepted" => ~failed) /\ Typed'
  BY StepTyped DEF Judged
<1>2. CASE Resolve
  <2>1. phase = "resolve" /\ phase' \in {"resolve", "validate", "overflow"}
    BY <1>2 DEF Resolve
  <2>2. Validated'
    BY <2>1 DEF Validated
  <2> QED
    BY <1>1, <1>2, <2>1, <2>2, ResolveResolves DEF Judged
<1>3. CASE Validate
  <2>1. files' = files /\ ref' = ref /\ pass' = pass /\ (failed => failed') /\ phase' = "map"
    BY <1>3 DEF Validate
  <2>2. ResolvedSoFar'
    BY <1>1, <2>1 DEF ResolvedSoFar, Resolved, Of
  <2> QED
    BY <1>1, <1>3, <2>1, <2>2, ValidateValidates DEF Judged
<1>4. CASE \/ SkipRoot \/ MapTypes \/ StartMapper \/ VisitUse \/ FinishMapper \/ MapEndless \/ Decide
           \/ UNCHANGED vars
  <2>1. /\ files' = files /\ ref' = ref /\ pass' = pass /\ failed' = failed
        /\ phase' \in {"map", "use", "accepted"} => phase \in {"map", "use", "accepted"}
        /\ phase' = "accepted" => phase = "accepted" \/ ~failed
    BY <1>4 DEF SkipRoot, MapTypes, StartMapper, VisitUse, FinishMapper, MapEndless, Decide, vars
  <2>2. Listed' = Listed /\ \A i : Of({Passes[i][1]})' = Of({Passes[i][1]})
    BY <2>1 DEF Listed, Of
  <2>3. ResolvedSoFar'
    BY <1>1, <2>1, <2>2 DEF ResolvedSoFar, Resolved
  <2>4. Validated'
    BY <1>1, <2>1, <2>2 DEF Validated, SameList
  <2> QED
    BY <1>1, <2>1, <2>3, <2>4 DEF Judged
<1> QED
  BY <1>2, <1>3, <1>4 DEF Next

LEMMA JudgedIsSound == Judged => AcceptedIsSound
<1> SUFFICES ASSUME Judged, phase = "accepted"
             PROVE  /\ \A r \in References : Candidates(r[1], r[2]) # {} => ref[r] # None
                    /\ \A s \in files :
                           /\ Said[s].class \in Parts \cup TypeClasses \cup OperationClasses \cup {"attribute"}
                           => Class[Target(s)] = Said[s].class
                    /\ \A s1, s2 \in Listed :
                           s1 # s2 /\ Front(s1) = Front(s2) /\ Target(s1) = Target(s2)
                           => Said[s1].class = "argument" /\ Said[s1].list # Said[s2].list
  BY DEF AcceptedIsSound, Listed
<1>1. /\ FilesFit /\ RefsFit /\ made \cap files = {} /\ pass = 25
      /\ \A i \in 1..25 : Resolved(i)
      /\ \A s \in Listed : ref[<<s, "target">>] # None
      /\ \A s1, s2 \in Listed : SameList(s1, s2) => ref[<<s1, "target">>] # ref[<<s2, "target">>]
  <2>1. Typed /\ ~failed /\ ResolvedSoFar /\ Validated
    BY DEF Judged
  <2>2. FilesFit /\ RefsFit
    BY <2>1, TypedFacts
  <2>3. pass = 25 /\ made \cap files = {}
    BY <2>1, PassesFacts DEF Typed, PhasesFit, TypeOK
  <2> QED
    BY <2>1, <2>2, <2>3 DEF ResolvedSoFar, Validated
<1>2. \A s \in files : Target(s) = ref[<<s, "target">>]
  BY <1>1 DEF Target
<1>3. ASSUME NEW r \in References, Candidates(r[1], r[2]) # {} PROVE ref[r] # None
  <2>1. r = <<r[1], r[2]>> /\ r[1] \in files
    BY ReferenceIs
  <2>2. PICK i \in 1..25 : Passes[i] = <<Said[r[1]].class, r[2]>>
    BY ReferenceIs
  <2>3. r[1] \in Of({Passes[i][1]}) /\ Passes[i][1] = Said[r[1]].class /\ Passes[i][2] = r[2]
    BY <2>1, <2>2 DEF Of
  <2>4. CASE Passes[i][1] \notin OperationClasses
    <3>1. Resolved(i)
      BY <1>1
    <3>2. ref[<<r[1], r[2]>>] # None
      BY <1>3, <2>3, <2>4, <3>1 DEF Resolved
    <3> QED
      BY <2>1, <3>2
  <2>5. CASE Passes[i][1] \in OperationClasses
    <3>1. r[2] = "target"
      BY <2>3, <2>5 DEF Passes, OperationClasses
    <3>2. r[1] \in Listed
      BY <2>1, <2>3, <2>5 DEF Listed, Of
    <3>3. ref[<<r[1], "target">>] # None
      BY <1>1, <3>2
    <3> QED
      BY <2>1, <3>1, <3>3
  <2> QED
    BY <2>4, <2>5
<1>4. ASSUME NEW s \in files,
             Said[s].class \in Parts \cup TypeClasses \cup OperationClasses \cup {"attribute"}
      PROVE  Class[Target(s)] = Said[s].class
  <2> DEFINE class == Said[s].class
  <2>1. <<s, "target">> \in References
    BY <1>4, IsReference, PassesHave
  <2>2. ref[<<s, "target">>] # None
    <3>1. CASE class \in OperationClasses \cup {"attribute"}
      <4>1. s \in Listed
        BY <3>1 DEF Listed, Of
      <4> QED
        BY <1>1, <4>1
    <3>2. CASE class \in Parts \cup TypeClasses
      <4>1. class \notin RootClasses \cup {"instance", "interfaceValue"}
        BY <3>2 DEF Parts, TypeClasses, RootClasses
      <4>2. Path[s] \in Candidates(s, "target")
        BY <4>1 DEF Candidates
      <4> QED
        BY <1>3, <2>1, <4>2
    <3> QED
      BY <1>4, <3>1, <3>2
  <2>3. ref[<<s, "target">>] \in {o \in Object : Class[o] \in TargetKinds(class)} \cup {None}
    BY <1>1, <2>1 DEF RefsFit, Fits
  <2>4. TargetKinds(class) = {class}
    BY <1>4 DEF TargetKinds, Parts, TypeClasses, OperationClasses
  <2> QED
    BY <1>2, <2>2, <2>3, <2>4
<1>5. ASSUME NEW s1 \in Listed, NEW s2 \in Listed,
             s1 # s2, Front(s1) = Front(s2), Target(s1) = Target(s2)
      PROVE  Said[s1].class = "argument" /\ Said[s1].list # Said[s2].list
  <2>1. s1 \in files /\ s2 \in files /\ Said[s1].class \in OperationClasses \cup {"attribute"}
        /\ Said[s2].class \in OperationClasses \cup {"attribute"}
    BY DEF Listed, Of
  <2>2. Said[s1].class = Said[s2].class
    BY <1>4, <1>5, <2>1
  <2>3. ~SameList(s1, s2)
    BY <1>1, <1>2, <1>5, <2>1
  <2> QED
    BY <1>5, <2>2, <2>3 DEF SameList
<1> QED
  BY <1>3, <1>4, <1>5

\* AcceptedIsSound of Deployment: in files that are accepted every reference is resolved, to
\* something of its own class, and no list of members or arguments deploys one twice.
THEOREM AcceptedSound == Spec => []AcceptedIsSound
<1>1. Init => Judged
  <2>1. Init => phase = "resolve" /\ pass = 0
    BY DEF Init
  <2>2. phase = "resolve" /\ pass = 0 => ResolvedSoFar /\ Validated /\ phase # "accepted"
    BY DEF ResolvedSoFar, Validated
  <2> QED
    BY <2>1, <2>2, InitTyped DEF Judged
<1> QED
  BY <1>1, StepJudged, JudgedIsSound, PTL DEF Spec

-----------------------------------------------------------------------------
(* Mappers are complete.                                                   *)

\* What a deployment uses, and the type collections among it.
Used(x) == {ref[<<u, "use">>] : u \in {s \in files \ {x} : Front(s) = x /\ Said[s].class \in UseClasses}}
           \ {None}
UsedTypes(x) == {y \in Used(x) : Said[y].class = "types"}

\* A mapping has what it is to have of each of a set of deployments.
HasAll(m, V) == \A x \in V : Goal(x) # None => Covers(m, Goal(x))

\* What has been visited: all of it is mapped, and what it uses is visited or waits.
UnderWay(r) ==
    /\ \A x \in visited \cup {r} : UsedTypes(x) \subseteq visited \cup Range(work)
    /\ HasAll(mapping[r], visited)

\* What a mapper leaves behind: a set of type collections that has all that is used in it.
Finished(r) == Said[r].class \in {"interface", "types"} /\ Goal(r) # None =>
    /\ Covers(mapping[r], Goal(r))
    /\ Said[r].class = "interface" =>
           \E V \in SUBSET Of({"types"}) : /\ \A x \in V \cup {r} : UsedTypes(x) \subseteq V
                                           /\ HasAll(mapping[r], V)

\* No deployment is left out, and all but the one whose mapper is at work are finished.
NoneLeftOut ==
    /\ phase \in {"map", "use", "accepted"} =>
           /\ Of({"interface", "types"}) \subseteq Range(todo) \cup DOMAIN mapping
           /\ \A r \in DOMAIN mapping : ~(phase = "use" /\ r = Head(todo)) => Finished(r)
    /\ phase = "use" => UnderWay(Head(todo))
    /\ phase = "accepted" => todo = <<>>

LEMMA UsedFacts ==
    ASSUME FilesFit, RefsFit, MadeFit, NEW x
    PROVE  /\ Used(x) \subseteq Of(RootClasses) /\ UsedTypes(x) \subseteq Of({"types"})
           /\ Range(Uses(x)) = Used(x)
           /\ \A u \in Children(x, UseClasses) :
                  u \in files /\ Said[u].class \in UseClasses /\ ref[<<u, "use">>] \in Used(x) \cup {None}
<1> DEFINE us == {s \in files \ {x} : Front(s) = x /\ Said[s].class \in UseClasses}
<1>1. Children(x, UseClasses) = us
  <2>1. \A s \in files : Inside(s) = Front(s) /\ Kind(s) = Said[s].class /\ s \in Elements
    BY DEF Inside, Kind, Elements
  <2>2. Children(x, UseClasses) \subseteq files /\ \A s \in Children(x, UseClasses) : s # x
    BY UsesFacts DEF Children
  <2> QED
    BY <2>1, <2>2, ChildrenFacts
<1>2. Used(x) = {ref[<<u, "use">>] : u \in us} \ {None}
  BY DEF Used
<1>3. Range(Uses(x)) = Used(x) /\ Uses(x) \in Seq(Of(RootClasses))
  BY <1>1, <1>2, UsesFacts
<1>4. Used(x) \subseteq Of(RootClasses)
  BY <1>3 DEF Range
<1>5. UsedTypes(x) \subseteq Of({"types"})
  BY <1>4 DEF UsedTypes, Of
<1> QED
  BY <1>1, <1>2, <1>3, <1>4, <1>5

LEMMA CoversGrows ==
    ASSUME NEW m, NEW p, Grows(m, p), NEW c \in Object, Covers(m, c)
    PROVE  Covers(p, c)
<1>1. Content(c) \subseteq Object
  BY DEF Content
<1> QED
  BY <1>1 DEF Covers, Grows

LEMMA HasAllGrows ==
    ASSUME FilesFit, RefsFit, NEW m, NEW p, Grows(m, p), NEW V \in SUBSET Of({"types"}), HasAll(m, V)
    PROVE  HasAll(p, V)
<1>1. ASSUME NEW x \in V, Goal(x) # None PROVE Covers(p, Goal(x))
  <2>1. x \in Of({"interface", "types"})
    BY DEF Of
  <2>2. Goal(x) \in Object
    BY <1>1, <2>1, RootFacts
  <2> QED
    BY <1>1, <2>2, CoversGrows DEF HasAll
<1> QED
  BY <1>1 DEF HasAll

LEMMA SettledUses ==
    ASSUME files' = files, ref' = ref
    PROVE  /\ \A x : UsedTypes(x)' = UsedTypes(x)
           /\ \A m, c : Covers(m, c)' = Covers(m, c)
           /\ \A m, V : HasAll(m, V)' = HasAll(m, V)
<1>1. \A x : Used(x)' = Used(x)
  BY DEF Used
<1>2. \A x : UsedTypes(x)' = UsedTypes(x)
  BY <1>1 DEF UsedTypes
<1>3. \A e : Goal(e)' = Goal(e)
  BY Settled
<1>4. \A m, V : HasAll(m, V)' = HasAll(m, V)
  BY <1>3 DEF HasAll
<1> QED
  BY <1>2, <1>4

LEMMA ListRanges ==
    ASSUME NEW T, NEW s \in Seq(T), NEW t \in Seq(T)
    PROVE  /\ Range(s \o t) = Range(s) \cup Range(t) /\ Range(<<>>) = {}
           /\ s # <<>> => Head(s) \in T /\ Tail(s) \in Seq(T) /\ Range(s) = {Head(s)} \cup Range(Tail(s))
<1>1. ElementsOf(s \o t) = ElementsOf(s) \cup ElementsOf(t)
  BY ConcatContents
<1>2. s # <<>> => Head(s) \in T /\ Tail(s) \in Seq(T) /\ ElementsOf(s) = {Head(s)} \cup ElementsOf(Tail(s))
  BY TailContents DEF ElementsOf
<1>3. \A l : Range(l) = ElementsOf(l)
  BY DEF Range, ElementsOf
<1>4. Range(<<>>) = {}
  BY DEF Range
<1> QED
  BY <1>1, <1>2, <1>3, <1>4

\* What the others left behind stays as one mapper stores its mapping.
LEMMA OthersFinished ==
    ASSUME Typed, files' = files, ref' = ref, todo # <<>>, NEW m \in Mappings, Store(m),
           NEW d \in DOMAIN mapping \ {Head(todo)}, Finished(d)
    PROVE  Finished(d)'
<1>1. mapping'[d] = mapping[d]
  BY StoreFacts
<1>2. /\ \A e : Goal(e)' = Goal(e)
      /\ \A classes : Of(classes)' = Of(classes)
  BY Settled
<1>3. /\ \A x : UsedTypes(x)' = UsedTypes(x)
      /\ \A p, c : Covers(p, c)' = Covers(p, c)
      /\ \A p, V : HasAll(p, V)' = HasAll(p, V)
  BY SettledUses
<1>4. Covers(mapping[d], Goal(d))' = Covers(mapping[d], Goal(d))
  BY <1>1, <1>2 DEF Covers
<1>5. ASSUME NEW V PROVE HasAll(mapping[d], V)' = HasAll(mapping[d], V)
  BY <1>1, <1>2 DEF HasAll, Covers
<1> QED
  BY <1>2, <1>3, <1>4, <1>5 DEF Finished

LEMMA ValidateLeavesNone ==
    ASSUME Typed, NoneLeftOut, Validate
    PROVE  NoneLeftOut'
<1>1. /\ phase' = "map" /\ mapping' = mapping /\ files' = files /\ mapping = <<>>
      /\ todo' = Ordered(Of(RootClasses))
  BY DEF Validate, Typed, PhasesFit
<1>2. Of(RootClasses) \in SUBSET Statement
  BY TypedFacts, OfFacts
<1>3. Range(todo') = Of(RootClasses)
  BY <1>1, <1>2, OrderedIsAll
<1>4. Range(todo)' = Of(RootClasses)
  BY <1>3 DEF Range
<1>5. Of({"interface", "types"})' \subseteq Of(RootClasses)
  BY <1>1 DEF Of, RootClasses
<1>6. DOMAIN mapping' = {}
  BY <1>1
<1> QED
  BY <1>1, <1>4, <1>5, <1>6 DEF NoneLeftOut

LEMMA SkipRootLeavesNone ==
    ASSUME Typed, NoneLeftOut, SkipRoot
    PROVE  NoneLeftOut'
<1> PICK r : r = Head(todo)
  OBVIOUS
<1>1. /\ files' = files /\ ref' = ref /\ phase = "map" /\ phase' = "map" /\ todo # <<>> /\ made' = made
      /\ todo' = Tail(todo) /\ mapping' = Mapped(r, Nothing)
      /\ Said[r].class = "extension" \/ Target(r) = None
  BY DEF SkipRoot
<1>2. r \in Of(RootClasses) /\ r \in files /\ Range(todo) = {r} \cup Range(todo')
  BY <1>1, ListRanges DEF Typed, TypeOK, Of
<1>3. DOMAIN mapping' = DOMAIN mapping \cup {r}
      /\ \A d \in DOMAIN mapping \ {r} : mapping'[d] = mapping[d]
  BY <1>1 DEF Mapped
<1>4. /\ \A e : Goal(e)' = Goal(e)
      /\ \A classes : Of(classes)' = Of(classes)
      /\ \A x : UsedTypes(x)' = UsedTypes(x)
  BY <1>1, Settled, SettledUses
<1>5. Finished(r)'
  <2>1. Target(r) = Goal(r)
    BY <1>2, TypedFacts, ElementFacts DEF Elements
  <2>2. Said[r].class = "extension" \/ Goal(r)' = None
    BY <1>1, <1>4, <2>1
  <2> QED
    BY <2>2 DEF Finished
<1>6. ASSUME NEW d \in DOMAIN mapping \ {r} PROVE Finished(d)'
  <2>1. Finished(d)
    BY <1>1, <1>6 DEF NoneLeftOut
  <2>2. \A V : HasAll(mapping[d], V)' = HasAll(mapping[d], V)
    BY <1>3, <1>4, <1>6 DEF HasAll, Covers
  <2>3. Covers(mapping[d], Goal(d))' = Covers(mapping[d], Goal(d))
    BY <1>3, <1>4, <1>6 DEF Covers
  <2> QED
    BY <1>4, <2>1, <2>2, <2>3 DEF Finished
<1>7. Range(todo)' = Range(todo')
  BY DEF Range
<1> QED
  BY <1>1, <1>2, <1>3, <1>4, <1>5, <1>6, <1>7 DEF NoneLeftOut

LEMMA MapTypesLeavesNone ==
    ASSUME Typed, NoneLeftOut, MapTypes
    PROVE  NoneLeftOut'
<1> PICK r : r = Head(todo)
  OBVIOUS
<1> DEFINE m == PlaceCollection(r, Nothing, r)
<1>1. /\ files' = files /\ ref' = ref /\ phase = "map" /\ phase' = "map" /\ todo # <<>>
      /\ todo' = Tail(todo) /\ Said[r].class = "types" /\ Target(r) # None /\ Store(m)
  BY DEF MapTypes
<1>2. r \in Of(RootClasses) /\ r \in files /\ Range(todo) = {r} \cup Range(todo')
  BY <1>1, ListRanges DEF Typed, TypeOK, Of
<1>3. m \in Mappings /\ Covers(m, Goal(r))
  <2>1. Target(r) = Goal(r) /\ r \in Of({"interface", "types"})
    BY <1>1, <1>2, TypedFacts, ElementFacts DEF Of, Elements
  <2>2. Goal(r) \in Object /\ Class[Goal(r)] = "typeCollection"
    BY <1>1, <2>1, TypedFacts, RootFacts
  <2> QED
    BY <1>2, <2>2, TypedFacts, NothingIsMapping, PlaceCollectionFacts
<1> HIDE DEF m
<1>4. DOMAIN mapping' = DOMAIN mapping \cup {r} /\ mapping'[r] = m
  BY <1>1, <1>3, StoreFacts
<1>5. Finished(r)'
  <2>1. Goal(r)' = Goal(r)
    BY <1>1, Settled
  <2>2. Covers(mapping[r], Goal(r))'
    BY <1>3, <1>4, <2>1 DEF Covers
  <2> QED
    BY <1>1, <2>2 DEF Finished
<1>6. ASSUME NEW d \in DOMAIN mapping \ {r} PROVE Finished(d)'
  <2>1. Finished(d)
    BY <1>1, <1>6 DEF NoneLeftOut
  <2> QED
    BY <1>1, <1>3, <1>6, <2>1, OthersFinished
<1>7. Range(todo)' = Range(todo') /\ Of({"interface", "types"})' = Of({"interface", "types"})
  BY <1>1 DEF Range, Of
<1> QED
  BY <1>1, <1>2, <1>4, <1>5, <1>6, <1>7 DEF NoneLeftOut

LEMMA StartMapperLeavesNone ==
    ASSUME Typed, NoneLeftOut, StartMapper
    PROVE  NoneLeftOut'
<1> PICK r : r = Head(todo)
  OBVIOUS
<1> DEFINE m == PlaceTypes(Nothing, r)
<1>1. /\ files' = files /\ ref' = ref /\ phase = "map" /\ phase' = "use" /\ todo # <<>>
      /\ todo' = todo /\ work' = Uses(r) /\ visited' = {} /\ Store(m)
  BY DEF StartMapper
<1>2. m \in Mappings
  BY TypedFacts, NothingIsMapping, PlaceTypesFacts
<1> HIDE DEF m
<1>3. DOMAIN mapping' = DOMAIN mapping \cup {r}
  BY <1>1, <1>2, StoreFacts
<1>4. ASSUME NEW d \in DOMAIN mapping \ {r} PROVE Finished(d)'
  <2>1. Finished(d)
    BY <1>1, <1>4 DEF NoneLeftOut
  <2> QED
    BY <1>1, <1>2, <1>4, <2>1, OthersFinished
<1>5. UnderWay(r)'
  <2>1. UsedTypes(r)' \subseteq Range(work)'
    <3>1. Range(work)' = Range(Uses(r))
      BY <1>1 DEF Range
    <3>2. UsedTypes(r)' = UsedTypes(r) /\ UsedTypes(r) \subseteq Used(r)
      BY <1>1, SettledUses DEF UsedTypes
    <3> QED
      BY <3>1, <3>2, TypedFacts, UsedFacts
  <2> QED
    BY <1>1, <2>1 DEF UnderWay, HasAll
<1>6. Range(todo)' = Range(todo) /\ Of({"interface", "types"})' = Of({"interface", "types"})
  BY <1>1 DEF Range, Of
<1>7. Head(todo') = r
  BY <1>1
<1> QED
  BY <1>1, <1>3, <1>4, <1>5, <1>6, <1>7 DEF NoneLeftOut

LEMMA VisitUseLeavesNone ==
    ASSUME Typed, NoneLeftOut, VisitUse
    PROVE  NoneLeftOut'
<1> PICK r : r = Head(todo)
  OBVIOUS
<1> PICK x : x = Head(work)
  OBVIOUS
<1> DEFINE fresh == Said[x].class = "types" /\ x \notin visited
           m     == PlaceCollection(r, mapping[r], x)
<1>1. /\ files' = files /\ ref' = ref /\ phase = "use" /\ phase' = "use" /\ todo # <<>> /\ todo' = todo
      /\ work # <<>> /\ r \in DOMAIN mapping
      /\ work' = Tail(work) \o (IF fresh THEN Uses(x) ELSE <<>>)
      /\ visited' = IF fresh THEN visited \cup {x} ELSE visited
      /\ visited \subseteq Of({"types"})
  BY DEF VisitUse, Typed, PhasesFit, TypeOK
<1>2. UnderWay(r)
  BY <1>1 DEF NoneLeftOut
<1>3. x \in Of(RootClasses) /\ x \in files /\ r \in Of(RootClasses)
  BY <1>1 DEF Typed, TypeOK, Of
<1>4. /\ Range(work) = {x} \cup Range(Tail(work))
      /\ Range(work)' = Range(Tail(work)) \cup (IF fresh THEN Used(x) ELSE {})
  <2> DEFINE more == IF fresh THEN Uses(x) ELSE <<>>
  <2>1. more \in Seq(Of(RootClasses)) /\ Range(more) = IF fresh THEN Used(x) ELSE {}
    <3>1. Uses(x) \in Seq(Of(RootClasses)) /\ Range(Uses(x)) = Used(x)
      BY TypedFacts, UsesFacts, UsedFacts
    <3>2. Range(<<>>) = {} /\ <<>> \in Seq(Of(RootClasses))
      BY DEF Range
    <3>3. CASE fresh
      BY <3>1, <3>3
    <3>4. CASE ~fresh
      <4>1. more = <<>>
        BY <3>4
      <4> HIDE DEF more, fresh
      <4> QED
        BY <3>2, <3>4, <4>1
    <3> QED
      BY <3>3, <3>4
  <2>2. work \in Seq(Of(RootClasses))
    BY DEF Typed, TypeOK
  <2>3. Tail(work) \in Seq(Of(RootClasses)) /\ Range(work) = {x} \cup Range(Tail(work))
    BY <1>1, <2>2, ListRanges
  <2>4. Range(work') = Range(Tail(work)) \cup Range(more)
    <3> HIDE DEF more
    <3>1. \A s, t \in Seq(Of(RootClasses)) : Range(s \o t) = Range(s) \cup Range(t)
      BY ListRanges
    <3>2. Range(Tail(work) \o more) = Range(Tail(work)) \cup Range(more)
      BY <2>1, <2>3, <3>1
    <3> QED
      BY <1>1, <3>2 DEF more
  <2>5. Range(work)' = Range(work')
    BY DEF Range
  <2> QED
    BY <2>1, <2>3, <2>4, <2>5
<1>5. /\ mapping[r] \in Mappings /\ DOMAIN mapping' = DOMAIN mapping /\ Grows(mapping[r], mapping'[r])
      /\ fresh /\ Goal(x) # None => Covers(mapping'[r], Goal(x))
      /\ \A d \in DOMAIN mapping \ {r} : Finished(d)'
  <2>1. mapping[r] \in Mappings
    BY <1>1 DEF Typed, MappingsFit
  <2>2. Target(x) = Goal(x)
    BY <1>3, TypedFacts, ElementFacts DEF Elements
  <2>3. \A d \in DOMAIN mapping \ {r} : Finished(d)
    BY <1>1 DEF NoneLeftOut
  <2>4. CASE fresh /\ Target(x) # None
    <3>1. Store(m)
      BY <2>4 DEF VisitUse
    <3>2. x \in Of({"interface", "types"})
      BY <1>3, <2>4 DEF Of
    <3>3. Goal(x) \in Object /\ Class[Goal(x)] = "typeCollection"
      BY <2>2, <2>4, <3>2, TypedFacts, RootFacts
    <3>4. m \in Mappings /\ Grows(mapping[r], m) /\ Covers(m, Goal(x))
      BY <1>3, <2>1, <3>3, TypedFacts, PlaceCollectionFacts
    <3> HIDE DEF m
    <3>5. DOMAIN mapping' = DOMAIN mapping \cup {r} /\ mapping'[r] = m
      BY <1>1, <3>1, <3>4, StoreFacts
    <3>6. \A d \in DOMAIN mapping \ {r} : Finished(d)'
      BY <1>1, <2>3, <3>1, <3>4, OthersFinished
    <3> QED
      BY <1>1, <2>1, <3>4, <3>5, <3>6
  <2>5. CASE ~(fresh /\ Target(x) # None)
    <3>1. mapping' = mapping
      BY <2>5 DEF VisitUse
    <3>2. /\ \A V : HasAll(mapping, V)' = HasAll(mapping, V)
          /\ \A e : Goal(e)' = Goal(e) /\ UsedTypes(e)' = UsedTypes(e)
          /\ \A classes : Of(classes)' = Of(classes)
      BY <1>1, <3>1, Settled, SettledUses DEF HasAll, Covers
    <3>3. \A d \in DOMAIN mapping \ {r} : Finished(d)'
      BY <2>3, <3>1, <3>2 DEF Finished, HasAll, Covers
    <3>4. Grows(mapping[r], mapping'[r])
      BY <3>1 DEF Grows
    <3> QED
      BY <2>1, <2>2, <2>5, <3>1, <3>3, <3>4
  <2> QED
    BY <2>4, <2>5
<1>6. UnderWay(r)'
  <2>1. \A y : UsedTypes(y)' = UsedTypes(y)
    BY <1>1, SettledUses
  <2>2. UsedTypes(x) \subseteq Used(x)
    BY DEF UsedTypes
  <2>3. visited \subseteq visited'
    BY <1>1
  <2>4. ASSUME NEW y \in visited \cup Range(work), Said[y].class = "types"
        PROVE  y \in visited' \cup Range(work)'
    <3>1. CASE y = x
      BY <1>1, <3>1, <2>4
    <3>2. CASE y # x
      BY <1>4, <2>3, <2>4, <3>2
    <3> QED
      BY <3>1, <3>2
  <2>5. ASSUME NEW z \in visited' \cup {r} PROVE UsedTypes(z)' \subseteq visited' \cup Range(work)'
    <3>1. CASE z \in visited \cup {r}
      <4>1. UsedTypes(z) \subseteq visited \cup Range(work) /\ \A y \in UsedTypes(z) : Said[y].class = "types"
        BY <1>2, <3>1 DEF UnderWay, UsedTypes
      <4> QED
        BY <2>1, <2>4, <4>1
    <3>2. CASE z \notin visited \cup {r}
      <4>1. fresh /\ z = x
        BY <1>1, <2>5, <3>2
      <4>2. Used(x) \subseteq Range(work)'
        BY <1>4, <4>1
      <4> QED
        BY <2>1, <2>2, <4>1, <4>2
    <3> QED
      BY <3>1, <3>2
  <2>6. HasAll(mapping[r], visited)'
    <3>1. HasAll(mapping[r], visited)
      BY <1>2 DEF UnderWay
    <3>2. HasAll(mapping'[r], visited)
      BY <1>1, <1>5, <3>1, TypedFacts, HasAllGrows
    <3>3. HasAll(mapping'[r], visited')
      BY <1>1, <1>5, <3>2 DEF HasAll
    <3>4. \A e : Goal(e)' = Goal(e)
      BY <1>1, Settled
    <3> QED
      BY <3>3, <3>4 DEF HasAll, Covers
  <2> QED
    BY <2>5, <2>6 DEF UnderWay
<1>7. Range(todo)' = Range(todo) /\ Of({"interface", "types"})' = Of({"interface", "types"})
      /\ Head(todo') = r
  BY <1>1 DEF Range, Of
<1>8. Of({"interface", "types"}) \subseteq Range(todo) \cup DOMAIN mapping
  BY <1>1 DEF NoneLeftOut
<1> QED
  BY <1>1, <1>5, <1>6, <1>7, <1>8 DEF NoneLeftOut

LEMMA FinishMapperLeavesNone ==
    ASSUME Typed, NoneLeftOut, FinishMapper
    PROVE  NoneLeftOut'
<1> PICK r : r = Head(todo)
  OBVIOUS
<1> DEFINE m == PlaceInterface(mapping[r], r)
<1>1. /\ files' = files /\ ref' = ref /\ phase = "use" /\ phase' = "map" /\ todo # <<>>
      /\ todo' = Tail(todo) /\ work = <<>> /\ Said[r].class = "interface" /\ r \in DOMAIN mapping
      /\ visited \subseteq Of({"types"}) /\ ref[<<r, "target">>] # None /\ Store(m)
  BY DEF FinishMapper, Typed, PhasesFit, TypeOK
<1>2. UnderWay(r) /\ mapping[r] \in Mappings
  BY <1>1 DEF NoneLeftOut, Typed, MappingsFit
<1>3. r \in Of(RootClasses) /\ r \in Of({"interface", "types"}) /\ Range(todo) = {r} \cup Range(todo')
  BY <1>1, ListRanges DEF Typed, TypeOK, Of
<1>4. m \in Mappings /\ Grows(mapping[r], m) /\ Covers(m, Goal(r))
  <2>1. Goal(r) \in Object /\ Class[Goal(r)] = "interface"
    BY <1>1, <1>3, TypedFacts, RootFacts
  <2> QED
    BY <1>2, <1>3, <2>1, TypedFacts, PlaceInterfaceFacts
<1> HIDE DEF m
<1>5. DOMAIN mapping' = DOMAIN mapping \cup {r} /\ mapping'[r] = m
  BY <1>1, <1>4, StoreFacts
<1>6. Finished(r)'
  <2>1. HasAll(m, visited)
    <3>1. HasAll(mapping[r], visited)
      BY <1>2 DEF UnderWay
    <3> QED
      BY <1>1, <1>2, <1>4, <3>1, TypedFacts, HasAllGrows
  <2>2. /\ \A e : Goal(e)' = Goal(e)
        /\ \A y : UsedTypes(y)' = UsedTypes(y)
    BY <1>1, Settled, SettledUses
  <2>3. \A y \in visited \cup {r} : UsedTypes(y) \subseteq visited
    BY <1>1, <1>2 DEF UnderWay, Range
  <2>4. Covers(mapping[r], Goal(r))'
    BY <1>4, <1>5, <2>2 DEF Covers
  <2>5. HasAll(mapping[r], visited)'
    <3>1. HasAll(mapping'[r], visited)
      BY <1>5, <2>1
    <3>2. visited' = visited
      BY DEF FinishMapper
    <3> QED
      BY <2>2, <3>1, <3>2 DEF HasAll, Covers
  <2>6. visited' = visited /\ visited' \in SUBSET Of({"types"})'
    BY <1>1 DEF FinishMapper, Of
  <2>7. \A y \in visited' \cup {r} : UsedTypes(y)' \subseteq visited'
    BY <2>2, <2>3, <2>6
  <2> QED
    BY <2>4, <2>5, <2>6, <2>7 DEF Finished
<1>7. ASSUME NEW d \in DOMAIN mapping \ {r} PROVE Finished(d)'
  <2>1. Finished(d)
    BY <1>1, <1>7 DEF NoneLeftOut
  <2> QED
    BY <1>1, <1>4, <1>7, <2>1, OthersFinished
<1>8. Range(todo)' = Range(todo') /\ Of({"interface", "types"})' = Of({"interface", "types"})
  BY <1>1 DEF Range, Of
<1> QED
  BY <1>1, <1>3, <1>5, <1>6, <1>7, <1>8 DEF NoneLeftOut

LEMMA StepLeavesNone == Judged /\ NoneLeftOut /\ [Next]_vars => NoneLeftOut'
<1> SUFFICES ASSUME Judged, NoneLeftOut, [Next]_vars PROVE NoneLeftOut'
  OBVIOUS
<1>1. Typed
  BY DEF Judged
<1>2. CASE Resolve \/ MapEndless
  <2>1. phase' \in {"resolve", "validate", "overflow"}
    BY <1>2 DEF Resolve, MapEndless
  <2> QED
    BY <2>1 DEF NoneLeftOut
<1>3. CASE Decide
  <2>1. /\ phase = "map" /\ phase' \in {"accepted", "rejected"} /\ files' = files /\ ref' = ref
        /\ todo' = todo /\ todo = <<>> /\ (phase' = "accepted" => mapping' = mapping)
    BY <1>3 DEF Decide
  <2>2. CASE phase' = "rejected"
    BY <2>2 DEF NoneLeftOut
  <2>3. CASE phase' = "accepted"
    <3>1. /\ mapping' = mapping /\ Range(todo)' = Range(todo)
          /\ Of({"interface", "types"})' = Of({"interface", "types"})
      BY <2>1, <2>3 DEF Of, Range
    <3>2. \A d : Finished(d)' = Finished(d)
      <4>1. \A e : Goal(e)' = Goal(e)
        BY <2>1, Settled
      <4>2. \A y : UsedTypes(y)' = UsedTypes(y)
        BY <2>1, SettledUses
      <4>3. Of({"types"})' = Of({"types"})
        BY <2>1 DEF Of
      <4> QED
        BY <3>1, <4>1, <4>2, <4>3 DEF Finished, HasAll, Covers
    <3> QED
      BY <2>1, <2>3, <3>1, <3>2 DEF NoneLeftOut
  <2> QED
    BY <2>1, <2>2, <2>3
<1>4. CASE UNCHANGED vars
  <2>1. UNCHANGED <<files, phase, ref, mapping, todo, work, visited>>
    BY <1>4 DEF vars
  <2>2. \A e : Goal(e)' = Goal(e)
    BY <2>1, Settled
  <2>3. \A y : UsedTypes(y)' = UsedTypes(y)
    BY <2>1, SettledUses
  <2>4. /\ \A classes : Of(classes)' = Of(classes)
        /\ Range(todo)' = Range(todo) /\ Range(work)' = Range(work)
    BY <2>1 DEF Of, Range
  <2>5. \A d : Finished(d)' = Finished(d) /\ UnderWay(d)' = UnderWay(d)
    BY <2>1, <2>2, <2>3, <2>4 DEF Finished, UnderWay, HasAll, Covers
  <2> QED
    BY <2>1, <2>4, <2>5 DEF NoneLeftOut
<1> QED
  BY <1>1, <1>2, <1>3, <1>4, ValidateLeavesNone, SkipRootLeavesNone, MapTypesLeavesNone,
     StartMapperLeavesNone, VisitUseLeavesNone, FinishMapperLeavesNone DEF Next

LEMMA NoneLeftOutIsComplete == Judged /\ NoneLeftOut => MappersComplete
<1> SUFFICES ASSUME Judged, NoneLeftOut, phase = "accepted",
                    NEW r \in Of({"interface", "types"}), NEW x \in Involved(r), NEW o \in Content(Target(x))
             PROVE  mapping[r][o] # None /\ Target(mapping[r][o]) = o
  BY DEF MappersComplete
<1>1. Typed /\ FilesFit /\ RefsFit /\ MadeFit /\ made \cap files = {}
  BY TypedFacts DEF Judged, Typed, TypeOK
<1>2. \A p \in References : Candidates(p[1], p[2]) # {} => ref[p] # None
  BY JudgedIsSound DEF AcceptedIsSound
<1>3. ASSUME NEW y \in Of({"interface", "types"})
      PROVE  y \in files /\ Goal(y) # None /\ Target(y) = Goal(y)
  <2>1. /\ y \in files /\ Goal(y) = ref[<<y, "target">>] /\ <<y, "target">> \in References
        /\ Said[y].class \in {"interface", "types"}
    BY <1>1, RootFacts DEF Of
  <2>2. Candidates(y, "target") = {Said[y].target} \ {None} /\ Said[y].target # None
    BY <1>1, <2>1, DeploymentAssumption DEF Candidates, RootClasses, FilesFit
  <2>3. ref[<<y, "target">>] # None
    <3>1. <<y, "target">>[1] = y /\ <<y, "target">>[2] = "target"
      OBVIOUS
    <3>2. Candidates(y, "target") # {}
      BY <2>2
    <3> QED
      BY <1>2, <2>1, <3>1, <3>2
  <2>4. Target(y) = ref[<<y, "target">>]
    BY <1>1, <2>1 DEF Target
  <2> QED
    BY <2>1, <2>3, <2>4
<1>4. r \in DOMAIN mapping /\ Finished(r)
  <2>1. Range(todo) = {}
    BY DEF NoneLeftOut, Range
  <2> QED
    BY <2>1 DEF NoneLeftOut
<1>5. Said[r].class \in {"interface", "types"} /\ r \in Of({"interface", "types"})
  BY DEF Of
<1>6. x \in Of({"interface", "types"}) /\ Covers(mapping[r], Goal(x))
  <2>1. CASE x = r
    BY <1>3, <1>4, <1>5, <2>1 DEF Finished
  <2>2. CASE x # r
    <3>1. Said[r].class = "interface" /\ x \in UsedBy(r)
      BY <2>2 DEF Involved
    <3>2. PICK V \in SUBSET Of({"types"}) : /\ \A y \in V \cup {r} : UsedTypes(y) \subseteq V
                                           /\ HasAll(mapping[r], V)
      BY <1>3, <1>4, <1>5, <3>1 DEF Finished
    <3> DEFINE S == V \cup {r}
    <3>3. S \in SUBSET Of({"interface", "types"})
      BY <1>5, <3>2 DEF Of
    <3>4. ASSUME NEW y \in S, NEW u \in Children(y, UseClasses), Said[ref[<<u, "use">>]].class = "types"
          PROVE  ref[<<u, "use">>] \in S
      <4>1. u \in files /\ Said[u].class \in UseClasses /\ ref[<<u, "use">>] \in Used(y) \cup {None}
        BY <1>1, <3>4, UsedFacts
      <4>2. <<u, "use">> \in References
        BY <4>1, IsReference, PassesHave
      <4>3. Candidates(u, "use") = {Said[u].name}
        BY DEF Candidates
      <4>4. ref[<<u, "use">>] # None
        <5>1. <<u, "use">>[1] = u /\ <<u, "use">>[2] = "use"
          OBVIOUS
        <5> QED
          BY <1>2, <4>2, <4>3, <5>1
      <4>5. ref[<<u, "use">>] \in UsedTypes(y)
        BY <3>4, <4>1, <4>4 DEF UsedTypes
      <4> QED
        BY <3>2, <3>4, <4>5
    <3>5. x \in Of({"types"}) /\ x \in S
      BY <3>1, <3>3, <3>4 DEF UsedBy
    <3>6. x \in V /\ x \in Of({"interface", "types"})
      BY <2>2, <3>5 DEF Of
    <3> QED
      BY <1>3, <3>2, <3>6 DEF HasAll
  <2> QED
    BY <2>1, <2>2
<1>7. o \in Object /\ mapping[r][o] # None
  <2>1. o \in Content(Goal(x)) /\ Goal(x) \in Object
    BY <1>1, <1>3, <1>6, RootFacts
  <2> QED
    BY <1>6, <2>1 DEF Covers, Content
<1>8. mapping[r] \in Mappings /\ mapping[r] \in [Object -> Elements \cup {None}]
  BY <1>1, <1>4 DEF Typed, MappingsFit, TypeOK
<1>9. mapping[r][o] \in Elements /\ Goal(mapping[r][o]) = o
  BY <1>7, <1>8 DEF Mappings
<1> QED
  BY <1>1, <1>7, <1>9, ElementFacts

\* MappersComplete of Deployment: when files are accepted, the mapper of every deployment of an
\* interface or a type collection has an element for all that is in it and, for an interface,
\* in the type collections that are used, directly or not; the element deploys that object.
THEOREM MappersAreComplete == Spec => []MappersComplete
<1>1. Init => Judged /\ NoneLeftOut
  <2>1. Init => phase = "resolve" /\ pass = 0
    BY DEF Init
  <2>2. phase = "resolve" /\ pass = 0 => ResolvedSoFar /\ Validated /\ NoneLeftOut /\ phase # "accepted"
    BY DEF ResolvedSoFar, Validated, NoneLeftOut
  <2> QED
    BY <2>1, <2>2, InitTyped DEF Judged
<1>2. Judged /\ NoneLeftOut /\ [Next]_vars => Judged' /\ NoneLeftOut'
  BY StepJudged, StepLeavesNone
<1> QED
  BY <1>1, <1>2, NoneLeftOutIsComplete, PTL DEF Spec

-----------------------------------------------------------------------------
(* Properties and the specifications that are extended.                    *)

\* No specification hides another one by the same name.
SpecificationsApart == \A s1, s2 \in Of({"spec"}) : Said[s1].name = Said[s2].name => s1 = s2

\* What is extended is known once the first pass is over, ...
BasesKnown == pass >= 1 =>
    \A s \in Of({"spec"}) : ref[<<s, "base">>] = FindSpecification(Said[s].base)

\* ... so the last one finds the declarations in what is extended, too.
Inherits(p, found) ==
    LET declared == {d \in DeclaredFrom(Said[Root(p)].spec) : Said[d].name = Said[p].name}
    IN  IF declared = {} THEN found = None ELSE found \in declared

PropertiesSettled == pass = 25 /\ phase # "overflow" =>
    \A p \in Of({"property"}) : Inherits(p, ref[<<p, "decl">>])

\* The specifications that one leads to are those of its chain, if that ends.
LEMMA ChainIsClosure ==
    ASSUME FilesFit, RefsFit, BasesKnown, pass >= 1, SpecificationsApart,
           NEW n, ~Endless(FindSpecification(n))
    PROVE  LET chain == Bases(FindSpecification(n))
           IN  DeclaredFrom(n) = {d \in Of({"decl"}) :
                                      \E k \in DOMAIN chain : chain[k] # None /\ Front(d) = chain[k]}
<1> DEFINE first  == FindSpecification(n)
           chain  == Bases(first)
           Z      == Of({"spec"})
           N      == Cardinality(Z)
           C      == {s \in Z : \E k \in 0..N : chain[k] # None /\ s = chain[k]}
           Closed(S) == /\ \A s \in Z : Said[s].name = n => s \in S
                        /\ \A s1 \in S, s2 \in Z : Said[s1].base = Said[s2].name => s2 \in S
<1>1. first \in Z \cup {None} /\ (first # None => Said[first].name = n)
      /\ (first = None => \A s \in Z : Said[s].name # n)
  BY FirstNamedIs DEF FindSpecification
<1>2. /\ N \in Nat /\ chain \in [0..N -> Z \cup {None}] /\ chain[0] = first
      /\ \A k \in 1..N : chain[k] = IF chain[k - 1] = None THEN None ELSE ref[<<chain[k - 1], "base">>]
  <2> HIDE DEF first
  <2> QED
    BY <1>1, BasesAre
<1>3. chain[N] = None
  <2>1. first # None => chain[N] = None
    BY DEF Endless
  <2>2. CASE first = None
    <3> DEFINE Bad == {k \in 0..N : chain[k] # None}
    <3> SUFFICES ASSUME Bad # {} PROVE FALSE
      <4>1. N \in 0..N
        BY <1>2
      <4> QED
        BY <4>1
    <3>1. Bad \in SUBSET Nat
      BY <1>2
    <3>2. PICK m \in Bad : \A k \in Bad : m <= k
      <4> HIDE DEF Bad
      <4> QED
        BY <3>1, LeastNumber
    <3>3. m \in 0..N /\ m # 0
      BY <1>2, <2>2
    <3>4. m \in 1..N /\ m - 1 \in 0..N /\ ~(m <= m - 1)
      BY <1>2, <3>3
    <3>5. chain[m - 1] = None
      BY <3>2, <3>4
    <3> QED
      BY <1>2, <3>4, <3>5
  <2> QED
    BY <2>1, <2>2
<1> HIDE DEF first, chain, N, Z
<1>4. ASSUME NEW s1 \in C, NEW s2 \in Z, Said[s1].base = Said[s2].name PROVE s2 \in C
  <2>1. PICK k \in 0..N : chain[k] # None /\ s1 = chain[k] /\ s1 \in Z
    OBVIOUS
  <2>2. k # N
    BY <1>3, <2>1
  <2>3. k + 1 \in 1..N /\ k + 1 \in 0..N /\ (k + 1) - 1 = k
    BY <1>2, <2>1, <2>2
  <2>4. chain[k + 1] = ref[<<s1, "base">>]
    BY <1>2, <2>1, <2>3
  <2>5. ref[<<s1, "base">>] = FindSpecification(Said[s1].base)
    BY <2>1 DEF BasesKnown, Z
  <2>6. FindSpecification(Said[s1].base) = s2
    <3>1. LET named == {s \in Of({"spec"}) : Said[s].name = Said[s1].base}
          IN  named # {} => FirstNamed(Said[s1].base, {"spec"}) \in named
      BY FirstNamedIs
    <3> QED
      BY <1>4, <3>1 DEF FindSpecification, SpecificationsApart, Z
  <2>7. s2 # None
    BY <1>4, OfFacts, NoneIsNothing DEF Z
  <2> QED
    BY <1>4, <2>3, <2>4, <2>5, <2>6, <2>7
<1>5. \A s \in Z : Said[s].name = n => s \in C
  <2>1. ASSUME NEW s \in Z, Said[s].name = n PROVE s \in C
    <3>1. first \in Z /\ first # None /\ s = first
      BY <1>1, <2>1, OfFacts, NoneIsNothing DEF SpecificationsApart, Z
    <3>2. 0 \in 0..N
      BY <1>2
    <3> QED
      BY <1>2, <2>1, <3>1, <3>2
  <2> QED
    BY <2>1
<1>6. C \in SUBSET Z /\ Closed(C)
  <2> HIDE DEF C
  <2>1. Closed(C)
    BY <1>4, <1>5
  <2> QED
    BY <2>1 DEF C
<1>7. ASSUME NEW S \in SUBSET Z, Closed(S), NEW j \in 0..N, chain[j] # None PROVE chain[j] \in S
  <2> DEFINE Bad == {k \in 0..N : chain[k] # None /\ chain[k] \notin S}
  <2> SUFFICES ASSUME Bad # {} PROVE FALSE
    BY <1>7
  <2>1. Bad \in SUBSET Nat
    BY <1>2
  <2>2. PICK m \in Bad : \A k \in Bad : m <= k
    <3> HIDE DEF Bad
    <3> QED
      BY <2>1, LeastNumber
  <2>3. m \in 0..N /\ chain[m] # None /\ chain[m] \notin S
    OBVIOUS
  <2>4. m # 0
    BY <1>1, <1>2, <1>7, <2>3
  <2>5. m \in 1..N /\ m - 1 \in 0..N /\ ~(m <= m - 1)
    BY <1>2, <2>3, <2>4
  <2>6. chain[m - 1] # None /\ chain[m - 1] \in S
    <3>1. m - 1 \notin Bad
      <4> HIDE DEF Bad
      <4> QED
        BY <2>2, <2>5
    <3>2. chain[m - 1] # None
      BY <1>2, <2>3, <2>5
    <3> QED
      BY <2>5, <3>1, <3>2
  <2>7. chain[m - 1] \in Z /\ chain[m] \in Z
    BY <1>2, <2>3, <2>5, <2>6
  <2>8. chain[m] = FindSpecification(Said[chain[m - 1]].base)
    BY <1>2, <2>5, <2>6, <2>7 DEF BasesKnown, Z
  <2>9. Said[chain[m]].name = Said[chain[m - 1]].base
    <3>1. LET b == Said[chain[m - 1]].base
              named == {s \in Of({"spec"}) : Said[s].name = b}
          IN  /\ named # {} => FirstNamed(b, {"spec"}) \in named
              /\ named = {} <=> FirstNamed(b, {"spec"}) = None
      BY FirstNamedIs
    <3> QED
      BY <2>3, <2>8, <3>1 DEF FindSpecification
  <2> QED
    BY <1>7, <2>3, <2>6, <2>7, <2>9
<1>8. DeclaredFrom(n) = {d \in Of({"decl"}) : \A S \in {T \in SUBSET Z : Closed(T)} : Front(d) \in S}
  BY DEF DeclaredFrom, Z
<1>9. ASSUME NEW d \in Of({"decl"})
      PROVE  (\A S \in {T \in SUBSET Z : Closed(T)} : Front(d) \in S)
             <=> \E k \in DOMAIN chain : chain[k] # None /\ Front(d) = chain[k]
  <2> HIDE DEF Closed
  <2>1. ASSUME \A S \in {T \in SUBSET Z : Closed(T)} : Front(d) \in S
        PROVE  \E k \in DOMAIN chain : chain[k] # None /\ Front(d) = chain[k]
    <3>1. Front(d) \in C
      <4> HIDE DEF C
      <4> QED
        BY <1>6, <2>1
    <3> QED
      BY <1>2, <3>1
  <2>2. ASSUME NEW k \in DOMAIN chain, chain[k] # None, Front(d) = chain[k],
               NEW S \in {T \in SUBSET Z : Closed(T)}
        PROVE  Front(d) \in S
    <3>1. k \in 0..N /\ S \in SUBSET Z /\ Closed(S)
      BY <1>2, <2>2
    <3> QED
      BY <1>7, <2>2, <3>1
  <2> QED
    BY <2>1, <2>2
<1>10. DeclaredFrom(n) = {d \in Of({"decl"}) :
                              \E k \in DOMAIN chain : chain[k] # None /\ Front(d) = chain[k]}
  <2> HIDE DEF Closed
  <2> QED
    BY <1>8, <1>9
<1> QED
  BY <1>10 DEF chain, first

\* The lookup of a property's declaration finds one exactly if there is one to be inherited.
LEMMA LookupInherits ==
    ASSUME FilesFit, RefsFit, BasesKnown, pass >= 1, SpecificationsApart,
           NEW p \in Of({"property"}), ~Endless(FindSpecification(Said[Root(p)].spec))
    PROVE  Inherits(p, FindPropertyDecl(Said[Root(p)].spec \o Said[p].name))
<1> DEFINE n == Said[Root(p)].spec
           q == n \o Said[p].name
           chain == Bases(FindSpecification(n))
           declared == {d \in DeclaredFrom(n) : Said[d].name = Said[p].name}
           Decls(s) == {d \in Of({"decl"}) : Front(d) = s /\ Said[d].name = Said[p].name}
           declaring == {k \in DOMAIN chain : chain[k] # None /\ Decls(chain[k]) # {}}
           found == FindPropertyDecl(q)
<1>1. Front(q) = n /\ <<Last(q)>> = Said[p].name
  <2>1. n \in Seq(STRING) /\ Said[p].name \in Seq(STRING) /\ Len(Said[p].name) = 1
    BY OfFacts, PropertyAssumption DEF Of, Root
  <2>2. \A a, b \in Seq(STRING) : Len(b) = 1 => Front(a \o b) = a /\ <<Last(a \o b)>> = b
    <3> SUFFICES ASSUME NEW a \in Seq(STRING), NEW b \in Seq(STRING), Len(b) = 1
                 PROVE  Front(a \o b) = a /\ <<Last(a \o b)>> = b
      OBVIOUS
    <3> QED
      BY LastAppended DEF Front, Last
  <2> QED
    BY <2>1, <2>2
<1>2. /\ declaring = {} => found = None
      /\ declaring # {} => \E k \in declaring : found \in Decls(chain[k])
  <2> DEFINE chainOf(m) == Bases(FindSpecification(Front(m)))
             DeclsOf(m, s)  == {d \in Of({"decl"}) : Front(d) = s /\ Said[d].name = <<Last(m)>>}
             declaringOf(m) == {k \in DOMAIN chainOf(m) : chainOf(m)[k] # None /\ DeclsOf(m, chainOf(m)[k]) # {}}
  <2>1. \A m : /\ declaringOf(m) = {} => FindPropertyDecl(m) = None
               /\ declaringOf(m) # {} =>
                      \E k \in declaringOf(m) : FindPropertyDecl(m) \in DeclsOf(m, chainOf(m)[k])
    BY FindPropertyDeclIs
  <2>2. chainOf(q) = chain
    BY <1>1
  <2>3. \A s : DeclsOf(q, s) = Decls(s)
    <3> HIDE DEF q
    <3> QED
      BY <1>1
  <2>4. declaringOf(q) = declaring
    <3> HIDE DEF chainOf, DeclsOf, chain, Decls, q
    <3> QED
      BY <2>2, <2>3
  <2> HIDE DEF chainOf, DeclsOf, chain, Decls, q, declaringOf, declaring
  <2> QED
    BY <2>1, <2>2, <2>3, <2>4 DEF found
<1>3. \A d : d \in DeclaredFrom(n) <=>
          d \in Of({"decl"}) /\ \E k \in DOMAIN chain : chain[k] # None /\ Front(d) = chain[k]
  BY ChainIsClosure
<1>4. declared = {} <=> declaring = {}
  <2> HIDE DEF chain, n
  <2> QED
    BY <1>3
<1>5. declaring # {} => found \in declared
  <2> HIDE DEF chain, n, found
  <2> QED
    BY <1>2, <1>3
<1>6. IF declared = {} THEN found = None ELSE found \in declared
  <2> HIDE DEF declared, declaring, found
  <2> QED
    BY <1>2, <1>4, <1>5
<1> QED
  BY <1>6 DEF Inherits

\* What the first and the last pass set.
LEMMA ReferentOfSpecification ==
    ASSUME FilesFit, NEW s \in Of({"spec"})
    PROVE  Referent(s, "base") = FindSpecification(Said[s].base)
<1> DEFINE found == {Cast("spec", Find("spec", "base", m)) : m \in Candidates(s, "base")} \ {None}
<1>1. Said[s].class = "spec"
  BY DEF Of
<1>2. Candidates(s, "base") = {Said[s].base} \ {None}
  BY DEF Candidates
<1>3. \A m : Cast("spec", Find("spec", "base", m)) = FindSpecification(m)
  BY DEF Cast, Find, OperationClasses
<1>4. Said[s].base = None => FindSpecification(Said[s].base) = None
  <2>1. LET named == {t \in Of({"spec"}) : Said[t].name = None}
        IN  named = {} <=> FirstNamed(None, {"spec"}) = None
    BY FirstNamedIs
  <2>2. \A t \in Of({"spec"}) : Said[t].name # None
    BY OfFacts, PropertyAssumption DEF Of
  <2> QED
    BY <2>1, <2>2 DEF FindSpecification
<1>5. Referent(s, "base") = IF found = {} THEN None ELSE CHOOSE o \in found : TRUE
  BY <1>1 DEF Referent
<1>6. found = {FindSpecification(Said[s].base)} \ {None}
  BY <1>2, <1>3, <1>4
<1> HIDE DEF found
<1> QED
  BY <1>5, <1>6

LEMMA ReferentOfProperty ==
    ASSUME NEW p \in Of({"property"})
    PROVE  Referent(p, "decl") = FindPropertyDecl(Said[Root(p)].spec \o Said[p].name)
<1> DEFINE found == {Cast("property", Find("property", "decl", m)) : m \in Candidates(p, "decl")} \ {None}
<1>1. Said[p].class = "property"
  BY DEF Of
<1>2. Candidates(p, "decl") = {Said[Root(p)].spec \o Said[p].name}
  BY DEF Candidates
<1>3. \A m : Cast("property", Find("property", "decl", m)) = FindPropertyDecl(m)
  BY DEF Cast, Find, OperationClasses
<1>4. Referent(p, "decl") = IF found = {} THEN None ELSE CHOOSE o \in found : TRUE
  BY <1>1 DEF Referent
<1>5. found = {FindPropertyDecl(Said[Root(p)].spec \o Said[p].name)} \ {None}
  BY <1>2, <1>3
<1> HIDE DEF found
<1> QED
  BY <1>4, <1>5

LEMMA StepBases ==
    ASSUME Typed, BasesKnown, [Next]_vars
    PROVE  BasesKnown'
<1>1. CASE Resolve
  <2> DEFINE class == Passes[pass + 1][1]
             what  == Passes[pass + 1][2]
  <2>1. /\ FilesFit /\ DOMAIN ref = References /\ pass \in 0..25 /\ pass < 25
        /\ files' = files /\ pass' = pass + 1
    BY <1>1, TypedFacts, PassesFacts DEF Typed, TypeOK, Resolve
  <2>2. ref' = [r \in DOMAIN ref |->
                   IF Said[r[1]].class = class /\ r[2] = what THEN Referent(r[1], what) ELSE ref[r]]
    BY <1>1 DEF Resolve
  <2>3. ASSUME NEW s \in Of({"spec"})
        PROVE  <<s, "base">> \in References /\ Said[s].class = "spec"
    BY IsReference, PassesHave DEF Of
  <2>4. ASSUME NEW s \in Of({"spec"}) PROVE ref'[<<s, "base">>] = FindSpecification(Said[s].base)
    <3>1. CASE pass = 0
      <4>1. class = "spec" /\ what = "base"
        BY <3>1, PassesFacts
      <4> HIDE DEF class, what
      <4> QED
        BY <2>1, <2>2, <2>3, <4>1, ReferentOfSpecification
    <3>2. CASE pass # 0
      <4>1. ~(class = "spec" /\ what = "base")
        <5>1. pass + 1 \in 2..25
          BY <2>1, <3>2
        <5> QED
          BY <5>1, <2>1, PassesFacts
      <4>2. pass >= 1
        BY <2>1, <3>2
      <4> HIDE DEF class, what
      <4> QED
        BY <2>1, <2>2, <2>3, <4>1, <4>2 DEF BasesKnown
    <3> QED
      BY <3>1, <3>2
  <2>5. \A classes : Of(classes)' = Of(classes)
    BY <2>1 DEF Of
  <2> QED
    BY <2>4, <2>5 DEF BasesKnown, FindSpecification, FirstNamed
<1>2. CASE \/ Validate \/ SkipRoot \/ MapTypes \/ StartMapper \/ VisitUse \/ FinishMapper \/ MapEndless
           \/ Decide \/ UNCHANGED vars
  <2>1. files' = files /\ ref' = ref /\ pass' = pass
    BY <1>2 DEF Validate, SkipRoot, MapTypes, StartMapper, VisitUse, FinishMapper, MapEndless, Decide, vars
  <2>2. \A classes : Of(classes)' = Of(classes)
    BY <2>1 DEF Of
  <2> QED
    BY <2>1, <2>2 DEF BasesKnown, FindSpecification, FirstNamed
<1> QED
  BY <1>1, <1>2 DEF Next

LEMMA StepSettled ==
    ASSUME Typed, Typed', BasesKnown, PropertiesSettled, SpecificationsApart, [Next]_vars
    PROVE  PropertiesSettled'
<1>1. CASE Resolve
  <2> DEFINE class == Passes[pass + 1][1]
             what  == Passes[pass + 1][2]
  <2>1. /\ FilesFit /\ RefsFit /\ DOMAIN ref = References /\ pass \in 0..25 /\ pass < 25
        /\ files' = files /\ pass' = pass + 1 /\ pass + 1 \in 1..25
    <3>1. FilesFit /\ RefsFit /\ DOMAIN ref = References /\ pass \in 0..25
      BY TypedFacts, PassesFacts DEF Typed, TypeOK
    <3>2. pass < 25 /\ files' = files /\ pass' = pass + 1
      BY <1>1, PassesFacts DEF Resolve
    <3> QED
      BY <3>1, <3>2
  <2>2. ref' = [r \in DOMAIN ref |->
                   IF Said[r[1]].class = class /\ r[2] = what THEN Referent(r[1], what) ELSE ref[r]]
    BY <1>1 DEF Resolve
  <2>3. \A p, found : Inherits(p, found)' <=> Inherits(p, found)
    BY <2>1 DEF Of, Inherits, DeclaredFrom
  <2>4. ASSUME pass' = 25, phase' # "overflow", NEW p \in Of({"property"})
        PROVE  Inherits(p, ref'[<<p, "decl">>])
    <3>1. pass = 24 /\ pass >= 1 /\ class = "property" /\ what = "decl"
      BY <2>1, <2>4, PassesFacts
    <3>2. <<p, "decl">> \in References /\ Said[p].class = "property"
      BY IsReference, PassesHave DEF Of
    <3>3. ~Endless(FindSpecification(Said[Root(p)].spec))
      BY <1>1, <2>4, <3>1, <3>2 DEF Resolve
    <3>4. ref'[<<p, "decl">>] = Referent(p, "decl")
      <4> HIDE DEF class, what
      <4> QED
        BY <2>1, <2>2, <3>1, <3>2
    <3> QED
      BY <2>1, <3>1, <3>3, <3>4, LookupInherits, ReferentOfProperty
  <2>5. \A classes : Of(classes)' = Of(classes)
    BY <2>1 DEF Of
  <2> QED
    BY <2>3, <2>4, <2>5 DEF PropertiesSettled
<1>2. CASE \/ Validate \/ SkipRoot \/ MapTypes \/ StartMapper \/ VisitUse \/ FinishMapper \/ MapEndless
           \/ Decide \/ UNCHANGED vars
  <2>1. /\ files' = files /\ ref' = ref /\ pass' = pass
        /\ phase' # "overflow" => phase # "overflow"
    BY <1>2 DEF Validate, SkipRoot, MapTypes, StartMapper, VisitUse, FinishMapper, MapEndless, Decide, vars
  <2>2. \A classes : Of(classes)' = Of(classes)
    BY <2>1 DEF Of
  <2>3. \A p, found : Inherits(p, found)' <=> Inherits(p, found)
    BY <2>2 DEF Inherits, DeclaredFrom
  <2> QED
    BY <2>1, <2>2, <2>3 DEF PropertiesSettled
<1> QED
  BY <1>1, <1>2 DEF Next

\* PropertiesInherited of Deployment: through any number of specifications, a property finds a
\* declaration exactly if one of those that its own leads to has one by its name, provided that
\* no specification hides another by the same name.
THEOREM DeclarationsInherited == Spec => [](SpecificationsApart => PropertiesInherited)
<1> DEFINE Settled0 == SpecificationsApart => BasesKnown /\ PropertiesSettled
<1>1. Init => Settled0
  <2>1. Init => ~(pass >= 1) /\ pass # 25
    BY DEF Init
  <2> QED
    BY <2>1 DEF BasesKnown, PropertiesSettled
<1>2. Typed /\ Typed' /\ Settled0 /\ [Next]_vars => Settled0'
  <2> SUFFICES ASSUME Typed, Typed', Settled0, [Next]_vars, SpecificationsApart'
               PROVE  BasesKnown' /\ PropertiesSettled'
    OBVIOUS
  <2>1. files' = files
    BY DEF Next, Resolve, Validate, SkipRoot, MapTypes, StartMapper, VisitUse, FinishMapper, MapEndless,
           Decide, vars
  <2>2. SpecificationsApart
    BY <2>1 DEF SpecificationsApart, Of
  <2> QED
    BY <2>2, StepBases, StepSettled
<1>3. Typed /\ Settled0 => (SpecificationsApart => PropertiesInherited)
  <2> SUFFICES ASSUME Typed, Settled0, SpecificationsApart PROVE PropertiesInherited
    OBVIOUS
  <2>1. phase \in {"validate", "map", "use", "accepted"} => pass = 25 /\ phase # "overflow"
    BY PassesFacts DEF Typed, PhasesFit
  <2> QED
    BY <2>1 DEF PropertiesSettled, PropertiesInherited, Inherits
<1> QED
  BY InitTyped, StepTyped, <1>1, <1>2, <1>3, PTL DEF Spec

-----------------------------------------------------------------------------
(* Deployments in order.                                                   *)

\* The statements that order is about, for the deployments of W.
Counted(W) == {s \in files : Root(s) \in W
                             /\ Said[s].class \in Parts \cup TypeClasses \cup OperationClasses
                                                  \cup {"attribute", "types"}}
InOrder(W) == /\ \A s \in Counted(W) : Len(s) > 1 => Front(Goal(s)) = Goal(Front(s))
              /\ \A s1, s2 \in Counted(W) : s1 # s2 => Goal(s1) # Goal(s2)

\* The elements of members and arguments in x.
MembersIn(x) == Children(x, MemberClasses)
                \cup UNION {Children(e, {"argument"}) : e \in Children(x, MemberClasses)}

\* What an interface or a type collection consists of.
Scope(c) == {c} \cup {o \in Object : \/ Class[o] \in TypeClasses \cup MemberClasses /\ Front(o) = c
                                     \/ Class[o] \in Details \cup {"argument"} /\ Front(Front(o)) = c}

\* What has been made is in the element for what contains its object.
MadeInPlace == \A e \in made : Inside(e) \in Elements /\ Goal(Inside(e)) = Front(Goal(e))

\* There is one element for an object.
Single(S) == \A e1, e2 \in S : Goal(e1) = Goal(e2) /\ Goal(e1) \in Object => e1 = e2
Singles == \A y \in Of({"interface", "types"}) :
    InOrder({y}) => Single(TypesIn(y)) /\ Single(MembersIn(y))

Containers == {"interface", "typeCollection"}

LEMMA ClassesApart ==
    /\ TypeClasses \cap MemberClasses = {} /\ TypeClasses \cap Details = {} /\ MemberClasses \cap Details = {}
    /\ "argument" \notin TypeClasses \cup MemberClasses \cup Details
    /\ "model" \notin TypeClasses \cup MemberClasses \cup Details \cup Containers \cup {"argument"}
    /\ Containers \cap (TypeClasses \cup MemberClasses \cup Details \cup {"argument"}) = {}
    /\ Parts \subseteq Details /\ Compound \cup {"enumeration"} \subseteq TypeClasses
    /\ {"method", "broadcast"} \subseteq MemberClasses
BY DEF TypeClasses, MemberClasses, Details, Parts, Containers, Compound

\* What contains something has the same scope.
LEMMA ScopesApart ==
    ASSUME NEW c \in Object, NEW d \in Object, Class[c] \in Containers, Class[d] \in Containers, NEW o \in Object
    PROVE  /\ o \in Scope(c) /\ o \in Scope(d) => c = d
           /\ o \in Scope(c) /\ Front(o) \in Scope(d) => c = d /\ o # c
           /\ o \in Scope(c) /\ Class[o] \in TypeClasses \cup MemberClasses => Front(o) = c
           /\ o \in Scope(c) /\ Class[o] \in Details \cup {"argument"} =>
                  /\ Front(o) \in Object /\ Front(Front(o)) = c /\ Front(o) \in Scope(c)
                  /\ Class[o] \in Parts => Class[Front(o)] \in Compound \cup {"enumeration"}
                  /\ Class[o] \in Details => Class[Front(o)] \in TypeClasses
                  /\ Class[o] = "argument" => Class[Front(o)] \in MemberClasses
           /\ o \in Scope(c) /\ Class[o] \in Containers => o = c
           /\ o \in Scope(c) => o = c \/ Class[o] \in TypeClasses \cup MemberClasses \cup Details \cup {"argument"}
<1>1. ASSUME NEW p \in Object, Class[p] \in Containers, o \in Scope(p)
      PROVE  /\ o = p \/ (Class[o] \in TypeClasses \cup MemberClasses /\ Front(o) = p)
                      \/ (Class[o] \in Details \cup {"argument"} /\ Front(Front(o)) = p)
  BY <1>1 DEF Scope
<1>2. Class[o] \in Details \cup {"argument"} =>
          /\ Front(o) \in Object
          /\ Class[o] \in Parts => Class[Front(o)] \in Compound \cup {"enumeration"}
          /\ Class[o] \in Details => Class[Front(o)] \in TypeClasses
          /\ Class[o] = "argument" => Class[Front(o)] \in MemberClasses
  BY ModelAssumption, ContainerAssumption, ClassesApart
<1>3. Class[o] \in Containers /\ Front(o) \in Object => Class[Front(o)] = "model"
  BY ContainerAssumption DEF Containers
<1>4. o \in Scope(c) /\ o \in Scope(d) => c = d
  BY <1>1, ClassesApart
<1>5. o \in Scope(c) /\ Class[o] \in Details \cup {"argument"} => Front(Front(o)) = c /\ Front(o) \in Scope(c)
  BY <1>1, <1>2, ClassesApart DEF Scope
<1>6. ASSUME o \in Scope(c), Front(o) \in Scope(d) PROVE c = d /\ o # c
  <2>1. Front(o) \in Object
    BY <1>6 DEF Scope
  <2>2. Front(o) = d \/ (Class[Front(o)] \in TypeClasses \cup MemberClasses /\ Front(Front(o)) = d)
                     \/ Class[Front(o)] \in Details \cup {"argument"}
    BY <1>6 DEF Scope
  <2>3. CASE o = c
    BY <1>3, <2>1, <2>2, <2>3, ClassesApart
  <2>4. CASE Class[o] \in TypeClasses \cup MemberClasses /\ Front(o) = c
    BY <2>2, <2>4, ClassesApart
  <2>5. CASE Class[o] \in Details \cup {"argument"} /\ Front(Front(o)) = c
    BY <1>2, <2>2, <2>5, ClassesApart
  <2> QED
    BY <1>1, <1>6, <2>3, <2>4, <2>5
<1>7. o \in Scope(c) /\ Class[o] \in TypeClasses \cup MemberClasses => Front(o) = c
  BY <1>1, ClassesApart
<1>8. o \in Scope(c) /\ Class[o] \in Containers => o = c
  BY <1>1, ClassesApart
<1> QED
  BY <1>1, <1>2, <1>4, <1>5, <1>6, <1>7, <1>8

LEMMA RootOfFront ==
    ASSUME NEW T, NEW s \in Seq(T), s # <<>>
    PROVE  /\ Len(s) = 1 => Root(s) = s
           /\ Len(s) # 1 => Len(s) > 1 /\ Front(s) \in Seq(T) /\ Front(s) # <<>> /\ Root(Front(s)) = Root(s)
                            /\ Len(Front(s)) = Len(s) - 1
           /\ Len(Root(s)) = 1 /\ Len(s) \in Nat \ {0}
<1>1. Len(s) \in Nat \ {0} /\ Head(s) = s[1] /\ \A i \in 1..Len(s) : s[i] \in T
  BY EmptySeq, ElementOfSeq
<1>2. ASSUME Len(s) = 1 PROVE Root(s) = s
  <2>1. s[1] \in T
    BY <1>1, <1>2
  <2>2. <<s[1]>> \in Seq(T) /\ Len(<<s[1]>>) = 1 /\ <<s[1]>>[1] = s[1]
    BY <2>1
  <2>3. \A i \in 1..Len(s) : <<s[1]>>[i] = s[i]
    BY <1>2, <2>2
  <2>4. <<s[1]>> = s
    BY <1>2, <2>2, <2>3, SeqEqual
  <2> QED
    BY <1>1, <2>4 DEF Root
<1>3. ASSUME Len(s) # 1
      PROVE  Len(s) > 1 /\ Front(s) \in Seq(T) /\ Front(s) # <<>> /\ Root(Front(s)) = Root(s)
             /\ Len(Front(s)) = Len(s) - 1
  <2>1. Len(s) > 1 /\ Len(s) - 1 \in Nat \ {0}
    <3> PICK n : n = Len(s)
      OBVIOUS
    <3>1. n \in Nat \ {0} /\ n # 1
      BY <1>1, <1>3
    <3>2. n > 1 /\ n - 1 \in Nat \ {0}
      BY <3>1
    <3> QED
      BY <3>2
  <2> DEFINE f == SubSeq(s, 1, Len(s) - 1)
  <2>2. \A i \in 1..Len(s) - 1 : s[i] \in T
    BY <1>1, <2>1
  <2>3. f \in Seq(T) /\ Len(f) = Len(s) - 1 /\ \A i \in 1..Len(s) - 1 : f[i] = s[i]
    BY <2>1, <2>2, SubSeqProperties
  <2> HIDE DEF f
  <2>4. f # <<>> /\ f[1] = s[1]
    BY <2>1, <2>3
  <2>5. Head(f) = f[1]
    BY <2>3, <2>4
  <2>6. Front(s) = f
    BY DEF Front, f
  <2> QED
    BY <1>1, <2>1, <2>3, <2>4, <2>5, <2>6 DEF Root
<1> QED
  BY <1>1, <1>2, <1>3 DEF Root

LEMMA KindFacts ==
    ASSUME FilesFit, RefsFit, MadeFit, NEW e \in Elements, Goal(e) \in Object,
           \/ Kind(e) \in TypeClasses \cup MemberClasses \cup Parts \cup {"argument", "interface"}
           \/ Kind(e) = "types"
    PROVE  /\ Kind(e) # "types" => Class[Goal(e)] = Kind(e)
           /\ Kind(e) = "types" => Class[Goal(e)] = "typeCollection"
<1>1. CASE e \in files
  <2> PICK class : class = Said[e].class
    OBVIOUS
  <2>1. Goal(e) = ref[<<e, "target">>] /\ Kind(e) = class
    BY <1>1 DEF Goal, Kind
  <2>2. class \in TypeClasses \cup Parts \cup OperationClasses \cup {"attribute", "interface", "types"}
    BY <2>1 DEF MemberClasses, OperationClasses
  <2>3. <<e, "target">> \in References
    BY <1>1, <2>2, PassesHave, IsReference
  <2>4. Goal(e) \in Fits(class, "target") \cup {None}
    BY <2>1, <2>3 DEF RefsFit
  <2>5. Goal(e) \in Fits(class, "target")
    BY <2>4, NoneIsNothing
  <2>6. Fits(class, "target") = {o \in Object : Class[o] \in TargetKinds(class)}
    BY DEF Fits
  <2>7. TargetKinds(class) = IF class = "types" THEN {"typeCollection"} ELSE {class}
    BY <2>2 DEF TargetKinds, TypeClasses, Parts, OperationClasses
  <2> QED
    BY <2>1, <2>5, <2>6, <2>7
<1>2. CASE e \notin files
  <2>1. Kind(e) = Class[Goal(e)]
    BY <1>2 DEF Kind
  <2>2. Class[Goal(e)] # "types"
    BY ModelAssumption DEF ObjectClasses, MemberClasses, TypeClasses, Details, Parts
  <2> QED
    BY <2>1, <2>2
<1> QED
  BY <1>1, <1>2

\* The roots of statements, and what statements are in.
LEMMA StatementIn ==
    ASSUME FilesFit, NEW y \in files, Len(y) = 1, NEW e \in files
    PROVE  /\ Root(y) = y /\ e \in Seq(Label) /\ e # None /\ y \in Seq(Label)
           /\ Front(e) = y => Root(e) = y /\ Len(e) > 1 /\ e # y
           /\ Front(e) \in files => Root(e) = Root(Front(e)) /\ Len(e) > 1
<1>1. \A s \in files : s \in Seq(Label) /\ s # <<>>
  BY LabelSequences, NoneIsNothing DEF FilesFit, None
<1>2. Root(y) = y
  BY <1>1, RootOfFront
<1>3. e \in Seq(Label) /\ e # <<>>
  BY <1>1
<1>4. Len(e) # 1 => Len(e) > 1 /\ Front(e) # <<>> /\ Root(Front(e)) = Root(e)
                    /\ Len(Front(e)) = Len(e) - 1
  BY <1>3, RootOfFront
<1>5. Len(e) = 1 => Front(e) = <<>>
  BY <1>3, SubSeqEmpty DEF Front
<1>6. Front(e) \in files => Len(e) # 1
  BY <1>1, <1>5
<1> QED
  BY <1>1, <1>2, <1>3, <1>4, <1>6 DEF None

\* In a deployment in order, elements are where their objects are.
LEMMA InOrderFacts ==
    ASSUME Typed, MadeInPlace, NEW W, InOrder(W), NEW y \in W, y \in Of({"interface", "types"})
    PROVE  /\ \A e \in Children(y, TypeClasses \cup MemberClasses) : Front(Goal(e)) = Goal(y)
           /\ \A t \in Children(y, TypeClasses \cup MemberClasses) :
                  \A e \in Children(t, Parts \cup {"argument"}) : Front(Goal(e)) = Goal(t)
<1>1. FilesFit /\ MadeFit /\ y \in files /\ Len(y) = 1 /\ made \cap files = {}
  <2>1. FilesFit /\ MadeFit
    BY TypedFacts
  <2>2. Said[y].class \in RootClasses /\ y \in files
    BY DEF Of, RootClasses
  <2> QED
    BY <2>1, <2>2, DeploymentAssumption DEF FilesFit, Typed, TypeOK
<1>2. \A t, classes : /\ Children(t, classes) \subseteq Elements
                      /\ \A e \in Children(t, classes) : Inside(e) = t /\ Kind(e) \in classes
  BY <1>1, ChildrenFacts
<1>3. \A e \in made : Front(Goal(e)) = Goal(Inside(e))
  BY DEF MadeInPlace
<1>4. ASSUME NEW e \in Elements, e \in files, Front(e) \in files, Root(Front(e)) = y,
             Kind(e) \in TypeClasses \cup MemberClasses \cup Parts \cup {"argument"}
      PROVE  Front(Goal(e)) = Goal(Inside(e)) /\ Root(e) = y
  <2>1. Root(e) = y /\ Len(e) > 1
    BY <1>1, <1>4, StatementIn
  <2>2. Said[e].class \in Parts \cup TypeClasses \cup OperationClasses \cup {"attribute", "types"}
    BY <1>4 DEF Kind, MemberClasses, OperationClasses
  <2>3. e \in Counted(W)
    BY <1>4, <2>1, <2>2 DEF Counted
  <2> QED
    BY <1>4, <2>1, <2>3 DEF InOrder, Inside
<1>5. ASSUME NEW e \in Children(y, TypeClasses \cup MemberClasses)
      PROVE  Front(Goal(e)) = Goal(y) /\ (e \in files => Root(e) = y)
  <2>1. e \in Elements /\ Inside(e) = y /\ Kind(e) \in TypeClasses \cup MemberClasses
    BY <1>2
  <2>2. CASE e \in files
    <3>1. Front(e) = y
      BY <2>1, <2>2 DEF Inside
    <3>2. Root(Front(e)) = y
      BY <1>1, <3>1, StatementIn
    <3> QED
      BY <1>1, <1>4, <2>1, <2>2, <3>1, <3>2
  <2>3. CASE e \notin files
    BY <1>3, <2>1, <2>3 DEF Elements
  <2> QED
    BY <2>2, <2>3
<1>6. ASSUME NEW t \in Children(y, TypeClasses \cup MemberClasses), NEW e \in Children(t, Parts \cup {"argument"})
      PROVE  Front(Goal(e)) = Goal(t)
  <2>1. e \in Elements /\ Inside(e) = t /\ Kind(e) \in Parts \cup {"argument"} /\ t \in Elements
    BY <1>2
  <2>2. CASE e \in files
    <3>1. Front(e) = t
      BY <2>1, <2>2 DEF Inside
    <3>2. t \in files
      <4>1. Len(e) = 1 => Front(e) = None
        <5>1. e \in Seq(Label)
          BY <1>1, <2>2, StatementIn
        <5> QED
          BY <5>1, SubSeqEmpty DEF Front, None
      <4>2. t # None
        BY <1>1, <2>1, ElementFacts
      <4>3. Len(e) > 1
        <5>1. e \in Seq(Label) /\ e # <<>>
          BY <1>1, <2>2, StatementIn DEF None
        <5> QED
          BY <3>1, <4>1, <4>2, <5>1, RootOfFront
      <4> QED
        BY <2>2, <3>1, <4>3, TypedFacts
    <3>3. Root(t) = y
      BY <1>5, <3>2
    <3> QED
      BY <1>4, <2>1, <2>2, <3>1, <3>2, <3>3
  <2>3. CASE e \notin files
    BY <1>3, <2>1, <2>3 DEF Elements
  <2> QED
    BY <2>2, <2>3
<1> QED
  BY <1>5, <1>6

LEMMA TypesInFacts ==
    ASSUME FilesFit, RefsFit, MadeFit, NEW y, NEW e \in TypesIn(y), Goal(e) \in Object
    PROVE  /\ e \in Elements /\ Class[Goal(e)] = Kind(e) /\ Class[Goal(e)] \in TypeClasses \cup Parts
           /\ Class[Goal(e)] \in TypeClasses => e \in Children(y, TypeClasses) /\ Inside(e) = y
           /\ Class[Goal(e)] \in Parts =>
                  Inside(e) \in Whole(y) /\ Inside(e) \in Children(y, TypeClasses) /\ e \in Children(Inside(e), Parts)
<1>1. \A t, classes : /\ Children(t, classes) \subseteq Elements
                      /\ \A d \in Children(t, classes) : Inside(d) = t /\ Kind(d) \in classes
  BY ChildrenFacts
<1>2. \A d \in Elements : Goal(d) \in Object /\ Kind(d) \in TypeClasses \cup Parts => Class[Goal(d)] = Kind(d)
  BY KindFacts DEF TypeClasses, Parts
<1>3. CASE e \in Children(y, TypeClasses)
  BY <1>1, <1>2, <1>3, ClassesApart
<1>4. CASE \E t \in Whole(y) : e \in Children(t, Parts)
  <2>1. PICK t \in Whole(y) : e \in Children(t, Parts)
    BY <1>4
  <2>2. t \in Children(y, TypeClasses)
    BY DEF Whole
  <2> QED
    BY <1>1, <1>2, <2>1, <2>2, ClassesApart
<1> QED
  BY <1>3, <1>4 DEF TypesIn

LEMMA MembersInFacts ==
    ASSUME FilesFit, RefsFit, MadeFit, NEW y, NEW e \in MembersIn(y), Goal(e) \in Object
    PROVE  /\ e \in Elements /\ Class[Goal(e)] = Kind(e) /\ Class[Goal(e)] \in MemberClasses \cup {"argument"}
           /\ Class[Goal(e)] \in MemberClasses => e \in Children(y, MemberClasses) /\ Inside(e) = y
           /\ Class[Goal(e)] = "argument" =>
                  Inside(e) \in Children(y, MemberClasses) /\ e \in Children(Inside(e), {"argument"})
<1>1. \A t, classes : /\ Children(t, classes) \subseteq Elements
                      /\ \A d \in Children(t, classes) : Inside(d) = t /\ Kind(d) \in classes
  BY ChildrenFacts
<1>2. \A d \in Elements : Goal(d) \in Object /\ Kind(d) \in MemberClasses \cup {"argument"} => Class[Goal(d)] = Kind(d)
  BY KindFacts DEF MemberClasses
<1>3. CASE e \in Children(y, MemberClasses)
  BY <1>1, <1>2, <1>3, ClassesApart
<1>4. CASE \E t \in Children(y, MemberClasses) : e \in Children(t, {"argument"})
  <2>1. PICK t \in Children(y, MemberClasses) : e \in Children(t, {"argument"})
    BY <1>4
  <2> QED
    BY <1>1, <1>2, <2>1, ClassesApart
<1> QED
  BY <1>3, <1>4 DEF MembersIn

LEMMA ElementsInScope ==
    ASSUME Typed, MadeInPlace, NEW W, InOrder(W), NEW y \in W, y \in Of({"interface", "types"})
    PROVE  /\ \A e \in TypesIn(y) \cup MembersIn(y) : Goal(e) \in Object => Goal(e) \in Scope(Goal(y))
           /\ \A e \in TypesIn(y) : Goal(e) \in Object /\ Class[Goal(e)] \in TypeClasses =>
                  Front(Goal(e)) = Goal(y)
           /\ \A e \in TypesIn(y) : Goal(e) \in Object /\ Class[Goal(e)] \in Parts =>
                  Front(Goal(e)) = Goal(Inside(e))
           /\ \A e \in MembersIn(y) : Goal(e) \in Object /\ Class[Goal(e)] = "argument" =>
                  Front(Goal(e)) = Goal(Inside(e))
<1>1. FilesFit /\ RefsFit /\ MadeFit
  BY TypedFacts
<1>2. Children(y, TypeClasses) \cup Children(y, MemberClasses) \subseteq Children(y, TypeClasses \cup MemberClasses)
      /\ \A t : Children(t, Parts) \cup Children(t, {"argument"}) \subseteq Children(t, Parts \cup {"argument"})
  BY DEF Children
<1>3. /\ \A e \in Children(y, TypeClasses \cup MemberClasses) : Front(Goal(e)) = Goal(y)
      /\ \A t \in Children(y, TypeClasses \cup MemberClasses) :
             \A e \in Children(t, Parts \cup {"argument"}) : Front(Goal(e)) = Goal(t)
  BY InOrderFacts
<1>4. ASSUME NEW e \in TypesIn(y), Goal(e) \in Object
      PROVE  /\ Goal(e) \in Scope(Goal(y))
             /\ Class[Goal(e)] \in TypeClasses => Front(Goal(e)) = Goal(y)
             /\ Class[Goal(e)] \in Parts => Front(Goal(e)) = Goal(Inside(e))
  <2>1. /\ Class[Goal(e)] \in TypeClasses \cup Parts
        /\ Class[Goal(e)] \in TypeClasses => e \in Children(y, TypeClasses)
        /\ Class[Goal(e)] \in Parts => Inside(e) \in Children(y, TypeClasses) /\ e \in Children(Inside(e), Parts)
    BY <1>1, <1>4, TypesInFacts
  <2>2. Class[Goal(e)] \in TypeClasses => Front(Goal(e)) = Goal(y)
    BY <1>2, <1>3, <2>1
  <2>3. Class[Goal(e)] \in Parts => Front(Goal(e)) = Goal(Inside(e)) /\ Front(Goal(Inside(e))) = Goal(y)
    BY <1>2, <1>3, <2>1
  <2> QED
    BY <1>4, <2>1, <2>2, <2>3, ClassesApart DEF Scope
<1>5. ASSUME NEW e \in MembersIn(y), Goal(e) \in Object
      PROVE  /\ Goal(e) \in Scope(Goal(y))
             /\ Class[Goal(e)] = "argument" => Front(Goal(e)) = Goal(Inside(e))
  <2>1. /\ Class[Goal(e)] \in MemberClasses \cup {"argument"}
        /\ Class[Goal(e)] \in MemberClasses => e \in Children(y, MemberClasses)
        /\ Class[Goal(e)] = "argument" => Inside(e) \in Children(y, MemberClasses) /\ e \in Children(Inside(e), {"argument"})
    BY <1>1, <1>5, MembersInFacts
  <2>2. Class[Goal(e)] \in MemberClasses => Front(Goal(e)) = Goal(y)
    BY <1>2, <1>3, <2>1
  <2>3. Class[Goal(e)] = "argument" => Front(Goal(e)) = Goal(Inside(e)) /\ Front(Goal(Inside(e))) = Goal(y)
    BY <1>2, <1>3, <2>1
  <2> QED
    BY <1>5, <2>1, <2>2, <2>3 DEF Scope
<1> QED
  BY <1>4, <1>5

-----------------------------------------------------------------------------
(* What mappers place and make, object by object.                          *)

LEMMA PlacedAre ==
    ASSUME FilesFit, MadeFit
    PROVE  \A m \in Mappings, S \in SUBSET Elements :
               /\ PlaceAll(m, S) \in Mappings
               /\ \A o \in Object : /\ {e \in S : Goal(e) = o} # {} => PlaceAll(m, S)[o] \in {e \in S : Goal(e) = o}
                                    /\ {e \in S : Goal(e) = o} = {} => PlaceAll(m, S)[o] = m[o]
<1> SUFFICES ASSUME NEW m \in Mappings, NEW S \in SUBSET Elements
             PROVE  /\ PlaceAll(m, S) \in Mappings
                    /\ \A o \in Object : /\ {e \in S : Goal(e) = o} # {} => PlaceAll(m, S)[o] \in {e \in S : Goal(e) = o}
                                         /\ {e \in S : Goal(e) = o} = {} => PlaceAll(m, S)[o] = m[o]
  OBVIOUS
<1> DEFINE Es(o) == {e \in S : Goal(e) = o}
<1>1. PlaceAll(m, S) \in Mappings /\ \A o \in Object : PlaceAll(m, S)[o] \in IF Es(o) = {} THEN {m[o]} ELSE Es(o)
  BY PlaceAllFacts
<1> HIDE DEF Es
<1>2. \A o \in Object : (Es(o) # {} => PlaceAll(m, S)[o] \in Es(o)) /\ (Es(o) = {} => PlaceAll(m, S)[o] = m[o])
  BY <1>1
<1> QED
  BY <1>1, <1>2 DEF Es

LEMMA FilledAre ==
    ASSUME FilesFit, NEW r \in Of(RootClasses)
    PROVE  \A m \in Mappings, os \in SUBSET Object :
               (\A o \in os : Front(o) \in Object) =>
               /\ Fill(r, m, os) \in Mappings
               /\ \A o \in Object : /\ o \in os /\ m[o] = None => Fill(r, m, os)[o] = Made(m[Front(o)], r, o)
                                    /\ ~(o \in os /\ m[o] = None) => Fill(r, m, os)[o] = m[o]
               /\ \A o \in os : Fill(r, m, os)[o] # None
<1> SUFFICES ASSUME NEW m \in Mappings, NEW os \in SUBSET Object, \A o \in os : Front(o) \in Object
             PROVE  /\ Fill(r, m, os) \in Mappings
                    /\ \A o \in Object : /\ o \in os /\ m[o] = None => Fill(r, m, os)[o] = Made(m[Front(o)], r, o)
                                         /\ ~(o \in os /\ m[o] = None) => Fill(r, m, os)[o] = m[o]
                    /\ \A o \in os : Fill(r, m, os)[o] # None
  OBVIOUS
<1>1. /\ Fill(r, m, os) \in Mappings
      /\ \A o \in Object : Fill(r, m, os)[o] = IF o \in os /\ m[o] = None THEN Made(m[Front(o)], r, o) ELSE m[o]
      /\ \A o \in os : Fill(r, m, os)[o] # None
  BY FillFacts
<1> QED
  BY <1>1

LEMMA CollectionIs ==
    ASSUME FilesFit, RefsFit, MadeFit, NEW m \in Mappings, NEW r \in Of(RootClasses),
           NEW x \in files, Goal(x) \in Object, Class[Goal(x)] = "typeCollection"
    PROVE  LET p == PlaceCollection(r, m, x)
               c == Goal(x)
               types == Members(c, TypeClasses)
               parts == UNION {Members(t, Details) : t \in types}
           IN  /\ p \in Mappings /\ p[c] = x
               /\ \A o \in Object :
                      LET es == {e \in TypesIn(x) : Goal(e) = o}
                      IN  /\ es # {} => p[o] \in es
                          /\ es = {} /\ o # c /\ m[o] # None => p[o] = m[o]
                          /\ es = {} /\ o # c /\ m[o] = None /\ o \in types => p[o] = Made(x, r, o)
                          /\ es = {} /\ o # c /\ m[o] = None /\ o \in parts =>
                                 p[o] = Made(p[Front(o)], r, o)
                          /\ es = {} /\ o # c /\ m[o] = None /\ o \notin types \cup parts => p[o] = None
               /\ \A o \in types \cup parts : p[o] # None
<1> DEFINE c     == Goal(x)
           types == Members(c, TypeClasses)
           parts == UNION {Members(t, Details) : t \in types}
           m1    == PlaceAll(m, {x})
           m2    == PlaceTypes(m1, x)
           m3    == Fill(r, m2, types)
           p     == Fill(r, m3, parts)
           Es(o) == {e \in TypesIn(x) : Goal(e) = o}
<1>1. x \in Elements /\ Target(x) = c
  BY ElementFacts DEF Elements
<1>2. PlaceCollection(r, m, x) = p
  BY <1>1 DEF PlaceCollection
<1>3. types \in SUBSET Object /\ \A o \in types : Front(o) = c /\ Class[o] \in TypeClasses
  BY DEF Members
<1>4. parts \in SUBSET Object /\ \A o \in parts : Front(o) \in types /\ Class[o] \in Details
  BY DEF Members
<1>5. m1 \in Mappings /\ m1[c] = x /\ \A o \in Object : o # c => m1[o] = m[o]
  <2>1. /\ PlaceAll(m, {x}) \in Mappings
        /\ \A o \in Object : /\ {e \in {x} : Goal(e) = o} # {} => PlaceAll(m, {x})[o] \in {e \in {x} : Goal(e) = o}
                             /\ {e \in {x} : Goal(e) = o} = {} => PlaceAll(m, {x})[o] = m[o]
    <3>1. {x} \in SUBSET Elements
      BY <1>1
    <3> DEFINE S == {x}
    <3> HIDE DEF S
    <3>2. S \in SUBSET Elements
      BY <3>1 DEF S
    <3>3. /\ PlaceAll(m, S) \in Mappings
          /\ \A o \in Object : /\ {e \in S : Goal(e) = o} # {} => PlaceAll(m, S)[o] \in {e \in S : Goal(e) = o}
                               /\ {e \in S : Goal(e) = o} = {} => PlaceAll(m, S)[o] = m[o]
      BY <3>2, PlacedAre
    <3> QED
      BY <3>3 DEF S
  <2> DEFINE Ex(o) == {e \in {x} : Goal(e) = o}
  <2>2. Ex(c) = {x} /\ \A o : o # c => Ex(o) = {}
    OBVIOUS
  <2>3. m1 \in Mappings /\ \A o \in Object : (Ex(o) # {} => m1[o] \in Ex(o)) /\ (Ex(o) = {} => m1[o] = m[o])
    BY <2>1
  <2> HIDE DEF Ex, m1
  <2> QED
    BY <2>2, <2>3
<1> HIDE DEF m1
<1>6. /\ m2 \in Mappings
      /\ \A o \in Object : (Es(o) # {} => m2[o] \in Es(o)) /\ (Es(o) = {} => m2[o] = m1[o])
  <2>1. TypesIn(x) \in SUBSET Elements /\ m2 = PlaceAll(m1, TypesIn(x))
    BY <1>5, PlaceTypesFacts
  <2> HIDE DEF m2
  <2> QED
    BY <1>5, <2>1, PlacedAre
<1>7. Es(c) = {}
  <2>1. \A e \in TypesIn(x) : Goal(e) \in Object => Class[Goal(e)] \in TypeClasses \cup Parts
    BY TypesInFacts
  <2> QED
    BY <2>1, ClassesApart DEF Containers
<1>8. c \notin types \cup parts /\ types \cap parts = {}
  BY <1>3, <1>4, ClassesApart DEF Containers
<1> HIDE DEF m2, Es, types, parts
<1>9. m2[c] = x /\ x # None
  <2>1. x # None
    BY <1>1, ElementFacts
  <2> QED
    BY <1>5, <1>6, <1>7, <2>1
<1>10. /\ m3 \in Mappings
       /\ \A o \in Object : m3[o] = IF o \in types /\ m2[o] = None THEN Made(x, r, o) ELSE m2[o]
       /\ \A o \in types : m3[o] # None
  <2>1. \A o \in types : Front(o) \in Object
    BY <1>3
  <2>2. /\ m3 \in Mappings
        /\ \A o \in Object : /\ o \in types /\ m2[o] = None => m3[o] = Made(m2[Front(o)], r, o)
                             /\ ~(o \in types /\ m2[o] = None) => m3[o] = m2[o]
        /\ \A o \in types : m3[o] # None
    BY <1>3, <1>6, <2>1, FilledAre
  <2> HIDE DEF m3
  <2> QED
    BY <1>3, <1>9, <2>2
<1> HIDE DEF m3
<1>11. /\ p \in Mappings
       /\ \A o \in Object : p[o] = IF o \in parts /\ m3[o] = None THEN Made(m3[Front(o)], r, o) ELSE m3[o]
       /\ \A o \in parts : p[o] # None
  <2>1. \A o \in parts : Front(o) \in Object
    BY <1>3, <1>4
  <2>2. /\ p \in Mappings
        /\ \A o \in Object : /\ o \in parts /\ m3[o] = None => p[o] = Made(m3[Front(o)], r, o)
                             /\ ~(o \in parts /\ m3[o] = None) => p[o] = m3[o]
        /\ \A o \in parts : p[o] # None
    BY <1>4, <1>10, <2>1, FilledAre
  <2> HIDE DEF p
  <2> QED
    BY <2>2
<1> HIDE DEF p
<1>12. \A o \in types : p[o] = m3[o]
  BY <1>3, <1>8, <1>11
<1>13. \A o \in Object : Es(o) # {} => m2[o] \in Es(o) /\ m2[o] # None
  <2>1. \A e \in TypesIn(x) : e # None
    BY <1>5, PlaceTypesFacts, ElementFacts
  <2> QED
    BY <1>6, <2>1 DEF Es
<1>14. ASSUME NEW o \in Object
       PROVE  /\ Es(o) # {} => p[o] \in Es(o)
              /\ Es(o) = {} /\ o # c /\ m[o] # None => p[o] = m[o]
              /\ Es(o) = {} /\ o # c /\ m[o] = None /\ o \in types => p[o] = Made(x, r, o)
              /\ Es(o) = {} /\ o # c /\ m[o] = None /\ o \in parts => p[o] = Made(p[Front(o)], r, o)
              /\ Es(o) = {} /\ o # c /\ m[o] = None /\ o \notin types \cup parts => p[o] = None
  <2>1. Es(o) = {} /\ o # c => m2[o] = m[o]
    BY <1>5, <1>6
  <2>2. o \in parts => p[Front(o)] = m3[Front(o)]
    BY <1>4, <1>12
  <2> QED
    BY <1>8, <1>10, <1>11, <1>13, <2>1, <2>2
<1>15. p[c] = x /\ \A o \in types \cup parts : p[o] # None
  BY <1>8, <1>9, <1>10, <1>11, <1>12
<1> QED
  BY <1>2, <1>11, <1>14, <1>15 DEF Es, types, parts

LEMMA InterfaceIs ==
    ASSUME FilesFit, RefsFit, MadeFit, NEW m \in Mappings, NEW r \in Of({"interface"}), Goal(r) \in Object
    PROVE  LET p == PlaceInterface(m, r)
               c == Goal(r)
               own == Members(c, MemberClasses)
               arguments == UNION {Members(t, {"argument"}) : t \in own}
           IN  /\ p \in Mappings /\ p[c] = r
               /\ \A o \in Object :
                      LET es == {e \in MembersIn(r) : Goal(e) = o}
                      IN  /\ es # {} => p[o] \in es
                          /\ es = {} /\ o # c /\ m[o] # None => p[o] = m[o]
                          /\ es = {} /\ o # c /\ m[o] = None /\ o \in own => p[o] = Made(r, r, o)
                          /\ es = {} /\ o # c /\ m[o] = None /\ o \in arguments =>
                                 p[o] = Made(p[Front(o)], r, o)
                          /\ es = {} /\ o # c /\ m[o] = None /\ o \notin own \cup arguments => p[o] = None
               /\ \A o \in own \cup arguments : p[o] # None
<1> DEFINE c         == Goal(r)
           members   == Children(r, MemberClasses)
           own       == Members(c, MemberClasses)
           arguments == UNION {Members(t, {"argument"}) : t \in own}
           written   == {r} \cup MembersIn(r)
           m1        == PlaceAll(m, written)
           m2        == Fill(r, m1, own)
           p         == Fill(r, m2, arguments)
           Es(o)     == {e \in MembersIn(r) : Goal(e) = o}
<1>1. r \in Elements /\ Target(r) = c /\ r \in files /\ Kind(r) = "interface" /\ r \in Of(RootClasses) /\ r # None
  BY ElementFacts DEF Elements, Of, Kind, RootClasses
<1>2. PlaceInterface(m, r) = p
  <2>1. {r} \cup members \cup UNION {Children(e, {"argument"}) : e \in members} = written
    BY DEF MembersIn
  <2> QED
    BY <1>1, <2>1 DEF PlaceInterface
<1>3. own \in SUBSET Object /\ \A o \in own : Front(o) = c /\ Class[o] \in MemberClasses
  BY DEF Members
<1>4. arguments \in SUBSET Object /\ \A o \in arguments : Front(o) \in own /\ Class[o] = "argument"
  BY DEF Members
<1>5. Class[c] = "interface"
  BY <1>1, KindFacts
<1>6. Es(c) = {} /\ MembersIn(r) \subseteq Elements
  <2>1. MembersIn(r) \subseteq Elements
    BY ChildrenFacts DEF MembersIn
  <2>2. \A e \in MembersIn(r) : Goal(e) \in Object => Class[Goal(e)] \in MemberClasses \cup {"argument"}
    BY MembersInFacts
  <2> QED
    BY <1>5, <2>1, <2>2, ClassesApart DEF Containers
<1>7. c \notin own \cup arguments /\ own \cap arguments = {}
  BY <1>3, <1>4, <1>5, ClassesApart DEF Containers
<1>8. /\ m1 \in Mappings /\ m1[c] = r
      /\ \A o \in Object : o # c => (Es(o) # {} => m1[o] \in Es(o)) /\ (Es(o) = {} => m1[o] = m[o])
  <2>1. /\ m1 \in Mappings
        /\ \A o \in Object : /\ {e \in written : Goal(e) = o} # {} => m1[o] \in {e \in written : Goal(e) = o}
                             /\ {e \in written : Goal(e) = o} = {} => m1[o] = m[o]
    <3>1. written \in SUBSET Elements
      BY <1>1, <1>6
    <3> HIDE DEF written
    <3> QED
      BY <3>1, PlacedAre
  <2>2. {e \in written : Goal(e) = c} = {r} /\ \A o : o # c => {e \in written : Goal(e) = o} = Es(o)
    BY <1>6
  <2> DEFINE Ew(o) == {e \in written : Goal(e) = o}
  <2>3. m1 \in Mappings /\ \A o \in Object : (Ew(o) # {} => m1[o] \in Ew(o)) /\ (Ew(o) = {} => m1[o] = m[o])
    BY <2>1
  <2>4. Ew(c) = {r} /\ \A o : o # c => Ew(o) = Es(o)
    BY <2>2
  <2> HIDE DEF m1, Ew, Es
  <2> QED
    BY <2>3, <2>4
<1> HIDE DEF m1, Es, own, arguments
<1>9. /\ m2 \in Mappings
      /\ \A o \in Object : m2[o] = IF o \in own /\ m1[o] = None THEN Made(r, r, o) ELSE m1[o]
      /\ \A o \in own : m2[o] # None
  <2>1. \A o \in own : Front(o) \in Object
    BY <1>3
  <2>2. /\ m2 \in Mappings
        /\ \A o \in Object : /\ o \in own /\ m1[o] = None => m2[o] = Made(m1[Front(o)], r, o)
                             /\ ~(o \in own /\ m1[o] = None) => m2[o] = m1[o]
        /\ \A o \in own : m2[o] # None
    BY <1>1, <1>3, <1>8, <2>1, FilledAre
  <2> HIDE DEF m2
  <2> QED
    BY <1>3, <1>8, <2>2
<1> HIDE DEF m2
<1>10. /\ p \in Mappings
       /\ \A o \in Object : p[o] = IF o \in arguments /\ m2[o] = None THEN Made(m2[Front(o)], r, o) ELSE m2[o]
       /\ \A o \in arguments : p[o] # None
  <2>1. \A o \in arguments : Front(o) \in Object
    BY <1>3, <1>4
  <2>2. /\ p \in Mappings
        /\ \A o \in Object : /\ o \in arguments /\ m2[o] = None => p[o] = Made(m2[Front(o)], r, o)
                             /\ ~(o \in arguments /\ m2[o] = None) => p[o] = m2[o]
        /\ \A o \in arguments : p[o] # None
    BY <1>1, <1>4, <1>9, <2>1, FilledAre
  <2> HIDE DEF p
  <2> QED
    BY <2>2
<1> HIDE DEF p
<1>11. \A o \in own : p[o] = m2[o]
  BY <1>3, <1>7, <1>10
<1>12. \A o \in Object : Es(o) # {} => o # c /\ m1[o] \in Es(o) /\ m1[o] # None
  <2>1. \A e \in MembersIn(r) : e # None
    BY <1>6, ElementFacts
  <2> QED
    BY <1>6, <1>8, <2>1 DEF Es
<1>13. ASSUME NEW o \in Object
       PROVE  /\ Es(o) # {} => p[o] \in Es(o)
              /\ Es(o) = {} /\ o # c /\ m[o] # None => p[o] = m[o]
              /\ Es(o) = {} /\ o # c /\ m[o] = None /\ o \in own => p[o] = Made(r, r, o)
              /\ Es(o) = {} /\ o # c /\ m[o] = None /\ o \in arguments => p[o] = Made(p[Front(o)], r, o)
              /\ Es(o) = {} /\ o # c /\ m[o] = None /\ o \notin own \cup arguments => p[o] = None
  <2>1. Es(o) = {} /\ o # c => m1[o] = m[o]
    BY <1>8
  <2>2. o \in arguments => p[Front(o)] = m2[Front(o)]
    BY <1>4, <1>11
  <2> QED
    BY <1>7, <1>9, <1>10, <1>12, <2>1, <2>2
<1>14. p[c] = r /\ \A o \in own \cup arguments : p[o] # None
  BY <1>1, <1>7, <1>8, <1>9, <1>10, <1>11
<1> QED
  BY <1>2, <1>10, <1>13, <1>14 DEF Es, own, arguments

-----------------------------------------------------------------------------
(* Deployments keep one element per object.                                *)

LEMMA ChildrenAre == FilesFit /\ MadeFit =>
    \A x, classes : Children(x, classes) = {e \in Elements \ {x} : Inside(e) = x /\ Kind(e) \in classes}
<1> SUFFICES ASSUME FilesFit, MadeFit, NEW x, NEW classes
             PROVE  Children(x, classes) = {e \in Elements \ {x} : Inside(e) = x /\ Kind(e) \in classes}
  OBVIOUS
<1>1. \A e \in Elements : Owner(e) = Inside(e) /\ ClassOf(e) = Kind(e)
  BY ElementFacts
<1> QED
  BY <1>1 DEF Children

LEMMA WholeIs == FilesFit /\ MadeFit =>
    \A x : Whole(x) = {t \in Children(x, TypeClasses) : Kind(t) \in Compound \cup {"enumeration"}}
<1> SUFFICES ASSUME FilesFit, MadeFit, NEW x
             PROVE  Whole(x) = {t \in Children(x, TypeClasses) : Kind(t) \in Compound \cup {"enumeration"}}
  OBVIOUS
<1>1. \A e \in Children(x, TypeClasses) : ClassOf(e) = Kind(e)
  BY ChildrenFacts, ElementFacts
<1> QED
  BY <1>1 DEF Whole

LEMMA ChildrenGrow ==
    ASSUME FilesFit, MadeFit, MadeFit', files' = files, ref' = ref, made \subseteq made'
    PROVE  /\ Elements \subseteq Elements'
           /\ \A x, classes :
                  /\ Children(x, classes)' = {e \in Elements' \ {x} : Inside(e) = x /\ Kind(e) \in classes}
                  /\ Children(x, classes) = {e \in Elements \ {x} : Inside(e) = x /\ Kind(e) \in classes}
                  /\ Children(x, classes) \subseteq Children(x, classes)'
           /\ \A x : /\ Whole(x)' = {t \in Children(x, TypeClasses)' : Kind(t) \in Compound \cup {"enumeration"}}
                     /\ Whole(x) = {t \in Children(x, TypeClasses) : Kind(t) \in Compound \cup {"enumeration"}}
                     /\ TypesIn(x) \subseteq TypesIn(x)' /\ MembersIn(x) \subseteq MembersIn(x)'
<1>1. FilesFit'
  BY DEF FilesFit
<1>2. \A e : Inside(e)' = Inside(e) /\ Kind(e)' = Kind(e)
  BY Settled
<1>3. Elements \subseteq Elements'
  BY DEF Elements
<1>4. (\A x, classes : Children(x, classes) = {e \in Elements \ {x} : Inside(e) = x /\ Kind(e) \in classes})'
  BY <1>1, ChildrenAre, PTL
<1>5. \A x, classes : Children(x, classes)' = {e \in Elements' \ {x} : Inside(e) = x /\ Kind(e) \in classes}
  BY <1>2, <1>4
<1>6. \A x, classes : Children(x, classes) = {e \in Elements \ {x} : Inside(e) = x /\ Kind(e) \in classes}
  BY ChildrenAre
<1>7. \A x, classes : Children(x, classes) \subseteq Children(x, classes)'
  BY <1>3, <1>5, <1>6
<1>8. (\A x : Whole(x) = {t \in Children(x, TypeClasses) : Kind(t) \in Compound \cup {"enumeration"}})'
  BY <1>1, WholeIs, PTL
<1>9. \A x : Whole(x)' = {t \in Children(x, TypeClasses)' : Kind(t) \in Compound \cup {"enumeration"}}
  BY <1>2, <1>8
<1>10. \A x : Whole(x) = {t \in Children(x, TypeClasses) : Kind(t) \in Compound \cup {"enumeration"}}
  BY WholeIs
<1>11. \A x : Whole(x) \subseteq Whole(x)'
  BY <1>7, <1>9, <1>10
<1>12. \A x : TypesIn(x) \subseteq TypesIn(x)'
  BY <1>7, <1>11 DEF TypesIn
<1>13. \A x : MembersIn(x) \subseteq MembersIn(x)'
  BY <1>7 DEF MembersIn
<1> QED
  BY <1>3, <1>5, <1>6, <1>7, <1>9, <1>10, <1>12, <1>13

LEMMA InsideIsThere ==
    ASSUME Typed, MadeInPlace, NEW e \in Elements
    PROVE  Inside(e) \in Elements \cup {None}
<1>1. CASE e \in made
  BY <1>1 DEF MadeInPlace
<1>2. CASE e \in files /\ e \notin made
  <2>1. e \in Seq(Label) /\ e # <<>>
    BY <1>2, TypedFacts, LabelSequences, NoneIsNothing DEF FilesFit, None
  <2>2. CASE Len(e) = 1
    <3>1. Front(e) = None
      BY <2>1, <2>2, SubSeqEmpty DEF Front, None
    <3> QED
      BY <1>2, <3>1 DEF Inside
  <2>3. CASE Len(e) # 1
    <3>1. Len(e) > 1
      BY <2>1, <2>3, RootOfFront
    <3>2. Front(e) \in files
      BY <1>2, <3>1, TypedFacts
    <3> QED
      BY <1>2, <3>2 DEF Inside, Elements
  <2> QED
    BY <2>2, <2>3
<1> QED
  BY <1>1, <1>2 DEF Elements

LEMMA SinglesAtStart == Typed /\ made = {} => MadeInPlace /\ Singles
<1> SUFFICES ASSUME Typed, made = {} PROVE MadeInPlace /\ Singles
  OBVIOUS
<1>1. FilesFit /\ RefsFit /\ MadeFit /\ Elements = files
  BY TypedFacts DEF Elements
<1>2. \A t, classes : /\ Children(t, classes) \subseteq files
                      /\ \A e \in Children(t, classes) : Front(e) = t /\ Said[e].class \in classes
  BY <1>1, ChildrenFacts DEF Inside, Kind
<1>3. ASSUME NEW y \in Of({"interface", "types"}), NEW e \in TypesIn(y) \cup MembersIn(y)
      PROVE  e \in Counted({y})
  <2>1. y \in files /\ Len(y) = 1
    <3>1. Said[y].class \in RootClasses /\ y \in files
      BY DEF Of, RootClasses
    <3> QED
      BY <1>1, <3>1, DeploymentAssumption DEF FilesFit
  <2>2. ASSUME NEW d \in files, Front(d) = y PROVE Root(d) = y
    BY <1>1, <2>1, <2>2, StatementIn
  <2>3. ASSUME NEW d \in files, NEW t \in files, Front(t) = y, Front(d) = t PROVE Root(d) = y
    BY <1>1, <2>1, <2>3, StatementIn
  <2>4. CASE e \in Children(y, TypeClasses) \cup Children(y, MemberClasses)
    BY <1>2, <2>2, <2>4 DEF Counted, MemberClasses, OperationClasses
  <2>5. CASE \E t \in Children(y, TypeClasses) : e \in Children(t, Parts)
    BY <1>2, <2>3, <2>5 DEF Counted
  <2>6. CASE \E t \in Children(y, MemberClasses) : e \in Children(t, {"argument"})
    BY <1>2, <2>3, <2>6 DEF Counted, OperationClasses
  <2>7. Whole(y) \subseteq Children(y, TypeClasses)
    BY DEF Whole
  <2> QED
    BY <2>4, <2>5, <2>6, <2>7 DEF TypesIn, MembersIn
<1>4. Singles
  BY <1>3 DEF Singles, Single, InOrder
<1> QED
  BY <1>4 DEF MadeInPlace

\* Until the members of an interface have their turn, mappings have elements for collections and
\* for what is in them, in what has been visited.
Sources(r, m, V) == \A o \in Object : m[o] # None =>
    \/ Class[o] \in Details \cup {"typeCollection"}
    \/ Class[o] \in TypeClasses /\ \E y \in V \cup {r} : m[o] \in Children(y, TypeClasses)

LEMMA CollectionMade ==
    ASSUME FilesFit, RefsFit, MadeFit, NEW m \in Mappings, NEW r \in Of(RootClasses),
           \A o \in Object : m[o] \in Elements \cup {None},
           NEW x \in files, Goal(x) \in Object, Class[Goal(x)] = "typeCollection",
           NEW e \in Range(PlaceCollection(r, m, x)), e \notin Elements \cup {None}
    PROVE  LET p == PlaceCollection(r, m, x)
               o == Goal(e)
           IN  /\ o \in Object /\ e = p[o] /\ Kind(e) = Class[o]
               /\ m[o] = None /\ \A d \in TypesIn(x) : Goal(d) # o
               /\ \/ Class[o] \in TypeClasses /\ Front(o) = Goal(x) /\ Inside(e) = x
                  \/ /\ Class[o] \in Details /\ Inside(e) = p[Front(o)] /\ p[Front(o)] # None
                     /\ Front(o) \in Object /\ Class[Front(o)] \in TypeClasses /\ Front(Front(o)) = Goal(x)
                     /\ \/ p[Front(o)] \in TypesIn(x)
                        \/ p[Front(o)] = m[Front(o)]
                        \/ p[Front(o)] = Made(x, r, Front(o))
<1> DEFINE c     == Goal(x)
           types == Members(c, TypeClasses)
           parts == UNION {Members(t, Details) : t \in types}
           p     == PlaceCollection(r, m, x)
           Es(o) == {d \in TypesIn(x) : Goal(d) = o}
<1>1. /\ p \in Mappings /\ p[c] = x
      /\ \A o \in Object :
             /\ Es(o) # {} => p[o] \in Es(o)
             /\ Es(o) = {} /\ o # c /\ m[o] # None => p[o] = m[o]
             /\ Es(o) = {} /\ o # c /\ m[o] = None /\ o \in types => p[o] = Made(x, r, o)
             /\ Es(o) = {} /\ o # c /\ m[o] = None /\ o \in parts => p[o] = Made(p[Front(o)], r, o)
             /\ Es(o) = {} /\ o # c /\ m[o] = None /\ o \notin types \cup parts => p[o] = None
      /\ \A o \in types \cup parts : p[o] # None
  BY CollectionIs
<1>2. types \in SUBSET Object /\ \A o \in types : Front(o) = c /\ Class[o] \in TypeClasses
  BY DEF Members
<1>3. parts \in SUBSET Object /\ \A o \in parts : Front(o) \in types /\ Class[o] \in Details
  BY DEF Members
<1>4. x \in Elements /\ x \in Seq(Label) /\ TypesIn(x) \subseteq Elements
  <2>1. x \in Elements
    BY DEF Elements
  <2> QED
    BY <2>1, ElementFacts, PlaceTypesFacts
<1>5. p \in [Object -> AnyElement \cup {None}] /\ \A o \in Object : p[o] # None => Goal(p[o]) = o
  BY <1>1 DEF Mappings
<1>6. e \in {p[o] : o \in Object} /\ e # None /\ e \notin Elements
  <2>1. e \in {p[o] : o \in DOMAIN p}
    BY DEF Range
  <2> HIDE DEF p
  <2> QED
    BY <1>5, <2>1
<1> HIDE DEF p, types, parts
<1> PICK o \in Object : e = p[o]
  BY <1>6
<1>7. Goal(e) = o
  BY <1>5, <1>6
<1>8. Es(o) = {} /\ o # c /\ m[o] = None /\ o \in types \cup parts
  <2>1. Es(o) \subseteq Elements
    BY <1>4
  <2> HIDE DEF Es
  <2> QED
    BY <1>1, <1>4, <1>6, <2>1
<1>9. CASE o \in types
  <2>1. e = Made(x, r, o)
    BY <1>1, <1>8, <1>9
  <2>2. Inside(e) = x /\ Kind(e) = Class[o]
    BY <1>4, <2>1, AllMadeFacts
  <2> QED
    BY <1>2, <1>7, <1>8, <1>9, <2>2 DEF p
<1>10. CASE o \in parts
  <2> PICK f : f = Front(o)
    OBVIOUS
  <2>1. f \in types /\ p[f] # None /\ f \in Object
    BY <1>1, <1>2, <1>3, <1>10
  <2>2. p[f] \in Seq(Label)
    BY <1>5, <2>1, AnyElementFacts
  <2>3. e = Made(p[f], r, o)
    BY <1>1, <1>2, <1>3, <1>8, <1>10
  <2>4. Inside(e) = p[f] /\ Kind(e) = Class[o]
    BY <2>2, <2>3, AllMadeFacts
  <2>5. f # c
    BY <1>2, <2>1, ClassesApart DEF Containers
  <2>6. p[f] \in TypesIn(x) \/ p[f] = m[f] \/ p[f] = Made(x, r, f)
    <3> DEFINE E == Es(f)
    <3>1. E \subseteq TypesIn(x)
      OBVIOUS
    <3>2. /\ E # {} => p[f] \in E
          /\ E = {} /\ m[f] # None => p[f] = m[f]
          /\ E = {} /\ m[f] = None => p[f] = Made(x, r, f)
      BY <1>1, <2>1, <2>5
    <3> HIDE DEF E
    <3> QED
      BY <3>1, <3>2
  <2> QED
    BY <1>2, <1>3, <1>7, <1>8, <1>10, <2>1, <2>4, <2>6 DEF p
<1> QED
  BY <1>8, <1>9, <1>10

LEMMA NoneIsNoElement == FilesFit /\ MadeFit => None \notin Elements
BY ElementFacts

LEMMA OldStay ==
    ASSUME Typed, MadeFit', files' = files, ref' = ref, made \subseteq made', MadeInPlace
    PROVE  \A y : \A e \in Elements :
               /\ e \in TypesIn(y)' => e \in TypesIn(y)
               /\ e \in MembersIn(y)' => e \in MembersIn(y)
<1>1. FilesFit /\ MadeFit /\ FilesFit'
  BY TypedFacts DEF FilesFit
<1>2. /\ \A x, classes :
            /\ Children(x, classes)' = {e \in Elements' \ {x} : Inside(e) = x /\ Kind(e) \in classes}
            /\ Children(x, classes) = {e \in Elements \ {x} : Inside(e) = x /\ Kind(e) \in classes}
      /\ \A x : /\ Whole(x)' = {t \in Children(x, TypeClasses)' : Kind(t) \in Compound \cup {"enumeration"}}
                /\ Whole(x) = {t \in Children(x, TypeClasses) : Kind(t) \in Compound \cup {"enumeration"}}
  BY <1>1, ChildrenGrow
<1>3. None \notin Elements'
  <2>1. (FilesFit /\ MadeFit => None \notin Elements)'
    BY NoneIsNoElement, PTL
  <2> QED
    BY <1>1, <2>1
<1>4. \A e \in Elements : Inside(e) \in Elements \cup {None}
  BY InsideIsThere
<1>5. \A x, classes : \A e \in Elements : e \in Children(x, classes)' => e \in Children(x, classes)
  BY <1>2
<1>6. \A x, classes : \A e \in Elements : e \in Children(x, classes)' /\ x \in Elements' => x \in Elements
  BY <1>2, <1>3, <1>4
<1>7. ASSUME NEW y, NEW e \in Elements, e \in TypesIn(y)' PROVE e \in TypesIn(y)
  <2>1. CASE e \in Children(y, TypeClasses)'
    BY <1>5, <2>1 DEF TypesIn
  <2>2. CASE \E t \in Whole(y)' : e \in Children(t, Parts)'
    <3>1. PICK t \in Whole(y)' : e \in Children(t, Parts)'
      BY <2>2
    <3>2. t \in Children(y, TypeClasses)' /\ t \in Elements' /\ Kind(t) \in Compound \cup {"enumeration"}
      BY <1>2, <3>1
    <3>3. t \in Elements
      BY <1>6, <3>1, <3>2
    <3>4. t \in Children(y, TypeClasses)
      BY <1>5, <3>2, <3>3
    <3>5. t \in Whole(y)
      BY <1>2, <3>2, <3>4
    <3> QED
      BY <1>5, <3>1, <3>5 DEF TypesIn
  <2> QED
    BY <1>7, <2>1, <2>2 DEF TypesIn
<1>8. ASSUME NEW y, NEW e \in Elements, e \in MembersIn(y)' PROVE e \in MembersIn(y)
  <2>1. CASE e \in Children(y, MemberClasses)'
    BY <1>5, <2>1 DEF MembersIn
  <2>2. CASE \E t \in Children(y, MemberClasses)' : e \in Children(t, {"argument"})'
    <3>1. PICK t \in Children(y, MemberClasses)' : e \in Children(t, {"argument"})'
      BY <2>2
    <3>2. t \in Elements'
      BY <1>2, <3>1
    <3>3. t \in Elements
      BY <1>6, <3>1, <3>2
    <3>4. t \in Children(y, MemberClasses)
      BY <1>5, <3>1, <3>3
    <3> QED
      BY <1>5, <3>1, <3>4 DEF MembersIn
  <2> QED
    BY <1>8, <2>1, <2>2 DEF MembersIn
<1> QED
  BY <1>7, <1>8

LEMMA SinglesStay ==
    ASSUME Typed, MadeFit', files' = files, ref' = ref, made \subseteq made', MadeInPlace, Singles,
           \A e \in made' \ made : Inside(e) \in Elements' /\ Goal(Inside(e)) = Front(Goal(e)),
           \A e1, e2 \in made' \ made : Goal(e1) = Goal(e2) => e1 = e2,
           \A y \in Of({"interface", "types"}) : InOrder({y}) =>
               \A e \in made' \ made, d \in Elements :
                   /\ e \in TypesIn(y)' /\ d \in TypesIn(y) => Goal(d) # Goal(e)
                   /\ e \in MembersIn(y)' /\ d \in MembersIn(y) => Goal(d) # Goal(e)
    PROVE  MadeInPlace' /\ Singles'
<1>1. /\ \A e : Goal(e)' = Goal(e) /\ Inside(e)' = Inside(e)
      /\ \A classes : Of(classes)' = Of(classes)
  BY Settled
<1>2. MadeInPlace'
  <2>1. Elements \subseteq Elements'
    BY DEF Elements
  <2>2. \A e \in made : Inside(e) \in Elements' /\ Goal(Inside(e)) = Front(Goal(e))
    BY <2>1 DEF MadeInPlace
  <2>3. \A e \in made' : Inside(e) \in Elements' /\ Goal(Inside(e)) = Front(Goal(e))
    BY <2>2
  <2> QED
    BY <1>1, <2>3 DEF MadeInPlace
<1>3. \A W : InOrder(W)' = InOrder(W)
  BY <1>1 DEF InOrder, Counted
<1>4. ASSUME NEW y \in Of({"interface", "types"}), InOrder({y})
      PROVE  Single(TypesIn(y))' /\ Single(MembersIn(y))'
  <2>1. Elements' \subseteq Elements \cup (made' \ made)
    BY DEF Elements
  <2>2. TypesIn(y)' \subseteq Elements' /\ MembersIn(y)' \subseteq Elements'
    BY DEF TypesIn, MembersIn, Children, Whole
  <2>3. \A e \in Elements : (e \in TypesIn(y)' => e \in TypesIn(y)) /\ (e \in MembersIn(y)' => e \in MembersIn(y))
    BY OldStay
  <2>4. Single(TypesIn(y)) /\ Single(MembersIn(y))
    BY <1>4 DEF Singles
  <2>5. \A e \in made' \ made, d \in Elements :
                   /\ e \in TypesIn(y)' /\ d \in TypesIn(y) => Goal(d) # Goal(e)
                   /\ e \in MembersIn(y)' /\ d \in MembersIn(y) => Goal(d) # Goal(e)
    BY <1>4
  <2> PICK T : T = TypesIn(y)'
    OBVIOUS
  <2> PICK M : M = MembersIn(y)'
    OBVIOUS
  <2>6. \A e1, e2 \in T : Goal(e1) = Goal(e2) /\ Goal(e1) \in Object => e1 = e2
    BY <2>1, <2>2, <2>3, <2>4, <2>5 DEF Single
  <2>7. \A e1, e2 \in M : Goal(e1) = Goal(e2) /\ Goal(e1) \in Object => e1 = e2
    BY <2>1, <2>2, <2>3, <2>4, <2>5 DEF Single
  <2> QED
    BY <1>1, <2>6, <2>7 DEF Single
<1> QED
  BY <1>1, <1>2, <1>3, <1>4 DEF Singles

LEMMA CollectionSingles ==
    ASSUME Typed, MadeFit', files' = files, ref' = ref, MadeInPlace, Singles,
           NEW m \in Mappings, NEW r \in Of(RootClasses), \A o \in Object : m[o] \in Elements \cup {None},
           NEW x \in Of({"types"}), Goal(x) \in Object,
           NEW V \in SUBSET Of({"types"}), Sources(r, m, V), HasAll(m, V),
           Said[r].class = "interface" \/ m = Nothing,
           made' = made \cup (Range(PlaceCollection(r, m, x)) \ (files \cup {None}))
    PROVE  MadeInPlace' /\ Singles'
<1> DEFINE p   == PlaceCollection(r, m, x)
           new == made' \ made
<1>1. FilesFit /\ RefsFit /\ MadeFit /\ MadeInPlace /\ made \subseteq made'
  BY TypedFacts
<1>2. x \in files /\ Class[Goal(x)] = "typeCollection" /\ x \in Of({"interface", "types"})
  <2>1. x \in Of({"interface", "types"}) /\ Said[x].class = "types"
    BY DEF Of
  <2> QED
    BY <1>1, <2>1, RootFacts, NoneIsNothing
<1>3. /\ \A t, classes : /\ Children(t, classes)' = {e \in Elements' \ {t} : Inside(e) = t /\ Kind(e) \in classes}
                         /\ Children(t, classes) = {e \in Elements \ {t} : Inside(e) = t /\ Kind(e) \in classes}
      /\ Elements \subseteq Elements'
  BY <1>1, ChildrenGrow
<1>4. p \in Mappings /\ \A o \in Object : p[o] # None => Goal(p[o]) = o
  <2>1. p \in Mappings
    BY <1>1, <1>2, CollectionIs
  <2> HIDE DEF p
  <2> QED
    BY <2>1 DEF Mappings
<1>5. ASSUME NEW e \in new
      PROVE  /\ Goal(e) \in Object /\ e = p[Goal(e)] /\ Kind(e) = Class[Goal(e)]
             /\ m[Goal(e)] = None /\ \A d \in TypesIn(x) : Goal(d) # Goal(e)
             /\ \/ Class[Goal(e)] \in TypeClasses /\ Front(Goal(e)) = Goal(x) /\ Inside(e) = x
                \/ /\ Class[Goal(e)] \in Details /\ Inside(e) = p[Front(Goal(e))] /\ p[Front(Goal(e))] # None
                   /\ Front(Goal(e)) \in Object /\ Class[Front(Goal(e))] \in TypeClasses
                   /\ Front(Front(Goal(e))) = Goal(x)
                   /\ \/ p[Front(Goal(e))] \in TypesIn(x)
                      \/ p[Front(Goal(e))] = m[Front(Goal(e))]
                      \/ p[Front(Goal(e))] = Made(x, r, Front(Goal(e)))
  <2>1. e \in Range(p) /\ e \notin Elements \cup {None}
    <3> HIDE DEF p
    <3> QED
      BY DEF p, Elements
  <2> QED
    BY <1>1, <1>2, <2>1, CollectionMade
<1> HIDE DEF p
<1>6. \A e \in new : Inside(e) \in Elements' /\ Goal(Inside(e)) = Front(Goal(e))
  <2> TAKE e \in new
  <2>1. CASE Class[Goal(e)] \in TypeClasses
    BY <1>2, <1>5, <2>1, ClassesApart DEF Elements
  <2>2. CASE Class[Goal(e)] \in Details
    <3> PICK f : f = Front(Goal(e))
      OBVIOUS
    <3>1. f \in Object /\ p[f] # None /\ Inside(e) = p[f]
      BY <1>5, <2>2, ClassesApart
    <3>2. p[f] \in Range(p)
      BY <1>4, <3>1 DEF Mappings, Range
    <3>3. p[f] \in Elements'
      BY <3>1, <3>2 DEF Elements, p
    <3> QED
      BY <1>4, <3>1, <3>3
  <2> QED
    BY <1>5, <2>1, <2>2
<1>7. \A e1, e2 \in new : Goal(e1) = Goal(e2) => e1 = e2
  BY <1>5
<1>8. ASSUME NEW y \in Of({"interface", "types"}), InOrder({y}), NEW e \in new, NEW d \in Elements
      PROVE  /\ e \in TypesIn(y)' /\ d \in TypesIn(y) => Goal(d) # Goal(e)
             /\ e \in MembersIn(y)' /\ d \in MembersIn(y) => Goal(d) # Goal(e)
  <2>1. \A t \in TypesIn(x) : Goal(t) \in Object /\ Class[Goal(t)] \in TypeClasses => Inside(t) = x
    BY <1>1, TypesInFacts
  <2>2. e \notin MembersIn(y)'
    <3>1. MembersIn(y)' \subseteq {t \in Elements' : Kind(t) \in MemberClasses \cup {"argument"}}
      BY <1>3 DEF MembersIn
    <3> QED
      BY <1>5, <3>1, ClassesApart
  <2>3. ASSUME y = x, d \in TypesIn(y) PROVE Goal(d) # Goal(e)
    BY <1>5, <2>3
  <2>4. CASE Class[Goal(e)] \in TypeClasses /\ e \in TypesIn(y)'
    <3>1. Inside(e) = x
      BY <1>5, <2>4, ClassesApart
    <3>2. Kind(e) \notin Parts
      BY <1>5, <2>4, ClassesApart
    <3>3. Inside(e) = y
      BY <1>3, <2>4, <3>2 DEF TypesIn
    <3> QED
      BY <2>2, <2>3, <3>1, <3>3
  <2>5. CASE Class[Goal(e)] \in Details /\ e \in TypesIn(y)' /\ d \in TypesIn(y) /\ Goal(d) = Goal(e)
    <3> PICK f : f = Front(Goal(e))
      OBVIOUS
    <3>1. /\ f \in Object /\ p[f] # None /\ Inside(e) = p[f] /\ Class[f] \in TypeClasses /\ Front(f) = Goal(x)
          /\ p[f] \in TypesIn(x) \/ p[f] = m[f] \/ p[f] = Made(x, r, f)
          /\ Goal(p[f]) = f
      BY <1>4, <1>5, <2>5, ClassesApart
    <3>2. Inside(p[f]) = y
      <4>1. e \notin Children(y, TypeClasses)'
        BY <1>3, <1>5, <2>5, ClassesApart
      <4>2. PICK t \in Children(y, TypeClasses)' : e \in Children(t, Parts)'
        BY <2>5, <4>1 DEF TypesIn, Whole
      <4>3. t = Inside(e) /\ Inside(t) = y
        BY <1>3, <4>2
      <4> QED
        BY <3>1, <4>3
    <3>3. CASE p[f] \in TypesIn(x)
      BY <2>1, <2>3, <2>5, <3>1, <3>2, <3>3
    <3>4. CASE p[f] = Made(x, r, f)
      <4>1. x \in Seq(Label)
        BY <1>1, <1>2, ElementFacts DEF Elements
      <4>2. Inside(p[f]) = x
        BY <1>1, <3>1, <3>4, <4>1, AllMadeFacts
      <4> QED
        BY <2>3, <2>5, <3>2, <4>2
    <3>5. CASE p[f] = m[f]
      <4>1. m[f] # None
        BY <3>1, <3>5
      <4>2. PICK z \in V \cup {r} : m[f] \in Children(z, TypeClasses)
        BY <3>1, <4>1, ClassesApart DEF Sources, Containers
      <4>3. z = y
        BY <1>3, <3>2, <3>5, <4>2
      <4>4. Front(Goal(m[f])) = Goal(y)
        <5>1. m[f] \in Children(y, TypeClasses \cup MemberClasses)
          BY <4>2, <4>3 DEF Children
        <5> QED
          BY <1>1, <1>8, <5>1, InOrderFacts
      <4>5. Goal(y) = Goal(x)
        BY <3>1, <3>5, <4>4
      <4>6. y \in V
        <5>1. Said[r].class # "interface" => FALSE
          BY <3>1, <4>1 DEF Nothing
        <5>2. y = r => Class[Goal(y)] = "interface"
          BY <1>1, <4>5, <5>1, RootFacts, NoneIsNothing
        <5> QED
          BY <1>2, <4>2, <4>3, <4>5, <5>2
      <4>7. Goal(e) \in Content(Goal(y))
        BY <1>2, <1>5, <2>5, <3>1, <4>5 DEF Content
      <4>8. m[Goal(e)] # None
        BY <4>5, <4>6, <4>7, NoneIsNothing DEF HasAll, Covers
      <4> QED
        BY <1>5, <4>8
    <3> QED
      BY <3>1, <3>3, <3>4, <3>5
  <2> QED
    BY <1>5, <2>2, <2>4, <2>5
<1> HIDE DEF new
<1> QED
  BY <1>1, <1>6, <1>7, <1>8, SinglesStay DEF new

LEMMA InterfaceMade ==
    ASSUME FilesFit, RefsFit, MadeFit, NEW m \in Mappings, NEW r \in Of({"interface"}), Goal(r) \in Object,
           \A o \in Object : m[o] \in Elements \cup {None},
           \A o \in Object : m[o] # None => Class[o] \in TypeClasses \cup Details \cup {"typeCollection"},
           NEW e \in Range(PlaceInterface(m, r)), e \notin Elements \cup {None}
    PROVE  LET p == PlaceInterface(m, r)
               o == Goal(e)
           IN  /\ o \in Object /\ e = p[o] /\ Kind(e) = Class[o] /\ \A d \in MembersIn(r) : Goal(d) # o
               /\ \/ Class[o] \in MemberClasses /\ Front(o) = Goal(r) /\ Inside(e) = r
                  \/ /\ Class[o] = "argument" /\ Inside(e) = p[Front(o)] /\ p[Front(o)] # None
                     /\ Front(o) \in Object /\ Class[Front(o)] \in MemberClasses /\ Inside(p[Front(o)]) = r
<1> DEFINE c         == Goal(r)
           own       == Members(c, MemberClasses)
           arguments == UNION {Members(t, {"argument"}) : t \in own}
           p         == PlaceInterface(m, r)
           Es(o)     == {d \in MembersIn(r) : Goal(d) = o}
<1>1. /\ p \in Mappings /\ p[c] = r
      /\ \A o \in Object :
             /\ Es(o) # {} => p[o] \in Es(o)
             /\ Es(o) = {} /\ o # c /\ m[o] # None => p[o] = m[o]
             /\ Es(o) = {} /\ o # c /\ m[o] = None /\ o \in own => p[o] = Made(r, r, o)
             /\ Es(o) = {} /\ o # c /\ m[o] = None /\ o \in arguments => p[o] = Made(p[Front(o)], r, o)
             /\ Es(o) = {} /\ o # c /\ m[o] = None /\ o \notin own \cup arguments => p[o] = None
      /\ \A o \in own \cup arguments : p[o] # None
  BY InterfaceIs
<1>2. own \in SUBSET Object /\ \A o \in own : Front(o) = c /\ Class[o] \in MemberClasses
  BY DEF Members
<1>3. arguments \in SUBSET Object /\ \A o \in arguments : Front(o) \in own /\ Class[o] = "argument"
  BY DEF Members
<1>4. r \in files /\ r \in Elements /\ r \in Of(RootClasses) /\ r \in Seq(Label) /\ MembersIn(r) \subseteq Elements
  <2>1. r \in files /\ r \in Elements /\ r \in Of(RootClasses)
    BY DEF Elements, Of, RootClasses
  <2>2. MembersIn(r) \subseteq Elements
    BY ChildrenFacts DEF MembersIn
  <2> QED
    BY <2>1, <2>2, ElementFacts
<1>5. p \in [Object -> AnyElement \cup {None}] /\ \A o \in Object : p[o] # None => Goal(p[o]) = o
  BY <1>1 DEF Mappings
<1>6. e \in {p[o] : o \in Object} /\ e # None /\ e \notin Elements
  <2>1. e \in {p[o] : o \in DOMAIN p}
    BY DEF Range
  <2> HIDE DEF p
  <2> QED
    BY <1>5, <2>1
<1>7. Class[c] = "interface"
  BY <1>4, KindFacts DEF Of, Kind
<1> HIDE DEF p, own, arguments
<1> PICK o \in Object : e = p[o]
  BY <1>6
<1>8. Goal(e) = o
  BY <1>5, <1>6
<1>9. Es(o) = {} /\ o # c /\ m[o] = None /\ o \in own \cup arguments
  <2>1. Es(o) \subseteq Elements
    BY <1>4
  <2> HIDE DEF Es
  <2> QED
    BY <1>1, <1>4, <1>6, <2>1
<1>10. CASE o \in own
  <2>1. e = Made(r, r, o)
    BY <1>1, <1>9, <1>10
  <2>2. Inside(e) = r /\ Kind(e) = Class[o]
    BY <1>4, <2>1, AllMadeFacts
  <2> QED
    BY <1>2, <1>8, <1>9, <1>10, <2>2 DEF p
<1>11. CASE o \in arguments
  <2> PICK f : f = Front(o)
    OBVIOUS
  <2>1. f \in own /\ p[f] # None /\ f \in Object /\ Class[f] \in MemberClasses
    BY <1>1, <1>2, <1>3, <1>11
  <2>2. p[f] \in Seq(Label)
    BY <1>5, <2>1, AnyElementFacts
  <2>3. o \notin own
    BY <1>2, <1>3, <1>11, ClassesApart
  <2>4. e = Made(p[f], r, o)
    BY <1>1, <1>9, <1>11
  <2>5. Inside(e) = p[f] /\ Kind(e) = Class[o]
    BY <1>4, <2>2, <2>4, AllMadeFacts
  <2>6. f # c /\ m[f] = None
    BY <1>7, <2>1, ClassesApart DEF Containers
  <2>7. Inside(p[f]) = r
    <3> DEFINE E == Es(f)
    <3>1. \A d \in E : Inside(d) = r
      <4>1. \A d \in MembersIn(r) : Goal(d) = f => Inside(d) = r
        BY <2>1, MembersInFacts
      <4> QED
        BY <4>1
    <3>2. Inside(Made(r, r, f)) = r
      BY <1>4, <2>1, AllMadeFacts
    <3>3. /\ E # {} => p[f] \in E
          /\ E = {} => p[f] = Made(r, r, f)
      BY <1>1, <2>1, <2>6
    <3> HIDE DEF E
    <3> QED
      BY <3>1, <3>2, <3>3
  <2> QED
    BY <1>2, <1>3, <1>8, <1>9, <1>11, <2>1, <2>5, <2>7 DEF p
<1> QED
  BY <1>9, <1>10, <1>11

LEMMA InterfaceSingles ==
    ASSUME Typed, MadeFit', files' = files, ref' = ref, MadeInPlace, Singles,
           NEW m \in Mappings, NEW r \in Of({"interface"}), \A o \in Object : m[o] \in Elements \cup {None},
           Goal(r) \in Object,
           \A o \in Object : m[o] # None => Class[o] \in TypeClasses \cup Details \cup {"typeCollection"},
           made' = made \cup (Range(PlaceInterface(m, r)) \ (files \cup {None}))
    PROVE  MadeInPlace' /\ Singles'
<1> DEFINE p   == PlaceInterface(m, r)
           new == made' \ made
<1>1. FilesFit /\ RefsFit /\ MadeFit /\ MadeInPlace /\ made \subseteq made' /\ r \in files
  BY TypedFacts DEF Of
<1>2. /\ \A t, classes : Children(t, classes)' = {e \in Elements' \ {t} : Inside(e) = t /\ Kind(e) \in classes}
      /\ Elements \subseteq Elements'
  BY <1>1, ChildrenGrow
<1>3. p \in Mappings /\ \A o \in Object : p[o] # None => Goal(p[o]) = o
  <2>1. p \in Mappings
    BY <1>1, InterfaceIs
  <2> HIDE DEF p
  <2> QED
    BY <2>1 DEF Mappings
<1>4. ASSUME NEW e \in new
      PROVE  /\ Goal(e) \in Object /\ e = p[Goal(e)] /\ Kind(e) = Class[Goal(e)]
             /\ \A d \in MembersIn(r) : Goal(d) # Goal(e)
             /\ \/ Class[Goal(e)] \in MemberClasses /\ Front(Goal(e)) = Goal(r) /\ Inside(e) = r
                \/ /\ Class[Goal(e)] = "argument" /\ Inside(e) = p[Front(Goal(e))] /\ p[Front(Goal(e))] # None
                   /\ Front(Goal(e)) \in Object /\ Class[Front(Goal(e))] \in MemberClasses
                   /\ Inside(p[Front(Goal(e))]) = r
  <2>1. e \in Range(p) /\ e \notin Elements \cup {None}
    <3> HIDE DEF p
    <3> QED
      BY DEF p, Elements
  <2> QED
    BY <1>1, <2>1, InterfaceMade
<1> HIDE DEF p
<1>5. \A e \in new : Inside(e) \in Elements' /\ Goal(Inside(e)) = Front(Goal(e))
  <2> TAKE e \in new
  <2>1. CASE Class[Goal(e)] \in MemberClasses
    BY <1>1, <1>4, <2>1, ClassesApart DEF Elements
  <2>2. CASE Class[Goal(e)] = "argument"
    <3> PICK f : f = Front(Goal(e))
      OBVIOUS
    <3>1. f \in Object /\ p[f] # None /\ Inside(e) = p[f]
      BY <1>4, <2>2, ClassesApart
    <3>2. p[f] \in Range(p)
      BY <1>3, <3>1 DEF Mappings, Range
    <3>3. p[f] \in Elements'
      BY <3>1, <3>2 DEF Elements, p
    <3> QED
      BY <1>3, <3>1, <3>3
  <2> QED
    BY <1>4, <2>1, <2>2
<1>6. \A e1, e2 \in new : Goal(e1) = Goal(e2) => e1 = e2
  BY <1>4
<1>7. ASSUME NEW y \in Of({"interface", "types"}), InOrder({y}), NEW e \in new, NEW d \in Elements
      PROVE  /\ e \in TypesIn(y)' /\ d \in TypesIn(y) => Goal(d) # Goal(e)
             /\ e \in MembersIn(y)' /\ d \in MembersIn(y) => Goal(d) # Goal(e)
  <2>1. e \notin TypesIn(y)'
    <3>1. TypesIn(y)' \subseteq {t \in Elements' : Kind(t) \in TypeClasses \cup Parts}
      BY <1>2 DEF TypesIn
    <3> QED
      BY <1>4, <3>1, ClassesApart
  <2>2. e \in MembersIn(y)' => y = r
    <3>1. CASE Class[Goal(e)] \in MemberClasses /\ e \in MembersIn(y)'
      <4>1. Kind(e) # "argument" /\ Inside(e) = r
        BY <1>4, <3>1, ClassesApart
      <4> QED
        BY <1>2, <3>1, <4>1 DEF MembersIn
    <3>2. CASE Class[Goal(e)] = "argument" /\ e \in MembersIn(y)'
      <4>1. Kind(e) \notin MemberClasses /\ Inside(Inside(e)) = r
        BY <1>4, <3>2, ClassesApart
      <4>2. PICK t \in Children(y, MemberClasses)' : e \in Children(t, {"argument"})'
        BY <1>2, <3>2, <4>1 DEF MembersIn
      <4> QED
        BY <1>2, <4>1, <4>2
    <3> QED
      BY <1>4, <3>1, <3>2
  <2> QED
    BY <1>4, <2>1, <2>2
<1> HIDE DEF new
<1> QED
  BY <1>1, <1>5, <1>6, <1>7, SinglesStay DEF new

-----------------------------------------------------------------------------
(* Where mappings have their elements from.                                *)

\* The element m has for o is in the deployment y, for an object that is in what y deploys.
HasHome(m, o, y) ==
    /\ Goal(y) \in Object /\ o \in Scope(Goal(y))
    /\ o = Goal(y) => m[o] = y
    /\ Class[o] \in TypeClasses \cup Parts => m[o] \in TypesIn(y)
    /\ Class[o] \in {"key", "value"} => Inside(m[o]) \in TypesIn(y) /\ Goal(Inside(m[o])) = Front(o)
    /\ Class[o] \in MemberClasses \cup {"argument"} => m[o] \in MembersIn(y)

\* The mapping of r has elements in r and in what is used: V.
AtHome(r, m, V) == \A o \in Object : m[o] # None => \E y \in V \cup {r} : HasHome(m, o, y)
Neat(r, m, V) == InOrder(V \cup {r}) => AtHome(r, m, V)

\* V is used by r, directly or not.
Reached(r, V) ==
    /\ Said[r].class = "types" => V = {}
    /\ \A S \in SUBSET Of({"interface", "types"}) :
           r \in S /\ (\A x \in S : UsedTypes(x) \subseteq S) => V \subseteq S

Tidied(r) == Said[r].class # "extension" =>
    \E V \in SUBSET Of({"types"}) : Reached(r, V) /\ Neat(r, mapping[r], V)

Waiting == {y \in Range(work) : Said[y].class = "types"}

Tidy ==
    /\ phase \in {"map", "use", "accepted"} =>
           /\ MadeInPlace /\ Singles
           /\ \A r \in DOMAIN mapping : ~(phase = "use" /\ r = Head(todo)) => Tidied(r)
    /\ phase = "use" => LET r == Head(todo)
                        IN  /\ Sources(r, mapping[r], visited)
                            /\ Neat(r, mapping[r], visited)
                            /\ Reached(r, visited \cup Waiting)

LEMMA OrderShrinks ==
    ASSUME NEW W, NEW U \in SUBSET W, InOrder(W)
    PROVE  InOrder(U)
BY DEF InOrder, Counted

LEMMA HomesApart ==
    ASSUME FilesFit, RefsFit, NEW r \in Of({"interface", "types"}), NEW V \in SUBSET Of({"types"}),
           InOrder(V \cup {r}), NEW y \in V \cup {r}, NEW z \in V \cup {r}, Goal(y) = Goal(z), Goal(y) \in Object
    PROVE  y = z
<1>1. \A x \in V \cup {r} : /\ x \in Of({"interface", "types"})
                            /\ Said[x].class = "interface" \/ Said[x].class = "types"
                            /\ Said[x].class = "interface" => x = r
  BY DEF Of
<1>2. \A x \in {y, z} : /\ Said[x].class = "interface" => Class[Goal(y)] = "interface"
                        /\ Said[x].class = "types" => Class[Goal(y)] = "typeCollection"
                        /\ x \in files
  BY <1>1, RootFacts, NoneIsNothing
<1>3. CASE Said[y].class = "interface"
  BY <1>1, <1>2, <1>3
<1>4. CASE Said[y].class = "types"
  <2>1. Said[z].class = "types"
    BY <1>1, <1>2, <1>4
  <2>2. \A x \in {y, z} : Root(x) = x
    <3>1. \A x \in {y, z} : x \in Seq(Label) /\ x # <<>> /\ Len(x) = 1
      <4>1. \A x \in {y, z} : x \in Statement
        BY <1>2 DEF FilesFit
      <4> QED
        BY <1>4, <2>1, <4>1, DeploymentAssumption, LabelSequences, NoneIsNothing DEF RootClasses, None
    <3> QED
      BY <3>1, RootOfFront
  <2>3. y \in Counted(V \cup {r}) /\ z \in Counted(V \cup {r})
    BY <1>2, <1>4, <2>1, <2>2 DEF Counted
  <2> QED
    BY <2>3 DEF InOrder
<1> QED
  BY <1>1, <1>3, <1>4

LEMMA NeatStays ==
    ASSUME FilesFit, MadeFit, MadeFit', files' = files, ref' = ref, made \subseteq made'
    PROVE  \A r, m, V : Neat(r, m, V) => Neat(r, m, V)'
<1>1. /\ \A e : Goal(e)' = Goal(e) /\ Inside(e)' = Inside(e)
      /\ \A x : TypesIn(x) \subseteq TypesIn(x)' /\ MembersIn(x) \subseteq MembersIn(x)'
  BY Settled, ChildrenGrow
<1>2. \A W : InOrder(W)' = InOrder(W)
  BY <1>1 DEF InOrder, Counted
<1>3. \A m, o, y : HasHome(m, o, y) => HasHome(m, o, y)'
  BY <1>1 DEF HasHome
<1> QED
  BY <1>2, <1>3 DEF Neat, AtHome

LEMMA NeatWidens ==
    ASSUME NEW r, NEW m, NEW V, NEW U \in SUBSET V, Neat(r, m, U)
    PROVE  Neat(r, m, V)
<1>1. InOrder(V \cup {r}) => InOrder(U \cup {r})
  <2>1. U \cup {r} \in SUBSET (V \cup {r})
    OBVIOUS
  <2> QED
    BY <2>1, OrderShrinks
<1> QED
  BY <1>1 DEF Neat, AtHome

LEMMA KindsAre == FilesFit /\ RefsFit /\ MadeFit =>
    \A e \in Elements : Kind(e) \in TypeClasses /\ Goal(e) \in Object => Kind(e) = Class[Goal(e)]
<1> SUFFICES ASSUME FilesFit, RefsFit, MadeFit, NEW e \in Elements, Kind(e) \in TypeClasses, Goal(e) \in Object
             PROVE  Kind(e) = Class[Goal(e)]
  OBVIOUS
<1>1. Kind(e) # "types"
  BY DEF TypeClasses
<1> QED
  BY <1>1, KindFacts

LEMMA CollectionNeat ==
    ASSUME Typed, Typed', files' = files, ref' = ref, made \subseteq made', MadeInPlace,
           NEW m \in Mappings, NEW r \in Of({"interface", "types"}),
           NEW x \in Of({"types"}), Goal(x) \in Object,
           NEW V \in SUBSET Of({"types"}), Neat(r, m, V), m = Nothing \/ x \notin V \cup {r},
           NEW p, p = PlaceCollection(r, m, x), \A o \in Object : p[o] \in Elements' \cup {None}
    PROVE  Neat(r, p, V \cup {x})'
<1> DEFINE c     == Goal(x)
           types == Members(c, TypeClasses)
           parts == UNION {Members(t, Details) : t \in types}
           Es(o) == {d \in TypesIn(x) : Goal(d) = o}
           W     == V \cup {x} \cup {r}
<1>1. FilesFit /\ RefsFit /\ MadeFit /\ MadeFit' /\ FilesFit' /\ RefsFit'
  BY TypedFacts DEF Typed, FilesFit
<1>2. x \in files /\ Class[c] = "typeCollection" /\ x \in Of({"interface", "types"}) /\ r \in Of(RootClasses)
  <2>1. x \in Of({"interface", "types"}) /\ Said[x].class = "types" /\ r \in Of(RootClasses)
    BY DEF Of, RootClasses
  <2> QED
    BY <1>1, <2>1, RootFacts, NoneIsNothing
<1>3. /\ p \in Mappings /\ p[c] = x
      /\ \A o \in Object :
             /\ Es(o) # {} => p[o] \in Es(o)
             /\ Es(o) = {} /\ o # c /\ m[o] # None => p[o] = m[o]
             /\ Es(o) = {} /\ o # c /\ m[o] = None /\ o \in types => p[o] = Made(x, r, o)
             /\ Es(o) = {} /\ o # c /\ m[o] = None /\ o \in parts => p[o] = Made(p[Front(o)], r, o)
             /\ Es(o) = {} /\ o # c /\ m[o] = None /\ o \notin types \cup parts => p[o] = None
      /\ \A o \in types \cup parts : p[o] # None
  BY <1>1, <1>2, CollectionIs
<1>4. types \in SUBSET Object /\ \A o \in types : Front(o) = c /\ Class[o] \in TypeClasses
  BY DEF Members
<1>5. parts \in SUBSET Object /\ \A o \in parts : Front(o) \in types /\ Class[o] \in Details
  BY DEF Members
<1>6. \A o \in types \cup parts : o \in Scope(c)
  BY <1>4, <1>5 DEF Scope
<1>7. /\ \A e : Goal(e)' = Goal(e) /\ Inside(e)' = Inside(e) /\ Kind(e)' = Kind(e)
      /\ \A w, classes : Children(w, classes)' = {e \in Elements' \ {w} : Inside(e) = w /\ Kind(e) \in classes}
      /\ \A w : Whole(w)' = {t \in Children(w, TypeClasses)' : Kind(t) \in Compound \cup {"enumeration"}}
      /\ TypesIn(x) \subseteq TypesIn(x)'
  BY <1>1, Settled, ChildrenGrow
<1>8. \A U : InOrder(U)' = InOrder(U)
  BY <1>7 DEF InOrder, Counted
<1>9. \A o \in Object : p[o] # None => p[o] \in Elements' /\ Goal(p[o]) = o
  <2>1. \A o \in Object : p[o] # None => Goal(p[o]) = o
    BY <1>3 DEF Mappings
  <2> QED
    BY <2>1
<1> HIDE DEF types, parts, Es
<1> SUFFICES ASSUME InOrder(W) PROVE AtHome(r, p, V \cup {x})'
  <2>1. V \cup {x} \cup {r} = W
    OBVIOUS
  <2> HIDE DEF W
  <2> QED
    BY <1>8, <2>1 DEF Neat
<1>10. AtHome(r, m, V)
  <2>1. V \cup {r} \in SUBSET W
    OBVIOUS
  <2>2. InOrder(V \cup {r})
    BY <2>1, OrderShrinks
  <2> QED
    BY <2>2 DEF Neat
<1>11. \A y \in W : Goal(y) \in Object => Class[Goal(y)] \in Containers
  <2>1. \A y \in W : y \in Of({"interface", "types"}) /\ (Said[y].class = "interface" \/ Said[y].class = "types")
    BY <1>2 DEF Of
  <2> QED
    BY <1>1, <2>1, RootFacts, NoneIsNothing DEF Containers
\* nothing in x has been mapped before
<1>12. ASSUME NEW o \in Object, o \in Scope(c) PROVE m[o] = None
  <2>1. CASE m = Nothing
    BY <2>1 DEF Nothing
  <2>2. CASE x \notin V \cup {r}
    <3> SUFFICES ASSUME m[o] # None PROVE FALSE
      OBVIOUS
    <3>1. PICK y \in V \cup {r} : HasHome(m, o, y)
      BY <1>10 DEF AtHome
    <3>2. Goal(y) \in Object /\ Goal(y) = c
      <4>1. Goal(y) \in Object /\ o \in Scope(Goal(y))
        BY <3>1 DEF HasHome
      <4> QED
        BY <1>2, <1>11, <1>12, <4>1, ScopesApart DEF Containers
    <3>3. y = x
      <4> PICK U : U = V \cup {x}
        OBVIOUS
      <4>1. U \in SUBSET Of({"types"}) /\ y \in U \cup {r} /\ x \in U \cup {r} /\ InOrder(U \cup {r})
        OBVIOUS
      <4> QED
        BY <1>1, <3>2, <4>1, HomesApart
    <3> QED
      BY <2>2, <3>3
  <2> QED
    BY <2>1, <2>2
\* types have elements in x, ...
<1>13. \A e \in TypesIn(x) : Goal(e) \in Object => Goal(e) \in Scope(c)
  <2>1. x \in W
    OBVIOUS
  <2> QED
    BY <1>2, <2>1, ElementsInScope
<1>14. \A o \in types : p[o] \in Children(x, TypeClasses)'
  <2> TAKE o \in types
  <2>1. o \in Object /\ o # c /\ m[o] = None /\ Class[o] \in TypeClasses
    BY <1>2, <1>4, <1>6, <1>12, ClassesApart DEF Containers
  <2>2. CASE Es(o) # {}
    <3>1. p[o] \in TypesIn(x) /\ Goal(p[o]) = o
      BY <1>3, <2>1, <2>2 DEF Es
    <3>2. p[o] \in Children(x, TypeClasses)
      BY <1>1, <2>1, <3>1, TypesInFacts
    <3> QED
      BY <1>1, <3>2, ChildrenGrow
  <2>3. CASE Es(o) = {}
    <3>1. p[o] = Made(x, r, o)
      BY <1>3, <2>1, <2>3
    <3>2. x \in Seq(Label)
      BY <1>1, <1>2, ElementFacts DEF Elements
    <3>3. Inside(p[o]) = x /\ Kind(p[o]) = Class[o] /\ p[o] \notin files
      BY <1>1, <1>2, <2>1, <3>1, <3>2, AllMadeFacts
    <3>4. p[o] \in Elements'
      BY <1>3, <1>9, <2>1
    <3> QED
      BY <1>2, <1>7, <2>1, <3>3, <3>4
  <2> QED
    BY <2>2, <2>3
<1>15. \A e \in Children(x, TypeClasses)' : Goal(e) \in Object => Kind(e) = Class[Goal(e)]
  <2>1. \A e \in Elements' : Kind(e) \in TypeClasses /\ Goal(e) \in Object => Kind(e) = Class[Goal(e)]
    <3>1. (\A e \in Elements : Kind(e) \in TypeClasses /\ Goal(e) \in Object => Kind(e) = Class[Goal(e)])'
      BY <1>1, KindsAre, PTL
    <3> QED
      BY <1>7, <3>1
  <2> QED
    BY <1>7, <2>1
\* ... and so have their parts.
<1>16. ASSUME NEW o \in parts
       PROVE  /\ Class[o] \in Parts => p[o] \in TypesIn(x)'
              /\ Class[o] \in {"key", "value"} => Inside(p[o]) \in TypesIn(x)' /\ Goal(Inside(p[o])) = Front(o)
  <2> PICK f : f = Front(o)
    OBVIOUS
  <2>1. /\ o \in Object /\ o # c /\ m[o] = None /\ Class[o] \in Details
        /\ f \in types /\ f \in Object /\ Class[f] \in TypeClasses
    BY <1>2, <1>4, <1>5, <1>6, <1>12, ClassesApart DEF Containers
  <2>2. p[f] \in Children(x, TypeClasses)' /\ p[f] # None /\ Goal(p[f]) = f /\ p[f] \in Elements'
    BY <1>3, <1>9, <1>14, <2>1
  <2>3. CASE Es(o) # {}
    <3>1. p[o] \in TypesIn(x) /\ Goal(p[o]) = o
      BY <1>3, <2>1, <2>3 DEF Es
    <3>2. Class[o] \in Parts
      BY <1>1, <2>1, <3>1, TypesInFacts, ClassesApart
    <3> QED
      BY <1>7, <3>1, <3>2 DEF Parts
  <2>4. CASE Es(o) = {}
    <3>1. p[o] = Made(p[f], r, o)
      BY <1>3, <2>1, <2>4
    <3>2. p[f] \in Seq(Label)
      <4>1. p[f] \in AnyElement
        BY <1>3, <2>1, <2>2 DEF Mappings
      <4> QED
        BY <1>1, <4>1, AnyElementFacts
    <3>3. Inside(p[o]) = p[f] /\ Kind(p[o]) = Class[o] /\ Goal(p[o]) = o
      BY <1>1, <1>2, <2>1, <3>1, <3>2, AllMadeFacts
    <3>4. p[f] \in TypesIn(x)'
      BY <2>2 DEF TypesIn
    <3>5. ASSUME Class[o] \in Parts PROVE p[o] \in TypesIn(x)'
      <4>1. Class[f] \in Compound \cup {"enumeration"}
        BY <2>1, <3>5, ContainerAssumption
      <4>2. p[f] \in Whole(x)'
        BY <1>7, <1>15, <2>1, <2>2, <4>1
      <4>3. p[o] \in Elements'
        BY <1>3, <1>9, <2>1
      <4>4. p[o] # p[f]
        BY <2>1, <2>2, <3>3, ClassesApart
      <4>5. p[o] \in Children(p[f], Parts)'
        BY <1>7, <3>3, <3>5, <4>3, <4>4
      <4> QED
        BY <4>2, <4>5 DEF TypesIn
    <3> QED
      BY <2>2, <3>3, <3>4, <3>5
  <2> QED
    BY <2>3, <2>4
<1>17. ASSUME NEW o \in Object, p[o] # None, o \in Scope(c) PROVE HasHome(p, o, x)'
  <2>1. o \notin types \cup parts => o = c
    <3>1. o \notin types \cup parts /\ o # c => Es(o) = {}
      <4>1. \A e \in TypesIn(x) : Goal(e) \in Object => Class[Goal(e)] \in TypeClasses \cup Parts
        BY <1>1, TypesInFacts
      <4>2. Class[o] \in TypeClasses => Front(o) = c
        BY <1>2, <1>17, ScopesApart DEF Containers
      <4>3. Class[o] \in Details => Front(o) \in Object /\ Class[Front(o)] \in TypeClasses /\ Front(Front(o)) = c
        BY <1>2, <1>17, ScopesApart DEF Containers
      <4>4. Class[o] \in TypeClasses \cup Parts => o \in types \cup parts
        BY <4>2, <4>3, ClassesApart DEF types, parts, Members
      <4> QED
        BY <4>1, <4>4 DEF Es
    <3>2. m[o] = None
      BY <1>12, <1>17
    <3> QED
      BY <1>3, <1>17, <3>1, <3>2
  <2>2. o \in types \cup parts => o # c /\ Class[o] \in TypeClasses \cup Details
    BY <1>2, <1>4, <1>5, ClassesApart DEF Containers
  <2>3. o = c => p[o] = x
    BY <1>3
  <2>4. Class[o] \in TypeClasses \cup Parts => p[o] \in TypesIn(x)'
    <3>1. o \in types => p[o] \in TypesIn(x)'
      BY <1>14 DEF TypesIn
    <3>2. Class[c] \notin TypeClasses \cup Parts
      BY <1>2, ClassesApart DEF Containers
    <3>3. o \in parts => Class[o] \notin TypeClasses
      BY <1>5, ClassesApart
    <3> QED
      BY <1>16, <2>1, <3>1, <3>2, <3>3
  <2>5. Class[o] \in {"key", "value"} => Inside(p[o]) \in TypesIn(x)' /\ Goal(Inside(p[o])) = Front(o)
    <3>1. Class[o] \in {"key", "value"} => o \in parts
      BY <1>2, <1>4, <2>1, ClassesApart DEF Containers, Details
    <3> QED
      BY <1>16, <3>1
  <2>6. Class[o] \notin MemberClasses \cup {"argument"}
    BY <1>2, <2>1, <2>2, ClassesApart DEF Containers
  <2> QED
    BY <1>7, <1>17, <2>3, <2>4, <2>5, <2>6 DEF HasHome
<1>18. ASSUME NEW o \in Object, p[o] # None, o \notin Scope(c) PROVE \E y \in V \cup {r} : HasHome(p, o, y)'
  <2>1. o # c /\ o \notin types \cup parts /\ Es(o) = {}
    <3>1. o # c
      BY <1>18 DEF Scope
    <3> QED
      BY <1>6, <1>13, <1>18, <3>1 DEF Es
  <2>2. m[o] # None /\ p[o] = m[o]
    BY <1>3, <1>18, <2>1
  <2>3. PICK y \in V \cup {r} : HasHome(m, o, y)
    BY <1>10, <2>2 DEF AtHome
  <2>4. TypesIn(y) \subseteq TypesIn(y)' /\ MembersIn(y) \subseteq MembersIn(y)'
    BY <1>1, ChildrenGrow
  <2>5. HasHome(p, o, y)'
    BY <1>7, <2>2, <2>3, <2>4 DEF HasHome
  <2> QED
    BY <2>5
<1>19. \A o \in Object : p[o] # None => \E y \in V \cup {x} \cup {r} : HasHome(p, o, y)'
  BY <1>17, <1>18
<1> QED
  BY <1>19 DEF AtHome

LEMMA InterfaceNeat ==
    ASSUME Typed, Typed', files' = files, ref' = ref, made \subseteq made', MadeInPlace,
           NEW m \in Mappings, NEW r \in Of({"interface"}), Goal(r) \in Object,
           NEW V \in SUBSET Of({"types"}), Neat(r, m, V),
           NEW p, p = PlaceInterface(m, r), \A o \in Object : p[o] \in Elements' \cup {None}
    PROVE  Neat(r, p, V)'
<1> DEFINE c         == Goal(r)
           own       == Members(c, MemberClasses)
           arguments == UNION {Members(t, {"argument"}) : t \in own}
           Es(o)     == {d \in MembersIn(r) : Goal(d) = o}
           W         == V \cup {r}
<1>1. FilesFit /\ RefsFit /\ MadeFit /\ MadeFit' /\ FilesFit' /\ RefsFit'
  BY TypedFacts DEF Typed, FilesFit
<1>2. r \in files /\ Class[c] = "interface" /\ r \in Of({"interface", "types"}) /\ r \in Of(RootClasses)
  <2>1. r \in Of({"interface", "types"}) /\ Said[r].class = "interface" /\ r \in Of(RootClasses)
    BY DEF Of, RootClasses
  <2> QED
    BY <1>1, <2>1, RootFacts, NoneIsNothing
<1>3. /\ p \in Mappings /\ p[c] = r
      /\ \A o \in Object :
             /\ Es(o) # {} => p[o] \in Es(o)
             /\ Es(o) = {} /\ o # c /\ m[o] # None => p[o] = m[o]
             /\ Es(o) = {} /\ o # c /\ m[o] = None /\ o \in own => p[o] = Made(r, r, o)
             /\ Es(o) = {} /\ o # c /\ m[o] = None /\ o \in arguments => p[o] = Made(p[Front(o)], r, o)
             /\ Es(o) = {} /\ o # c /\ m[o] = None /\ o \notin own \cup arguments => p[o] = None
      /\ \A o \in own \cup arguments : p[o] # None
  BY <1>1, InterfaceIs
<1>4. own \in SUBSET Object /\ \A o \in own : Front(o) = c /\ Class[o] \in MemberClasses
  BY DEF Members
<1>5. arguments \in SUBSET Object /\ \A o \in arguments : Front(o) \in own /\ Class[o] = "argument"
  BY DEF Members
<1>6. \A o \in own \cup arguments : o \in Scope(c)
  BY <1>4, <1>5 DEF Scope
<1>7. /\ \A e : Goal(e)' = Goal(e) /\ Inside(e)' = Inside(e) /\ Kind(e)' = Kind(e)
      /\ \A w, classes : Children(w, classes)' = {e \in Elements' \ {w} : Inside(e) = w /\ Kind(e) \in classes}
      /\ \A y : TypesIn(y) \subseteq TypesIn(y)' /\ MembersIn(y) \subseteq MembersIn(y)'
      /\ \A w, classes : Children(w, classes) \subseteq Children(w, classes)'
  BY <1>1, Settled, ChildrenGrow
<1>8. \A U : InOrder(U)' = InOrder(U)
  BY <1>7 DEF InOrder, Counted
<1>9. \A o \in Object : p[o] # None => p[o] \in Elements' /\ Goal(p[o]) = o
  <2>1. \A o \in Object : p[o] # None => Goal(p[o]) = o
    BY <1>3 DEF Mappings
  <2> QED
    BY <2>1
<1> HIDE DEF own, arguments, Es
<1> SUFFICES ASSUME InOrder(W) PROVE AtHome(r, p, V)'
  BY <1>8 DEF Neat
<1>10. AtHome(r, m, V)
  BY DEF Neat
<1>11. /\ \A e \in MembersIn(r) : Goal(e) \in Object => Goal(e) \in Scope(c)
       /\ \A e \in MembersIn(r) : Goal(e) \in Object => Class[Goal(e)] \in MemberClasses \cup {"argument"}
       /\ \A e \in MembersIn(r) : Goal(e) \in Object /\ Class[Goal(e)] \in MemberClasses =>
              e \in Children(r, MemberClasses)
  <2>1. r \in W
    OBVIOUS
  <2> QED
    BY <1>1, <1>2, <2>1, ElementsInScope, MembersInFacts
<1>12. \A o \in own : m[o] # None => Es(o) # {}
  <2> SUFFICES ASSUME NEW o \in own, m[o] # None PROVE Es(o) # {}
    OBVIOUS
  <2>1. PICK y \in V \cup {r} : HasHome(m, o, y)
    BY <1>4, <1>10 DEF AtHome
  <2>2. o \in Object /\ m[o] \in MembersIn(y) /\ Goal(y) \in Object /\ o \in Scope(Goal(y))
    BY <1>4, <2>1 DEF HasHome
  <2>3. Class[Goal(y)] \in Containers
    <3>1. y \in Of({"interface", "types"}) /\ (Said[y].class = "interface" \/ Said[y].class = "types")
      BY <1>2 DEF Of
    <3> QED
      BY <1>1, <2>2, <3>1, RootFacts, NoneIsNothing DEF Containers
  <2>4. Goal(y) = c
    BY <1>2, <1>6, <2>2, <2>3, ScopesApart DEF Containers
  <2>5. y = r
    BY <1>1, <1>2, <2>2, <2>4, HomesApart
  <2>6. Goal(m[o]) = o
    BY <2>2 DEF Mappings
  <2> QED
    BY <2>2, <2>5, <2>6 DEF Es
<1>13. \A o \in own : p[o] \in Children(r, MemberClasses)'
  <2> TAKE o \in own
  <2>1. o \in Object /\ o # c /\ Class[o] \in MemberClasses
    BY <1>2, <1>4, ClassesApart DEF Containers
  <2>2. CASE Es(o) # {}
    <3>1. p[o] \in MembersIn(r) /\ Goal(p[o]) = o
      BY <1>3, <2>1, <2>2 DEF Es
    <3> QED
      BY <1>7, <1>11, <2>1, <3>1
  <2>3. CASE Es(o) = {}
    <3>1. p[o] = Made(r, r, o)
      BY <1>3, <1>12, <2>1, <2>3
    <3>2. r \in Seq(Label)
      BY <1>1, <1>2, ElementFacts DEF Elements
    <3>3. Inside(p[o]) = r /\ Kind(p[o]) = Class[o] /\ p[o] \notin files
      BY <1>1, <1>2, <2>1, <3>1, <3>2, AllMadeFacts
    <3>4. p[o] \in Elements'
      BY <1>3, <1>9, <2>1
    <3> QED
      BY <1>2, <1>7, <2>1, <3>3, <3>4
  <2> QED
    BY <2>2, <2>3
<1>14. ASSUME NEW o \in arguments, Es(o) = {}, m[o] = None PROVE p[o] \in MembersIn(r)'
  <2> PICK f : f = Front(o)
    OBVIOUS
  <2>1. o \in Object /\ o # c /\ Class[o] = "argument" /\ f \in own /\ f \in Object /\ Class[f] \in MemberClasses
    BY <1>2, <1>4, <1>5, ClassesApart DEF Containers
  <2>2. p[f] \in Children(r, MemberClasses)' /\ p[f] # None /\ Goal(p[f]) = f
    BY <1>3, <1>9, <1>13, <2>1
  <2>3. p[o] = Made(p[f], r, o)
    BY <1>3, <1>14, <2>1
  <2>4. p[f] \in Seq(Label)
    <3>1. p[f] \in AnyElement
      BY <1>3, <2>1, <2>2 DEF Mappings
    <3> QED
      BY <1>1, <3>1, AnyElementFacts
  <2>5. Inside(p[o]) = p[f] /\ Kind(p[o]) = Class[o] /\ Goal(p[o]) = o
    BY <1>1, <1>2, <2>1, <2>3, <2>4, AllMadeFacts
  <2>6. p[o] \in Elements' /\ p[o] # p[f]
    BY <1>3, <1>9, <2>1, <2>2, <2>5, ClassesApart
  <2>7. p[o] \in Children(p[f], {"argument"})'
    BY <1>7, <2>1, <2>5, <2>6
  <2> QED
    BY <2>2, <2>7 DEF MembersIn
<1>15. ASSUME NEW o \in Object, p[o] # None, Es(o) = {}, o # c, m[o] # None
       PROVE  \E y \in V \cup {r} : HasHome(p, o, y)'
  <2>1. p[o] = m[o]
    BY <1>3, <1>15
  <2>2. PICK y \in V \cup {r} : HasHome(m, o, y)
    BY <1>10, <1>15 DEF AtHome
  <2>3. HasHome(p, o, y)'
    BY <1>7, <2>1, <2>2 DEF HasHome
  <2> QED
    BY <2>3
<1>16. ASSUME NEW o \in Object, p[o] # None, Es(o) # {} \/ o = c \/ m[o] = None
       PROVE  HasHome(p, o, r)'
  <2>1. Es(o) # {} => /\ p[o] \in MembersIn(r)' /\ o \in Scope(c)
                      /\ Class[o] \in MemberClasses \cup {"argument"}
    <3>1. Es(o) # {} => p[o] \in MembersIn(r) /\ Goal(p[o]) = o
      BY <1>3 DEF Es
    <3> QED
      BY <1>7, <1>11, <3>1
  <2>2. Es(o) = {} /\ o # c => o \in own \cup arguments
    BY <1>3, <1>16
  <2>3. Es(o) = {} /\ o # c => /\ p[o] \in MembersIn(r)' /\ o \in Scope(c)
                               /\ Class[o] \in MemberClasses \cup {"argument"}
    <3>1. o \in own => p[o] \in MembersIn(r)'
      BY <1>13 DEF MembersIn
    <3> QED
      BY <1>4, <1>5, <1>6, <1>14, <1>16, <2>2, <3>1
  <2>4. o = c => p[o] = r /\ o \in Scope(c) /\ Class[o] \notin TypeClasses \cup Details \cup MemberClasses \cup {"argument"}
    BY <1>2, <1>3, ClassesApart DEF Scope, Containers
  <2>5. o # c => Class[o] \notin TypeClasses \cup Details
    BY <2>1, <2>3, ClassesApart
  <2>6. Parts \subseteq Details /\ {"key", "value"} \subseteq Details
    BY DEF Details
  <2> QED
    BY <1>7, <2>1, <2>3, <2>4, <2>5, <2>6 DEF HasHome
<1>17. \A o \in Object : p[o] # None => \E y \in V \cup {r} : HasHome(p, o, y)'
  BY <1>15, <1>16
<1> QED
  BY <1>17 DEF AtHome

LEMMA TypesNeat ==
    ASSUME Typed, MadeInPlace, NEW r \in Of({"interface", "types"}), Goal(r) \in Object,
           NEW p, p = PlaceTypes(Nothing, r)
    PROVE  /\ Neat(r, p, {}) /\ Sources(r, p, {})
           /\ Range(p) \subseteq Elements \cup {None}
<1>1. FilesFit /\ RefsFit /\ MadeFit
  BY TypedFacts
<1>2. /\ p \in Mappings /\ TypesIn(r) \in SUBSET Elements /\ p = PlaceAll(Nothing, TypesIn(r))
      /\ Nothing \in Mappings
  BY <1>1, PlaceTypesFacts, NothingIsMapping
<1>3. \A o \in Object : p[o] # None => p[o] \in TypesIn(r) /\ Goal(p[o]) = o
  <2>1. \A o \in Object : /\ {e \in TypesIn(r) : Goal(e) = o} # {} => p[o] \in {e \in TypesIn(r) : Goal(e) = o}
                          /\ {e \in TypesIn(r) : Goal(e) = o} = {} => p[o] = Nothing[o]
    BY <1>1, <1>2, PlacedAre
  <2> TAKE o \in Object
  <2> DEFINE E == {e \in TypesIn(r) : Goal(e) = o}
  <2>2. (E # {} => p[o] \in E) /\ (E = {} => p[o] = None)
    BY <2>1 DEF Nothing
  <2>3. \A e \in E : e \in TypesIn(r) /\ Goal(e) = o
    OBVIOUS
  <2> HIDE DEF E
  <2> QED
    BY <2>2, <2>3
<1>4. Range(p) \subseteq Elements \cup {None}
  <2>1. \A o \in Object : p[o] \in Elements \cup {None}
    BY <1>2, <1>3
  <2> QED
    BY <1>2, <2>1 DEF Mappings, Range
<1>5. ASSUME NEW o \in Object, p[o] # None
      PROVE  /\ Class[o] \in TypeClasses \cup Parts
             /\ Class[o] \in TypeClasses => p[o] \in Children(r, TypeClasses)
             /\ InOrder({} \cup {r}) => HasHome(p, o, r)
  <2>1. /\ Class[o] \in TypeClasses \cup Parts
        /\ Class[o] \in TypeClasses => p[o] \in Children(r, TypeClasses)
    BY <1>1, <1>3, <1>5, TypesInFacts
  <2>2. Class[Goal(r)] \in Containers
    <3>1. Said[r].class = "interface" \/ Said[r].class = "types"
      BY DEF Of
    <3> QED
      BY <1>1, <3>1, RootFacts, NoneIsNothing DEF Containers
  <2>3. ASSUME InOrder({} \cup {r}) PROVE o \in Scope(Goal(r))
    <3>1. r \in {} \cup {r}
      OBVIOUS
    <3> QED
      BY <1>3, <1>5, <2>3, <3>1, ElementsInScope
  <2>4. o # Goal(r) /\ Class[o] \notin {"key", "value"} \cup MemberClasses \cup {"argument"}
    <3>1. Class[o] \in Parts => Class[o] \notin {"key", "value"}
      BY DEF Parts
    <3>2. Class[o] \in TypeClasses => Class[o] \notin {"key", "value"}
      BY DEF TypeClasses
    <3> QED
      BY <2>1, <2>2, <3>1, <3>2, ClassesApart
  <2> QED
    BY <1>3, <1>5, <2>1, <2>3, <2>4 DEF HasHome
<1> QED
  BY <1>4, <1>5, ClassesApart DEF Neat, AtHome, Sources

LEMMA CollectionSources ==
    ASSUME Typed, MadeFit', files' = files, ref' = ref, made \subseteq made',
           NEW m \in Mappings, NEW r \in Of(RootClasses), NEW x \in Of({"types"}), Goal(x) \in Object,
           NEW V, Sources(r, m, V),
           NEW p, p = PlaceCollection(r, m, x), \A o \in Object : p[o] \in Elements' \cup {None}
    PROVE  Sources(r, p, V \cup {x})'
<1> DEFINE c     == Goal(x)
           types == Members(c, TypeClasses)
           parts == UNION {Members(t, Details) : t \in types}
           Es(o) == {d \in TypesIn(x) : Goal(d) = o}
<1>1. FilesFit /\ RefsFit /\ MadeFit
  BY TypedFacts
<1>2. x \in files /\ Class[c] = "typeCollection"
  <2>1. x \in Of({"interface", "types"}) /\ Said[x].class = "types"
    BY DEF Of
  <2> QED
    BY <1>1, <2>1, RootFacts, NoneIsNothing
<1>3. /\ p \in Mappings /\ p[c] = x
      /\ \A o \in Object :
             /\ Es(o) # {} => p[o] \in Es(o)
             /\ Es(o) = {} /\ o # c /\ m[o] # None => p[o] = m[o]
             /\ Es(o) = {} /\ o # c /\ m[o] = None /\ o \in types => p[o] = Made(x, r, o)
             /\ Es(o) = {} /\ o # c /\ m[o] = None /\ o \in parts => p[o] = Made(p[Front(o)], r, o)
             /\ Es(o) = {} /\ o # c /\ m[o] = None /\ o \notin types \cup parts => p[o] = None
  BY <1>1, <1>2, CollectionIs
<1>4. types \in SUBSET Object /\ \A o \in types : Front(o) = c /\ Class[o] \in TypeClasses
  BY DEF Members
<1>5. \A o \in parts : Class[o] \in Details
  BY DEF Members
<1>6. /\ \A w, classes : Children(w, classes)' = {e \in Elements' \ {w} : Inside(e) = w /\ Kind(e) \in classes}
      /\ \A w, classes : Children(w, classes) \subseteq Children(w, classes)'
  BY <1>1, ChildrenGrow
<1> HIDE DEF types, parts, Es
<1> SUFFICES ASSUME NEW o \in Object, p[o] # None
             PROVE  \/ Class[o] \in Details \cup {"typeCollection"}
                    \/ Class[o] \in TypeClasses /\ \E y \in V \cup {x} \cup {r} : p[o] \in Children(y, TypeClasses)'
  BY DEF Sources
<1>7. CASE Es(o) # {}
  <2>1. p[o] \in TypesIn(x) /\ Goal(p[o]) = o
    BY <1>3, <1>7 DEF Es
  <2>2. Class[o] \in TypeClasses \cup Parts /\ (Class[o] \in TypeClasses => p[o] \in Children(x, TypeClasses))
    BY <1>1, <2>1, TypesInFacts
  <2> QED
    BY <1>6, <2>2, ClassesApart
<1>8. CASE o = c
  BY <1>2, <1>8
<1>9. CASE Es(o) = {} /\ o # c /\ m[o] # None
  <2>1. p[o] = m[o]
    BY <1>3, <1>9
  <2> QED
    BY <1>6, <1>9, <2>1 DEF Sources
<1>10. CASE Es(o) = {} /\ o # c /\ m[o] = None /\ o \in types
  <2>1. p[o] = Made(x, r, o) /\ Class[o] \in TypeClasses
    BY <1>3, <1>4, <1>10
  <2>2. x \in Seq(Label)
    BY <1>1, <1>2, ElementFacts DEF Elements
  <2>3. Inside(p[o]) = x /\ Kind(p[o]) = Class[o] /\ p[o] \notin files /\ p[o] \in Elements'
    BY <1>1, <2>1, <2>2, AllMadeFacts
  <2>4. p[o] \in Children(x, TypeClasses)'
    BY <1>2, <1>6, <2>1, <2>3
  <2> QED
    BY <2>1, <2>4
<1>11. CASE Es(o) = {} /\ o # c /\ m[o] = None /\ o \notin types
  BY <1>3, <1>5, <1>11
<1> QED
  BY <1>7, <1>8, <1>9, <1>10, <1>11

LEMMA SinglesUnchanged ==
    ASSUME files' = files, ref' = ref, made' = made
    PROVE  /\ MadeInPlace' = MadeInPlace /\ Singles' = Singles
           /\ \A r, m, V : Neat(r, m, V)' = Neat(r, m, V) /\ Sources(r, m, V)' = Sources(r, m, V)
<1>1. /\ \A e : Goal(e)' = Goal(e) /\ Inside(e)' = Inside(e) /\ Kind(e)' = Kind(e)
      /\ \A classes : Of(classes)' = Of(classes)
  BY Settled
<1>2. Elements' = Elements /\ \A x, classes : Children(x, classes)' = Children(x, classes)
  BY DEF Elements, Children, Owner, ClassOf, Target
<1>3. \A e : ClassOf(e)' = ClassOf(e)
  BY DEF ClassOf, Target
<1>4. \A x : Whole(x)' = Whole(x)
  BY <1>2, <1>3 DEF Whole
<1>5. \A x : TypesIn(x)' = TypesIn(x) /\ MembersIn(x)' = MembersIn(x)
  BY <1>2, <1>4 DEF TypesIn, MembersIn
<1>6. \A W : InOrder(W)' = InOrder(W)
  BY <1>1 DEF InOrder, Counted
<1>7. \A m, o, y : HasHome(m, o, y)' = HasHome(m, o, y)
  BY <1>1, <1>5 DEF HasHome
<1>8. MadeInPlace' = MadeInPlace
  BY <1>1, <1>2 DEF MadeInPlace
<1>9. Singles' = Singles
  BY <1>1, <1>5, <1>6 DEF Singles, Single
<1>10. \A r, m, V : Neat(r, m, V)' = Neat(r, m, V)
  BY <1>6, <1>7 DEF Neat, AtHome
<1>11. \A r, m, V : Sources(r, m, V)' = Sources(r, m, V)
  BY <1>2 DEF Sources
<1> QED
  BY <1>8, <1>9, <1>10, <1>11

LEMMA ReachedStays ==
    ASSUME files' = files, ref' = ref
    PROVE  \A r, V : Reached(r, V)' = Reached(r, V)
<1>1. \A x : UsedTypes(x)' = UsedTypes(x)
  BY SettledUses
<1>2. \A classes : Of(classes)' = Of(classes)
  BY Settled
<1> QED
  BY <1>1, <1>2 DEF Reached

LEMMA OthersTidy ==
    ASSUME Typed, MadeFit', files' = files, ref' = ref, made \subseteq made',
           NEW d \in DOMAIN mapping, mapping'[d] = mapping[d], Tidied(d)
    PROVE  Tidied(d)'
<1>1. FilesFit /\ MadeFit /\ Of({"types"})' = Of({"types"})
  BY TypedFacts, Settled
<1>2. \A r, m, V : Neat(r, m, V) => Neat(r, m, V)'
  BY <1>1, NeatStays
<1>3. \A r, V : Reached(r, V)' = Reached(r, V)
  BY ReachedStays
<1> SUFFICES ASSUME Said[d].class # "extension"
             PROVE  \E V \in SUBSET Of({"types"})' : Reached(d, V)' /\ Neat(d, mapping[d], V)'
  BY DEF Tidied
<1> PICK V \in SUBSET Of({"types"}) : Reached(d, V) /\ Neat(d, mapping[d], V)
  BY DEF Tidied
<1> PICK m : m = mapping[d]
  OBVIOUS
<1>4. Neat(d, m, V)' /\ mapping'[d] = m
  BY <1>2
<1>5. Neat(d, mapping[d], V)'
  BY <1>4 DEF Neat, AtHome, HasHome
<1> QED
  BY <1>1, <1>3, <1>5

LEMMA SkipRootTidy ==
    ASSUME Typed, Tidy, SkipRoot
    PROVE  Tidy'
<1> PICK r : r = Head(todo)
  OBVIOUS
<1>1. /\ files' = files /\ ref' = ref /\ phase = "map" /\ phase' = "map" /\ made' = made
      /\ mapping' = Mapped(r, Nothing)
  BY DEF SkipRoot
<1>2. MadeInPlace' /\ Singles'
  BY <1>1, SinglesUnchanged DEF Tidy
<1>3. mapping'[r] = Nothing /\ DOMAIN mapping' = DOMAIN mapping \cup {r}
      /\ \A d \in DOMAIN mapping \ {r} : mapping'[d] = mapping[d]
  BY <1>1 DEF Mapped
<1>4. Tidied(r)'
  <2>1. Reached(r, {})' /\ {} \in SUBSET Of({"types"})'
    BY DEF Reached
  <2>2. \A o \in Object : mapping'[r][o] = None
    BY <1>3 DEF Nothing
  <2>3. Neat(r, mapping[r], {})'
    BY <2>2 DEF Neat, AtHome
  <2> QED
    BY <2>1, <2>3 DEF Tidied
<1>5. MadeFit'
  BY <1>1, Settled DEF Typed, MadeFit
<1>6. ASSUME NEW d \in DOMAIN mapping \ {r} PROVE Tidied(d)'
  <2>1. Tidied(d)
    BY <1>1, <1>6 DEF Tidy
  <2> QED
    BY <1>1, <1>3, <1>5, <2>1, OthersTidy
<1> QED
  BY <1>1, <1>2, <1>3, <1>4, <1>6 DEF Tidy

LEMMA MapTypesTidy ==
    ASSUME Typed, Typed', Tidy, MapTypes
    PROVE  Tidy'
<1> PICK r : r = Head(todo)
  OBVIOUS
<1> PICK m : m = PlaceCollection(r, Nothing, r)
  OBVIOUS
<1>1. /\ files' = files /\ ref' = ref /\ phase = "map" /\ phase' = "map" /\ todo # <<>>
      /\ Said[r].class = "types" /\ Target(r) # None /\ Store(m)
  BY DEF MapTypes
<1>2. FilesFit /\ RefsFit /\ MadeFit /\ MadeFit' /\ MadeInPlace /\ Singles /\ Nothing \in Mappings
  BY <1>1, TypedFacts, NothingIsMapping DEF Tidy, Typed
<1>3. r \in Of(RootClasses) /\ r \in Of({"interface", "types"}) /\ r \in Of({"types"}) /\ r \in files
  BY <1>1 DEF Typed, TypeOK, Of
<1>4. Goal(r) \in Object /\ Class[Goal(r)] = "typeCollection"
  <2>1. Target(r) = Goal(r)
    BY <1>2, <1>3, ElementFacts DEF Elements
  <2> QED
    BY <1>1, <1>2, <1>3, <2>1, RootFacts
<1>5. m \in Mappings
  BY <1>2, <1>3, <1>4, PlaceCollectionFacts
<1>6. /\ made \subseteq made' /\ Range(m) \subseteq files' \cup made' \cup {None}
      /\ mapping'[r] = m /\ DOMAIN mapping' = DOMAIN mapping \cup {r}
      /\ \A d \in DOMAIN mapping \ {r} : mapping'[d] = mapping[d]
  BY <1>1, <1>5, StoreFacts
<1>7. made' = made \cup (Range(PlaceCollection(r, Nothing, r)) \ (files \cup {None}))
  BY <1>1, <1>6 DEF Store
<1>8. \A o \in Object : m[o] \in Elements' \cup {None}
  BY <1>5, <1>6 DEF Mappings, Range, Elements
<1>9. MadeInPlace' /\ Singles'
  <2>1. /\ \A o \in Object : Nothing[o] \in Elements \cup {None}
        /\ Sources(r, Nothing, {}) /\ HasAll(Nothing, {}) /\ {} \in SUBSET Of({"types"})
    BY DEF Nothing, Sources, HasAll
  <2> QED
    BY <1>1, <1>2, <1>3, <1>4, <1>7, <2>1, CollectionSingles
<1>10. Tidied(r)'
  <2>1. Neat(r, Nothing, {}) /\ {} \in SUBSET Of({"types"})
    BY DEF Nothing, Neat, AtHome
  <2>2. Neat(r, m, {} \cup {r})'
    BY <1>1, <1>2, <1>3, <1>4, <1>6, <1>8, <2>1, CollectionNeat
  <2>3. Neat(r, m, {})' /\ mapping'[r] = m
    <3>1. {} \cup {r} = {r} /\ {} \cup {r} \cup {r} = {r}
      OBVIOUS
    <3>2. \A W : W = {} \cup {r} => Neat(r, m, W)'
      BY <2>2
    <3>3. Neat(r, m, {r})'
      BY <3>2
    <3>4. {r} \cup {r} = {r}
      OBVIOUS
    <3>5. Neat(r, m, {})'
      BY <3>3 DEF Neat, AtHome
    <3> QED
      BY <1>6, <3>5
  <2>4. Neat(r, mapping[r], {})'
    BY <2>3 DEF Neat, AtHome, HasHome
  <2>5. Reached(r, {})' /\ {} \in SUBSET Of({"types"})'
    BY DEF Reached
  <2> QED
    BY <2>4, <2>5 DEF Tidied
<1>11. ASSUME NEW d \in DOMAIN mapping \ {r} PROVE Tidied(d)'
  <2>1. Tidied(d)
    BY <1>1, <1>11 DEF Tidy
  <2> QED
    BY <1>1, <1>2, <1>6, <2>1, OthersTidy
<1> QED
  BY <1>1, <1>6, <1>9, <1>10, <1>11 DEF Tidy

LEMMA StartMapperTidy ==
    ASSUME Typed, Typed', Tidy, StartMapper
    PROVE  Tidy'
<1> PICK r : r = Head(todo)
  OBVIOUS
<1> PICK m : m = PlaceTypes(Nothing, r)
  OBVIOUS
<1>1. /\ files' = files /\ ref' = ref /\ phase = "map" /\ phase' = "use" /\ todo # <<>> /\ todo' = todo
      /\ Said[r].class = "interface" /\ Target(r) # None /\ Store(m)
      /\ work' = Uses(r) /\ visited' = {}
  BY DEF StartMapper
<1>2. FilesFit /\ RefsFit /\ MadeFit /\ MadeFit' /\ MadeInPlace /\ Singles
  BY <1>1, TypedFacts DEF Tidy, Typed
<1>3. r \in Of(RootClasses) /\ r \in Of({"interface", "types"}) /\ r \in files
  BY <1>1 DEF Typed, TypeOK, Of
<1>4. Goal(r) \in Object
  <2>1. Target(r) = Goal(r)
    BY <1>2, <1>3, ElementFacts DEF Elements
  <2> QED
    BY <1>1, <1>2, <1>3, <2>1, RootFacts
<1>5. m \in Mappings
  BY <1>2, NothingIsMapping, PlaceTypesFacts
<1>6. Neat(r, m, {}) /\ Sources(r, m, {}) /\ Range(m) \subseteq Elements \cup {None}
  BY <1>2, <1>3, <1>4, TypesNeat
<1>7. /\ mapping'[r] = m /\ DOMAIN mapping' = DOMAIN mapping \cup {r}
      /\ \A d \in DOMAIN mapping \ {r} : mapping'[d] = mapping[d]
  BY <1>1, <1>5, StoreFacts
<1>8. made' = made
  <2>1. made' = made \cup (Range(m) \ (files \cup {None}))
    BY <1>1, <1>7 DEF Store
  <2> QED
    BY <1>6, <2>1 DEF Elements
<1>9. /\ MadeInPlace' /\ Singles' /\ Neat(r, m, {})' /\ Sources(r, m, {})'
  BY <1>1, <1>2, <1>6, <1>8, SinglesUnchanged
<1>10. Neat(r, mapping[r], visited)' /\ Sources(r, mapping[r], visited)'
  BY <1>1, <1>7, <1>9 DEF Neat, AtHome, HasHome, Sources
<1>11. Reached(r, visited \cup Waiting)'
  <2>1. Waiting' \subseteq UsedTypes(r)
    <3>1. Range(work)' = Range(Uses(r))
      BY <1>1 DEF Range
    <3>2. Range(Uses(r)) = Used(r)
      BY <1>2, UsedFacts
    <3> QED
      BY <3>1, <3>2 DEF Waiting, UsedTypes
  <2>2. \A x : UsedTypes(x)' = UsedTypes(x)
    BY <1>1, SettledUses
  <2> QED
    BY <1>1, <2>1, <2>2 DEF Reached
<1>12. ASSUME NEW d \in DOMAIN mapping \ {r} PROVE Tidied(d)'
  <2>1. Tidied(d)
    BY <1>1, <1>12 DEF Tidy
  <2> QED
    BY <1>1, <1>2, <1>7, <1>8, <2>1, OthersTidy
<1>13. Head(todo') = r
  BY <1>1
<1> QED
  BY <1>1, <1>7, <1>9, <1>10, <1>11, <1>12, <1>13 DEF Tidy

LEMMA VisitUseTidy ==
    ASSUME Typed, Typed', NoneLeftOut, Tidy, VisitUse
    PROVE  Tidy'
<1> PICK r : r = Head(todo)
  OBVIOUS
<1> PICK x : x = Head(work)
  OBVIOUS
<1> PICK old : old = mapping[r]
  OBVIOUS
<1> PICK V : V = visited
  OBVIOUS
<1> DEFINE fresh == Said[x].class = "types" /\ x \notin visited
<1>1. /\ files' = files /\ ref' = ref /\ phase = "use" /\ phase' = "use" /\ todo # <<>> /\ todo' = todo
      /\ work # <<>> /\ r \in DOMAIN mapping /\ Said[r].class = "interface"
      /\ work' = Tail(work) \o (IF fresh THEN Uses(x) ELSE <<>>)
      /\ visited' = IF fresh THEN visited \cup {x} ELSE visited
      /\ V \in SUBSET Of({"types"})
  BY DEF VisitUse, Typed, PhasesFit, TypeOK
<1>2. FilesFit /\ RefsFit /\ MadeFit /\ MadeFit' /\ MadeInPlace /\ Singles
  BY <1>1, TypedFacts DEF Tidy, Typed
<1>3. /\ x \in Of(RootClasses) /\ x \in files /\ r \in Of(RootClasses) /\ r \in Of({"interface", "types"})
      /\ r \in files /\ (Said[x].class = "types" => x \in Of({"types"}))
  BY <1>1 DEF Typed, TypeOK, Of
<1>4. /\ Sources(r, old, V) /\ Neat(r, old, V) /\ Reached(r, visited \cup Waiting)
  BY <1>1 DEF Tidy
<1>5. old \in Mappings /\ HasAll(old, V) /\ \A o \in Object : old[o] \in Elements \cup {None}
  <2>1. mapping[r] \in [Object -> Elements \cup {None}] /\ mapping[r] \in Mappings
    BY <1>1 DEF Typed, TypeOK, MappingsFit
  <2>2. UnderWay(r)
    BY <1>1 DEF NoneLeftOut
  <2> QED
    BY <2>1, <2>2 DEF UnderWay
<1>6. Reached(r, visited \cup Waiting)'
  <2>1. Waiting' \subseteq Waiting \cup (IF fresh THEN UsedTypes(x) ELSE {})
        /\ (Said[x].class = "types" => x \in Waiting)
    <3> DEFINE more == IF fresh THEN Uses(x) ELSE <<>>
    <3>1. more \in Seq(Of(RootClasses)) /\ Range(more) = IF fresh THEN Used(x) ELSE {}
      <4>1. Uses(x) \in Seq(Of(RootClasses)) /\ Range(Uses(x)) = Used(x)
        BY <1>2, UsesFacts, UsedFacts
      <4>2. Range(<<>>) = {} /\ <<>> \in Seq(Of(RootClasses))
        BY DEF Range
      <4>3. CASE fresh
        BY <4>1, <4>3
      <4>4. CASE ~fresh
        <5>1. more = <<>>
          BY <4>4
        <5> HIDE DEF more, fresh
        <5> QED
          BY <4>2, <4>4, <5>1
      <4> QED
        BY <4>3, <4>4
    <3>2. work \in Seq(Of(RootClasses))
      BY DEF Typed, TypeOK
    <3>3. Tail(work) \in Seq(Of(RootClasses)) /\ Range(work) = {x} \cup Range(Tail(work))
      BY <1>1, <3>2, ListRanges
    <3>4. Range(work') = Range(Tail(work)) \cup Range(more)
      <4> HIDE DEF more
      <4>1. \A s, t \in Seq(Of(RootClasses)) : Range(s \o t) = Range(s) \cup Range(t)
        BY ListRanges
      <4>2. Range(Tail(work) \o more) = Range(Tail(work)) \cup Range(more)
        BY <3>1, <3>3, <4>1
      <4> QED
        BY <1>1, <4>2 DEF more
    <3>5. Range(work)' = Range(work')
      BY DEF Range
    <3> HIDE DEF more
    <3> QED
      BY <3>1, <3>3, <3>4, <3>5 DEF Waiting, UsedTypes
  <2>2. \A y : UsedTypes(y)' = UsedTypes(y)
    BY <1>1, SettledUses
  <2>3. Of({"interface", "types"})' = Of({"interface", "types"})
    BY <1>1, Settled
  <2>4. ASSUME NEW S \in SUBSET Of({"interface", "types"}), r \in S, \A y \in S : UsedTypes(y) \subseteq S
        PROVE  visited' \cup Waiting' \subseteq S
    <3>1. visited \cup Waiting \subseteq S
      BY <1>4, <2>4 DEF Reached
    <3>2. fresh => x \in S
      BY <2>1, <3>1
    <3> QED
      BY <1>1, <2>1, <2>4, <3>1, <3>2
  <2> QED
    BY <1>1, <2>2, <2>3, <2>4 DEF Reached
<1>7. CASE fresh /\ Target(x) # None
  <2> PICK m : m = PlaceCollection(r, old, x)
    OBVIOUS
  <2>1. Store(m) /\ visited' = V \cup {x} /\ x \in Of({"types"}) /\ x \in Of({"interface", "types"})
        /\ x \notin V \cup {r}
    BY <1>1, <1>3, <1>7 DEF VisitUse, Of
  <2>2. Goal(x) \in Object /\ Class[Goal(x)] = "typeCollection"
    <3>1. Target(x) = Goal(x)
      BY <1>2, <1>3, ElementFacts DEF Elements
    <3> QED
      BY <1>2, <1>7, <2>1, <3>1, RootFacts
  <2>3. m \in Mappings
    BY <1>2, <1>3, <1>5, <2>2, PlaceCollectionFacts
  <2>4. /\ made \subseteq made' /\ Range(m) \subseteq files' \cup made' \cup {None}
        /\ mapping'[r] = m /\ DOMAIN mapping' = DOMAIN mapping \cup {r}
        /\ \A d \in DOMAIN mapping \ {r} : mapping'[d] = mapping[d]
    BY <1>1, <2>1, <2>3, StoreFacts
  <2>5. made' = made \cup (Range(PlaceCollection(r, old, x)) \ (files \cup {None}))
    BY <2>1, <2>4 DEF Store
  <2>6. \A o \in Object : m[o] \in Elements' \cup {None}
    BY <2>3, <2>4 DEF Mappings, Range, Elements
  <2>7. MadeInPlace' /\ Singles'
    BY <1>1, <1>2, <1>3, <1>4, <1>5, <2>1, <2>2, <2>5, CollectionSingles
  <2>8. Neat(r, m, V \cup {x})'
    BY <1>1, <1>2, <1>3, <1>4, <1>5, <2>1, <2>2, <2>4, <2>6, CollectionNeat
  <2>9. Sources(r, m, V \cup {x})'
    BY <1>1, <1>2, <1>3, <1>4, <1>5, <2>1, <2>2, <2>4, <2>6, CollectionSources
  <2> PICK V2 : V2 = V \cup {x}
    OBVIOUS
  <2>10. Neat(r, m, V2)' /\ Sources(r, m, V2)' /\ visited' = V2
    BY <2>1, <2>8, <2>9
  <2>11. Neat(r, mapping[r], visited)' /\ Sources(r, mapping[r], visited)'
    BY <2>4, <2>10 DEF Neat, AtHome, HasHome, Sources
  <2>12. ASSUME NEW d \in DOMAIN mapping \ {r} PROVE Tidied(d)'
    <3>1. Tidied(d)
      BY <1>1, <2>12 DEF Tidy
    <3> QED
      BY <1>1, <1>2, <2>4, <2>12, <3>1, OthersTidy
  <2>13. Head(todo') = r
    BY <1>1
  <2> QED
    BY <1>1, <1>6, <2>4, <2>7, <2>11, <2>12, <2>13 DEF Tidy
<1>8. CASE ~(fresh /\ Target(x) # None)
  <2>1. mapping' = mapping /\ made' = made
    BY <1>8 DEF VisitUse
  <2>2. MadeInPlace' /\ Singles' /\ Neat(r, old, V)' /\ Sources(r, old, V)'
    BY <1>1, <1>2, <1>4, <2>1, SinglesUnchanged
  <2> PICK V2 : V2 = visited'
    OBVIOUS
  <2>3. V \in SUBSET V2
    BY <1>1
  <2>4. Neat(r, old, V2)'
    <3>1. Neat(r, old, V2)
      BY <1>4, <2>3, NeatWidens
    <3> QED
      BY <1>1, <2>1, <3>1, SinglesUnchanged
  <2>5. Sources(r, old, V2)'
    BY <2>2, <2>3 DEF Sources
  <2>6. mapping'[r] = old /\ visited' = V2
    BY <2>1
  <2>7. Neat(r, mapping[r], visited)' /\ Sources(r, mapping[r], visited)'
    BY <2>4, <2>5, <2>6 DEF Neat, AtHome, HasHome, Sources
  <2>8. ASSUME NEW d \in DOMAIN mapping \ {r} PROVE Tidied(d)'
    <3>1. Tidied(d)
      BY <1>1, <2>8 DEF Tidy
    <3> QED
      BY <1>1, <1>2, <2>1, <2>8, <3>1, OthersTidy
  <2>9. Head(todo') = r
    BY <1>1
  <2> QED
    BY <1>1, <1>6, <2>1, <2>2, <2>7, <2>8, <2>9 DEF Tidy
<1> QED
  BY <1>7, <1>8

LEMMA FinishMapperTidy ==
    ASSUME Typed, Typed', Tidy, FinishMapper
    PROVE  Tidy'
<1> PICK r : r = Head(todo)
  OBVIOUS
<1> PICK old : old = mapping[r]
  OBVIOUS
<1> PICK V : V = visited
  OBVIOUS
<1> PICK m : m = PlaceInterface(old, r)
  OBVIOUS
<1>1. /\ files' = files /\ ref' = ref /\ phase = "use" /\ phase' = "map" /\ todo # <<>>
      /\ Said[r].class = "interface" /\ r \in DOMAIN mapping /\ ref[<<r, "target">>] # None
      /\ V \in SUBSET Of({"types"}) /\ Store(m)
  BY DEF FinishMapper, Typed, PhasesFit, TypeOK
<1>2. FilesFit /\ RefsFit /\ MadeFit /\ MadeFit' /\ MadeInPlace /\ Singles
  BY <1>1, TypedFacts DEF Tidy, Typed
<1>3. r \in Of(RootClasses) /\ r \in Of({"interface", "types"}) /\ r \in Of({"interface"})
  BY <1>1 DEF Typed, TypeOK, Of
<1>4. Goal(r) \in Object /\ Class[Goal(r)] = "interface"
  BY <1>1, <1>2, <1>3, RootFacts
<1>5. Sources(r, old, V) /\ Neat(r, old, V) /\ Reached(r, V)
  <2>1. Sources(r, old, V) /\ Neat(r, old, V) /\ Reached(r, visited \cup Waiting)
    BY <1>1 DEF Tidy
  <2>2. Waiting = {}
    BY DEF FinishMapper, Waiting, Range
  <2>3. visited \cup Waiting = V
    BY <2>2
  <2> QED
    BY <2>1, <2>3
<1>6. old \in Mappings /\ \A o \in Object : old[o] \in Elements \cup {None}
  <2>1. mapping[r] \in [Object -> Elements \cup {None}] /\ mapping[r] \in Mappings
    BY <1>1 DEF Typed, TypeOK, MappingsFit
  <2> QED
    BY <2>1
<1>7. m \in Mappings
  BY <1>2, <1>3, <1>4, <1>6, PlaceInterfaceFacts
<1>8. /\ made \subseteq made' /\ Range(m) \subseteq files' \cup made' \cup {None}
      /\ mapping'[r] = m /\ DOMAIN mapping' = DOMAIN mapping \cup {r}
      /\ \A d \in DOMAIN mapping \ {r} : mapping'[d] = mapping[d]
  BY <1>1, <1>7, StoreFacts
<1>9. made' = made \cup (Range(PlaceInterface(old, r)) \ (files \cup {None}))
  BY <1>1, <1>8 DEF Store
<1>10. \A o \in Object : m[o] \in Elements' \cup {None}
  BY <1>7, <1>8 DEF Mappings, Range, Elements
<1>11. MadeInPlace' /\ Singles'
  <2>1. \A o \in Object : old[o] # None => Class[o] \in TypeClasses \cup Details \cup {"typeCollection"}
    BY <1>5 DEF Sources
  <2> QED
    BY <1>1, <1>2, <1>3, <1>4, <1>6, <1>9, <2>1, InterfaceSingles
<1>12. Tidied(r)'
  <2>1. Neat(r, m, V)'
    BY <1>1, <1>2, <1>3, <1>4, <1>5, <1>6, <1>8, <1>10, InterfaceNeat
  <2>2. Neat(r, mapping[r], V)'
    BY <1>8, <2>1 DEF Neat, AtHome, HasHome
  <2>3. Reached(r, V)' /\ V \in SUBSET Of({"types"})'
    BY <1>1, <1>5, ReachedStays, Settled
  <2> QED
    BY <2>2, <2>3 DEF Tidied
<1>13. ASSUME NEW d \in DOMAIN mapping \ {r} PROVE Tidied(d)'
  <2>1. Tidied(d)
    BY <1>1, <1>13 DEF Tidy
  <2> QED
    BY <1>1, <1>2, <1>8, <1>13, <2>1, OthersTidy
<1> QED
  BY <1>1, <1>8, <1>11, <1>12, <1>13 DEF Tidy

LEMMA StepTidy == Judged /\ Typed' /\ NoneLeftOut /\ Tidy /\ [Next]_vars => Tidy'
<1> SUFFICES ASSUME Judged, Typed', NoneLeftOut, Tidy, [Next]_vars PROVE Tidy'
  OBVIOUS
<1>1. Typed
  BY DEF Judged
<1>2. CASE Resolve \/ MapEndless
  <2>1. phase' \in {"resolve", "validate", "overflow"}
    BY <1>2 DEF Resolve, MapEndless
  <2> QED
    BY <2>1 DEF Tidy
<1>3. CASE Validate
  <2>1. /\ phase' = "map" /\ made' = {} /\ mapping' = <<>>
    BY <1>1, <1>3 DEF Validate, Typed, PhasesFit
  <2>2. (Typed /\ made = {} => MadeInPlace /\ Singles)'
    BY SinglesAtStart, PTL
  <2>3. MadeInPlace' /\ Singles' /\ DOMAIN mapping' = {}
    BY <2>1, <2>2
  <2> QED
    BY <2>1, <2>3 DEF Tidy
<1>4. CASE UNCHANGED vars \/ Decide
  <2>1. /\ files' = files /\ ref' = ref
        /\ phase' # "rejected" => /\ mapping' = mapping /\ made' = made /\ todo' = todo
                                  /\ phase' = phase \/ (phase = "map" /\ phase' = "accepted")
        /\ phase' = "use" => visited' = visited /\ work' = work
    BY <1>4 DEF vars, Decide
  <2> SUFFICES ASSUME phase' \in {"map", "use", "accepted"} PROVE Tidy'
    BY DEF Tidy
  <2>2. /\ mapping' = mapping /\ made' = made /\ todo' = todo
        /\ phase \in {"map", "use", "accepted"} /\ (phase' = "use" <=> phase = "use")
    BY <2>1
  <2>3. MadeInPlace' /\ Singles'
    BY <2>1, <2>2, SinglesUnchanged DEF Tidy
  <2>4. ASSUME NEW d \in DOMAIN mapping, ~(phase' = "use" /\ d = Head(todo')) PROVE Tidied(d)'
    <3>1. Tidied(d)
      BY <2>2, <2>4 DEF Tidy
    <3>2. MadeFit'
      BY DEF Typed
    <3> QED
      BY <1>1, <2>1, <2>2, <3>1, <3>2, OthersTidy
  <2>5. ASSUME phase' = "use"
        PROVE  /\ Sources(Head(todo), mapping[Head(todo)], visited)'
               /\ Neat(Head(todo), mapping[Head(todo)], visited)'
               /\ Reached(Head(todo), visited \cup Waiting)'
    <3> PICK r : r = Head(todo)
      OBVIOUS
    <3> PICK m : m = mapping[r]
      OBVIOUS
    <3> PICK V : V = visited
      OBVIOUS
    <3> PICK N : N = visited \cup Waiting
      OBVIOUS
    <3>1. Sources(r, m, V) /\ Neat(r, m, V) /\ Reached(r, N)
      BY <2>2, <2>5 DEF Tidy
    <3>2. Sources(r, m, V)' /\ Neat(r, m, V)' /\ Reached(r, N)'
      BY <2>1, <2>2, <3>1, SinglesUnchanged, ReachedStays
    <3>3. Head(todo') = r /\ mapping'[r] = m /\ visited' = V /\ (visited \cup Waiting)' = N
      BY <2>1, <2>2, <2>5 DEF Waiting, Range
    <3>4. Reached(Head(todo), visited \cup Waiting)'
      <4> PICK M : M = (visited \cup Waiting)'
        OBVIOUS
      <4>1. Reached(r, M)'
        BY <3>2, <3>3
      <4> QED
        BY <3>3, <4>1 DEF Reached
    <3> QED
      BY <3>2, <3>3, <3>4 DEF Sources, Neat, AtHome, HasHome
  <2> QED
    BY <2>2, <2>3, <2>4, <2>5 DEF Tidy
<1> QED
  BY <1>1, <1>2, <1>3, <1>4, SkipRootTidy, MapTypesTidy, StartMapperTidy, VisitUseTidy,
     FinishMapperTidy DEF Next

\* The deployments that a mapper has elements from are in order if its own is.
LEMMA OrderlyHomes ==
    ASSUME Typed, Tidy, phase = "accepted", NEW r \in DOMAIN mapping, Said[r].class # "extension", Orderly(r)
    PROVE  /\ r \in Of({"interface", "types"}) /\ mapping[r] \in Mappings
           /\ \A o \in Object : mapping[r][o] \in Elements \cup {None}
           /\ \E V \in SUBSET Of({"types"}) : InOrder(V \cup {r}) /\ AtHome(r, mapping[r], V)
<1>1. FilesFit /\ RefsFit /\ MadeFit /\ made \cap files = {} /\ DOMAIN mapping \subseteq Of(RootClasses)
      /\ mapping[r] \in Mappings /\ mapping[r] \in [Object -> Elements \cup {None}]
  BY TypedFacts DEF Typed, TypeOK, MappingsFit
<1>2. r \in Of({"interface", "types"}) /\ (Said[r].class = "interface" \/ Said[r].class = "types")
  BY <1>1 DEF Of, RootClasses
<1>3. PICK V \in SUBSET Of({"types"}) : Reached(r, V) /\ Neat(r, mapping[r], V)
  BY DEF Tidy, Tidied
<1>4. V \cup {r} \subseteq Involved(r)
  <2>1. CASE Said[r].class = "types"
    BY <1>3, <2>1 DEF Reached, Involved
  <2>2. CASE Said[r].class = "interface"
    <3>1. ASSUME NEW S \in SUBSET Of({"interface", "types"}), r \in S,
                 \A x \in S : \A u \in Children(x, UseClasses) :
                     LET y == ref[<<u, "use">>] IN  Said[y].class = "types" => y \in S
          PROVE  V \subseteq S
      <4>1. ASSUME NEW x \in S, NEW y \in UsedTypes(x) PROVE y \in S
        <5>1. PICK u \in files \ {x} : Front(u) = x /\ Said[u].class \in UseClasses /\ y = ref[<<u, "use">>]
          BY DEF UsedTypes, Used
        <5>2. u \in Elements /\ Inside(u) = x /\ Kind(u) \in UseClasses
          BY <5>1 DEF Elements, Inside, Kind
        <5>3. u \in Children(x, UseClasses)
          BY <1>1, <5>1, <5>2, ChildrenFacts
        <5>4. Said[y].class = "types"
          BY DEF UsedTypes
        <5> QED
          BY <3>1, <5>1, <5>3, <5>4
      <4> QED
        BY <1>3, <3>1, <4>1 DEF Reached
    <3>2. V \subseteq UsedBy(r)
      BY <3>1 DEF UsedBy
    <3> QED
      BY <2>2, <3>2 DEF Involved
  <2> QED
    BY <1>2, <2>1, <2>2
<1>5. InOrder(Involved(r))
  <2>1. \A s \in files : Target(s) = Goal(s) /\ (Len(s) > 1 => Target(Front(s)) = Goal(Front(s)))
    <3>1. \A s \in files : Target(s) = Goal(s)
      BY <1>1, ElementFacts DEF Elements
    <3> QED
      BY <3>1, TypedFacts
  <2> QED
    BY <2>1 DEF Orderly, InOrder, Counted
<1>6. InOrder(V \cup {r})
  BY <1>4, <1>5, OrderShrinks
<1> QED
  BY <1>1, <1>2, <1>3, <1>6 DEF Neat

\* In order, an element and the element for what contains its object are in the same deployment,
\* and that has one element for an object.
LEMMA HomesTogether ==
    ASSUME Typed, MadeInPlace, Singles, NEW r \in Of({"interface", "types"}), NEW V \in SUBSET Of({"types"}),
           InOrder(V \cup {r}), NEW m \in Mappings, AtHome(r, m, V),
           NEW o \in Object, m[o] # None, Front(o) \in Object, m[Front(o)] # None
    PROVE  Inside(m[o]) = m[Front(o)]
<1>1. FilesFit /\ RefsFit /\ MadeFit
  BY TypedFacts
<1> PICK f : f = Front(o)
  OBVIOUS
<1> PICK y \in V \cup {r} : HasHome(m, o, y)
  BY DEF AtHome
<1> PICK z \in V \cup {r} : HasHome(m, f, z)
  BY DEF AtHome
<1>2. Goal(y) \in Object /\ Goal(z) \in Object /\ o \in Scope(Goal(y)) /\ f \in Scope(Goal(z)) /\ f \in Object
  BY DEF HasHome
<1>3. \A w \in V \cup {r} : /\ w \in Of({"interface", "types"})
                            /\ Goal(w) \in Object => Class[Goal(w)] \in Containers
  <2>1. \A w \in V \cup {r} : w \in Of({"interface", "types"}) /\ (Said[w].class = "interface" \/ Said[w].class = "types")
    BY DEF Of
  <2> QED
    BY <1>1, <2>1, RootFacts, NoneIsNothing DEF Containers
<1>4. Goal(y) = Goal(z) /\ o # Goal(y)
  BY <1>2, <1>3, ScopesApart
<1>5. y = z
  BY <1>1, <1>2, <1>4, HomesApart
<1>6. Goal(m[o]) = o /\ Goal(m[f]) = f
  BY <1>2 DEF Mappings
<1>7. /\ Class[o] \in TypeClasses \cup MemberClasses \cup Details \cup {"argument"}
      /\ Class[o] \in TypeClasses \cup MemberClasses => f = Goal(y)
      /\ Class[o] \in Details => Class[f] \in TypeClasses
      /\ Class[o] = "argument" => Class[f] \in MemberClasses
  BY <1>2, <1>3, <1>4, ScopesApart
<1>8. /\ \A e \in TypesIn(y) : Goal(e) \in Object /\ Class[Goal(e)] \in Parts => Front(Goal(e)) = Goal(Inside(e))
      /\ \A e \in MembersIn(y) : Goal(e) \in Object /\ Class[Goal(e)] = "argument" => Front(Goal(e)) = Goal(Inside(e))
  BY <1>3, ElementsInScope
<1>9. Single(TypesIn(y)) /\ Single(MembersIn(y))
  <2>1. {y} \in SUBSET (V \cup {r})
    OBVIOUS
  <2> QED
    BY <1>3, <2>1, OrderShrinks DEF Singles
<1>10. CASE Class[o] \in TypeClasses
  <2>1. m[o] \in TypesIn(y) /\ m[f] = y
    BY <1>5, <1>7, <1>10 DEF HasHome
  <2> QED
    BY <1>1, <1>6, <1>10, <2>1, TypesInFacts
<1>11. CASE Class[o] \in MemberClasses
  <2>1. m[o] \in MembersIn(y) /\ m[f] = y
    BY <1>5, <1>7, <1>11 DEF HasHome
  <2> QED
    BY <1>1, <1>6, <1>11, <2>1, MembersInFacts
<1>12. CASE Class[o] \in Details
  <2>1. m[f] \in TypesIn(y)
    BY <1>5, <1>7, <1>12 DEF HasHome
  <2>2. Inside(m[o]) \in TypesIn(y) /\ Goal(Inside(m[o])) = f
    <3>1. CASE Class[o] \in Parts
      <4>1. m[o] \in TypesIn(y)
        BY <3>1 DEF HasHome
      <4>2. Inside(m[o]) \in Children(y, TypeClasses)
        BY <1>1, <1>6, <3>1, <4>1, TypesInFacts
      <4> QED
        BY <1>6, <1>8, <3>1, <4>1, <4>2 DEF TypesIn
    <3>2. CASE Class[o] \in {"key", "value"}
      BY <3>2 DEF HasHome
    <3> QED
      BY <1>12, <3>1, <3>2 DEF Details
  <2> QED
    BY <1>2, <1>6, <1>9, <2>1, <2>2 DEF Single
<1>13. CASE Class[o] = "argument"
  <2>1. m[f] \in MembersIn(y) /\ m[o] \in MembersIn(y)
    BY <1>5, <1>7, <1>13 DEF HasHome
  <2>2. Inside(m[o]) \in Children(y, MemberClasses)
    BY <1>1, <1>6, <1>13, <2>1, MembersInFacts
  <2>3. Inside(m[o]) \in MembersIn(y) /\ Goal(Inside(m[o])) = f
    BY <1>6, <1>8, <1>13, <2>1, <2>2 DEF MembersIn
  <2> QED
    BY <1>2, <1>6, <1>9, <2>1, <2>3 DEF Single
<1> QED
  BY <1>7, <1>10, <1>11, <1>12, <1>13

LEMMA TidyIsTogether == Typed /\ Tidy => MembersTogether
<1> SUFFICES ASSUME Typed, Tidy, phase = "accepted",
                    NEW r \in DOMAIN mapping, Said[r].class # "extension", Orderly(r),
                    NEW o \in Deploys(r), Front(o) \in Deploys(r)
             PROVE  Owner(mapping[r][o]) = mapping[r][Front(o)]
  BY DEF MembersTogether
<1>1. /\ r \in Of({"interface", "types"}) /\ mapping[r] \in Mappings
      /\ \A p \in Object : mapping[r][p] \in Elements \cup {None}
      /\ \E V \in SUBSET Of({"types"}) : InOrder(V \cup {r}) /\ AtHome(r, mapping[r], V)
  BY OrderlyHomes
<1>2. PICK V \in SUBSET Of({"types"}) : InOrder(V \cup {r}) /\ AtHome(r, mapping[r], V)
  BY <1>1
<1>3. o \in Object /\ Front(o) \in Object /\ mapping[r][o] # None /\ mapping[r][Front(o)] # None
  BY DEF Deploys
<1>4. MadeInPlace /\ Singles
  BY DEF Tidy
<1>5. Inside(mapping[r][o]) = mapping[r][Front(o)]
  BY <1>1, <1>2, <1>3, <1>4, HomesTogether
<1>6. Owner(mapping[r][o]) = Inside(mapping[r][o])
  BY <1>1, <1>3, TypedFacts, ElementFacts
<1> QED
  BY <1>5, <1>6

\* What a mapper has for a type collection decides what it has for what is in it.
LEMMA HomeOfTypes ==
    ASSUME Typed, Tidy, phase = "accepted", NEW r \in DOMAIN mapping, Said[r].class # "extension", Orderly(r),
           NEW c \in Deploys(r), Class[c] = "typeCollection",
           NEW o \in Deploys(r), o \in Content(c), o # c, Class[o] \notin {"key", "value"}
    PROVE  LET x == mapping[r][c]
           IN  /\ x \in Of({"interface", "types"}) /\ InOrder({x})
               /\ mapping[r][o] \in TypesIn(x) /\ Goal(mapping[r][o]) = o
<1>1. /\ r \in Of({"interface", "types"}) /\ mapping[r] \in Mappings
      /\ \E V \in SUBSET Of({"types"}) : InOrder(V \cup {r}) /\ AtHome(r, mapping[r], V)
  BY OrderlyHomes
<1>2. PICK V \in SUBSET Of({"types"}) : InOrder(V \cup {r}) /\ AtHome(r, mapping[r], V)
  BY <1>1
<1>3. FilesFit /\ RefsFit /\ MadeFit
  BY TypedFacts
<1> PICK m : m = mapping[r]
  OBVIOUS
<1>4. c \in Object /\ o \in Object /\ m[c] # None /\ m[o] # None
  BY DEF Deploys
<1>5. Class[o] \in TypeClasses \cup Parts /\ o \in Scope(c)
  BY <1>4 DEF Content, Details, Scope
<1>6. \A w \in V \cup {r} : /\ w \in Of({"interface", "types"})
                            /\ Goal(w) \in Object => Class[Goal(w)] \in Containers
  <2>1. \A w \in V \cup {r} : w \in Of({"interface", "types"}) /\ (Said[w].class = "interface" \/ Said[w].class = "types")
    BY <1>1 DEF Of
  <2> QED
    BY <1>3, <2>1, RootFacts, NoneIsNothing DEF Containers
<1>7. PICK y \in V \cup {r} : HasHome(m, o, y)
  BY <1>2, <1>4 DEF AtHome
<1>8. PICK z \in V \cup {r} : HasHome(m, c, z)
  BY <1>2, <1>4 DEF AtHome
<1>9. Goal(y) \in Object /\ o \in Scope(Goal(y)) /\ Goal(z) \in Object /\ c \in Scope(Goal(z))
  BY <1>7, <1>8 DEF HasHome
<1>10. Goal(y) = c
  BY <1>4, <1>5, <1>6, <1>9, ScopesApart DEF Containers
<1>11. Goal(z) = c
  BY <1>4, <1>6, <1>9, ScopesApart DEF Containers
<1>12. y = z
  BY <1>1, <1>2, <1>3, <1>4, <1>10, <1>11, HomesApart
<1>13. m[c] = y /\ m[o] \in TypesIn(y)
  BY <1>5, <1>7, <1>8, <1>11, <1>12 DEF HasHome
<1>14. Goal(m[o]) = o
  BY <1>1, <1>4 DEF Mappings
<1>15. InOrder({y})
  <2>1. {y} \in SUBSET (V \cup {r})
    OBVIOUS
  <2> QED
    BY <1>2, <2>1, OrderShrinks
<1> QED
  BY <1>6, <1>13, <1>14, <1>15

LEMMA TidyIsAgreed == Typed /\ Tidy => MappersAgree
<1> SUFFICES ASSUME Typed, Tidy, phase = "accepted", NEW r1 \in DOMAIN mapping, NEW r2 \in DOMAIN mapping,
                    Said[r1].class # "extension", Said[r2].class # "extension", Orderly(r1), Orderly(r2),
                    NEW c \in Deploys(r1) \cap Deploys(r2), NEW o \in Deploys(r1) \cap Deploys(r2),
                    Class[c] = "typeCollection", mapping[r1][c] = mapping[r2][c],
                    o \in Content(c), Class[o] \notin {"key", "value"}, o # c
             PROVE  mapping[r1][o] = mapping[r2][o]
  BY DEF MappersAgree
<1>1. LET x == mapping[r1][c]
      IN  /\ x \in Of({"interface", "types"}) /\ InOrder({x})
          /\ mapping[r1][o] \in TypesIn(x) /\ Goal(mapping[r1][o]) = o
  BY HomeOfTypes
<1>2. LET x == mapping[r2][c]
      IN  /\ mapping[r2][o] \in TypesIn(x) /\ Goal(mapping[r2][o]) = o
  BY HomeOfTypes
<1>3. Singles /\ o \in Object
  BY DEF Tidy, Deploys
<1> QED
  BY <1>1, <1>2, <1>3 DEF Singles, Single

LEMMA AlwaysTidy == Spec => [](Typed /\ Tidy)
<1>1. Init => Judged /\ NoneLeftOut /\ Tidy
  <2>1. Init => phase = "resolve" /\ pass = 0
    BY DEF Init
  <2>2. phase = "resolve" /\ pass = 0 => ResolvedSoFar /\ Validated /\ NoneLeftOut /\ Tidy /\ phase # "accepted"
    BY DEF ResolvedSoFar, Validated, NoneLeftOut, Tidy
  <2> QED
    BY <2>1, <2>2, InitTyped DEF Judged
<1>2. Judged /\ NoneLeftOut /\ Tidy /\ [Next]_vars => Judged' /\ NoneLeftOut' /\ Tidy'
  <2> SUFFICES ASSUME Judged, NoneLeftOut, Tidy, [Next]_vars PROVE Judged' /\ NoneLeftOut' /\ Tidy'
    OBVIOUS
  <2>1. Judged' /\ NoneLeftOut'
    BY StepJudged, StepLeavesNone
  <2>2. Typed'
    BY <2>1 DEF Judged
  <2> QED
    BY <2>1, <2>2, StepTidy
<1>3. Judged => Typed
  BY DEF Judged
<1> QED
  BY <1>1, <1>2, <1>3, PTL DEF Spec

\* MembersTogether of Deployment: in the mapper of a deployment that has everything where it
\* belongs and once, an element is in the element for what contains its object, whether it was
\* written or made, and whichever mapper made it.
THEOREM MembersStayTogether == Spec => []MembersTogether
BY AlwaysTidy, TidyIsTogether, PTL

\* MappersAgree of Deployment: two mappers that have the same deployment of a type collection, in
\* order, have the same elements for its types and their fields and enumerators: what one has
\* made the other finds.
THEOREM MappersDoAgree == Spec => []MappersAgree
BY AlwaysTidy, TidyIsAgreed, PTL

-----------------------------------------------------------------------------
(* Parsing comes to an end.                                                *)

\* How far parsing has come, most significant first: the stage; what is left of its work; the
\* deployments of type collections that the mapper has not visited; the deployments it has in view.
StagesLeft == IF phase = "resolve" THEN 3 ELSE IF phase = "validate" THEN 2
              ELSE IF phase \in {"map", "use"} THEN 1 ELSE 0
WorkLeft   == IF phase = "resolve" THEN Len(Passes) - pass
              ELSE 2 * Len(todo) + (IF phase = "map" THEN 1 ELSE 0)
NotVisited == IF phase = "use" THEN Cardinality(Of({"types"}) \ visited) ELSE 0
InView     == IF phase = "use" THEN Len(work) ELSE 0

Descends ==
    \/ StagesLeft' < StagesLeft
    \/ /\ StagesLeft' = StagesLeft
       /\ \/ WorkLeft' < WorkLeft
          \/ /\ WorkLeft' = WorkLeft
             /\ NotVisited' < NotVisited \/ (NotVisited' = NotVisited /\ InView' < InView)

Bounded == StagesLeft \in 0..3 /\ WorkLeft \in Nat /\ NotVisited \in Nat /\ InView \in Nat

\* What the counts are made of.
LEMMA CountsFit ==
    ASSUME Typed
    PROVE  /\ pass \in 0..25 /\ Len(Passes) = 25
           /\ todo \in Seq(Of(RootClasses)) /\ Len(todo) \in Nat /\ Len(work) \in Nat
           /\ todo # <<>> => Len(Tail(todo)) = Len(todo) - 1
           /\ phase \in {"resolve", "validate", "map", "use", "accepted", "rejected", "overflow"}
           /\ phase = "use" => todo # <<>>
<1>1. pass \in 0..25 /\ Len(Passes) = 25
  <2>1. pass \in 0..Len(Passes)
    BY DEF Typed, TypeOK
  <2>2. Len(Passes) = 25
    BY PassesFacts
  <2> QED
    BY <2>1, <2>2
<1>2. todo \in Seq(Of(RootClasses)) /\ work \in Seq(Of(RootClasses))
  BY Zenon DEF Typed, TypeOK
<1>3. Len(todo) \in Nat /\ Len(work) \in Nat /\ (todo # <<>> => Len(Tail(todo)) = Len(todo) - 1)
  <2> DEFINE Roots == Of(RootClasses)
  <2>1. todo \in Seq(Roots) /\ work \in Seq(Roots)
    BY <1>2
  <2> HIDE DEF Roots
  <2>2. Len(todo) \in Nat /\ Len(work) \in Nat
    BY <2>1, LenProperties
  <2>3. todo # <<>> => Len(Tail(todo)) = Len(todo) - 1
    BY <2>1, HeadTailProperties
  <2> QED
    BY <2>2, <2>3
<1>4. phase \in {"resolve", "validate", "map", "use", "accepted", "rejected", "overflow"}
  BY Zenon DEF Typed, TypeOK
<1>5. phase = "use" => todo # <<>>
  BY DEF Typed, PhasesFit
<1> QED
  BY <1>1, <1>2, <1>3, <1>4, <1>5

LEMMA TypedBounded == Typed => Bounded
<1> SUFFICES ASSUME Typed PROVE Bounded
  OBVIOUS
<1>1. /\ pass \in 0..25 /\ Len(Passes) = 25 /\ Len(todo) \in Nat /\ Len(work) \in Nat
      /\ phase \in {"resolve", "validate", "map", "use", "accepted", "rejected", "overflow"}
  BY CountsFit
<1>2. Cardinality(Of({"types"}) \ visited) \in Nat
  <2>1. IsFiniteSet(Of({"types"}))
    BY TypedFacts, OfFacts
  <2> QED
    BY <2>1, FS_Difference, FS_CardinalityType
<1>3. StagesLeft \in 0..3
  BY <1>1 DEF StagesLeft
<1>4. WorkLeft \in Nat
  BY <1>1 DEF WorkLeft
<1> QED
  BY <1>1, <1>2, <1>3, <1>4 DEF Bounded, NotVisited, InView

\* A round of the loop of initReferenced visits a deployment of a type collection for the first
\* time, or takes what it looks at out of view.
LEMMA RoundDescends ==
    ASSUME Typed, VisitUse
    PROVE  Descends
<1> DEFINE T == Of({"types"})
           x == Head(work)
           fresh == Said[x].class = "types" /\ x \notin visited
<1>1. /\ phase = "use" /\ phase' = "use" /\ files' = files /\ todo' = todo /\ pass' = pass /\ work # <<>>
      /\ work' = Tail(work) \o (IF fresh THEN Uses(x) ELSE <<>>)
      /\ visited' = IF fresh THEN visited \cup {x} ELSE visited
  BY DEF VisitUse
<1>2. T' = T
  BY <1>1 DEF Of
<1>3. StagesLeft' = StagesLeft /\ WorkLeft' = WorkLeft
  BY <1>1 DEF StagesLeft, WorkLeft
<1>4. /\ work \in Seq(Of(RootClasses)) /\ x \in Of(RootClasses) /\ visited \subseteq T
      /\ IsFiniteSet(T) /\ IsFiniteSet(T \ visited)
  <2>1. work \in Seq(Of(RootClasses)) /\ x \in Of(RootClasses) /\ visited \subseteq T
    BY <1>1 DEF Typed, TypeOK
  <2>2. IsFiniteSet(T)
    BY TypedFacts, OfFacts
  <2> QED
    BY <2>1, <2>2, FS_Difference
<1>5. CASE fresh
  <2>1. x \in T \ visited /\ T' \ visited' = (T \ visited) \ {x}
    BY <1>1, <1>2, <1>4, <1>5 DEF Of
  <2>2. Cardinality((T \ visited) \ {x}) = Cardinality(T \ visited) - 1 /\ Cardinality(T \ visited) \in Nat
    BY <1>4, <2>1, FS_RemoveElement, FS_CardinalityType
  <2>3. NotVisited = Cardinality(T \ visited) /\ NotVisited' = Cardinality((T \ visited) \ {x})
    BY <1>1, <2>1 DEF NotVisited
  <2>4. NotVisited' < NotVisited
    BY <2>2, <2>3
  <2> QED
    BY <1>3, <2>4 DEF Descends
<1>6. CASE ~fresh
  <2>1. visited' = visited /\ work' = Tail(work)
    BY <1>1, <1>4, <1>6
  <2>2. Len(work') = Len(work) - 1 /\ Len(work) \in Nat
    BY <1>1, <1>4, <2>1
  <2>3. NotVisited' = NotVisited
    BY <1>1, <1>2, <2>1 DEF NotVisited
  <2>4. InView' < InView
    BY <1>1, <2>2 DEF InView
  <2> QED
    BY <1>3, <2>3, <2>4 DEF Descends
<1> QED
  BY <1>5, <1>6

LEMMA StepDescends == Typed /\ Next => Descends
<1> SUFFICES ASSUME Typed, Next PROVE Descends
  OBVIOUS
<1>1. /\ pass \in 0..25 /\ Len(Passes) = 25 /\ todo \in Seq(Of(RootClasses)) /\ Len(todo) \in Nat
      /\ todo # <<>> => Len(Tail(todo)) = Len(todo) - 1
      /\ phase = "use" => todo # <<>>
  BY CountsFit
<1>2. ASSUME Resolve PROVE Descends
  <2>1. phase = "resolve" /\ pass' = pass + 1 /\ phase' \in {"resolve", "validate", "overflow"}
    BY <1>2 DEF Resolve
  <2> QED
    BY <1>1, <2>1 DEF Descends, StagesLeft, WorkLeft
<1>3. ASSUME Validate PROVE Descends
  BY <1>3 DEF Validate, Descends, StagesLeft
<1>4. ASSUME SkipRoot \/ MapTypes PROVE Descends
  <2>1. phase = "map" /\ phase' = phase /\ todo # <<>> /\ todo' = Tail(todo)
    BY <1>4 DEF SkipRoot, MapTypes
  <2> QED
    BY <1>1, <2>1 DEF Descends, StagesLeft, WorkLeft
<1>5. ASSUME StartMapper PROVE Descends
  <2>1. phase = "map" /\ phase' = "use" /\ todo' = todo
    BY <1>5 DEF StartMapper
  <2> QED
    BY <1>1, <2>1 DEF Descends, StagesLeft, WorkLeft
<1>6. ASSUME FinishMapper PROVE Descends
  <2>1. phase = "use" /\ phase' = "map" /\ todo # <<>> /\ todo' = Tail(todo)
    BY <1>1, <1>6 DEF FinishMapper
  <2> QED
    BY <1>1, <2>1 DEF Descends, StagesLeft, WorkLeft
<1>7. ASSUME MapEndless \/ Decide PROVE Descends
  <2>1. phase \in {"map", "use"} /\ phase' \in {"overflow", "accepted", "rejected"}
    BY <1>7 DEF MapEndless, Decide
  <2> QED
    BY <2>1 DEF Descends, StagesLeft
<1> QED
  BY <1>2, <1>3, <1>4, <1>5, <1>6, <1>7, RoundDescends DEF Next

\* What ParsingEnds of Deployment has for a step, without any fairness: the counts are numbers
\* and every step lowers the first of them that it changes, so FDParser::parse makes finitely many
\* steps however deployments use each other, and a mapper visits each of them once.
THEOREM ParsingDescends == Spec => []Bounded /\ [][Descends]_vars
<1>1. Typed /\ [Next]_vars => [Descends]_vars
  BY StepDescends
<1> QED
  BY InitTyped, StepTyped, TypedBounded, <1>1, PTL DEF Spec

LEMMA ExtensionEnds ==
    ASSUME FilesFit, RefsFit, BasesKnown, pass >= 1, ExtendsEnds, NEW spec \in Of({"spec"}) \cup {None}
    PROVE  ~Endless(spec)
<1> DEFINE Z     == Of({"spec"})
           N     == Cardinality(Z)
           chain == Bases(spec)
<1> SUFFICES ASSUME chain[N] # None PROVE FALSE
  BY DEF Endless
<1>1. /\ N \in Nat /\ chain \in [0..N -> Z \cup {None}] /\ chain[0] = spec
      /\ \A k \in 1..N : chain[k] = IF chain[k - 1] = None THEN None ELSE ref[<<chain[k - 1], "base">>]
  BY BasesAre
<1> HIDE DEF chain
<1>2. ASSUME NEW k \in 0..N PROVE chain[k] \in Z
  <2> DEFINE After == {j \in 0..N : chain[j] # None}
  <2> SUFFICES ASSUME chain[k] = None PROVE FALSE
    BY <1>1
  <2> DEFINE Later == {j \in k..N : chain[j] # None}
  <2>1. Later \in SUBSET Nat /\ N \in Later
    BY <1>1
  <2>2. PICK m \in Later : \A j \in Later : m <= j
    <3> HIDE DEF Later
    <3> QED
      BY <2>1, LeastNumber
  <2>3. m \in k..N /\ m # k /\ chain[m] # None
    BY <2>2
  <2>4. m - 1 \in k..N /\ m \in 1..N /\ m - 1 < m
    BY <1>1, <2>3
  <2>5. chain[m - 1] = None
    BY <2>2, <2>4
  <2> QED
    BY <1>1, <2>3, <2>4, <2>5
<1>3. PICK i, j \in 0..N : i < j /\ chain[i] = chain[j]
  <2>1. chain \in [0..N -> Z]
    BY <1>1, <1>2
  <2>2. IsFiniteSet(0..N) /\ Cardinality(0..N) = N + 1 /\ IsFiniteSet(Z) /\ N < N + 1
    BY <1>1, OfFacts, FS_Interval
  <2>3. \E a, b \in 0..N : a # b /\ chain[a] = chain[b]
    BY <2>1, <2>2, FS_PigeonHole
  <2>4. \A a, b \in 0..N : a # b => a < b \/ b < a
    BY <1>1
  <2> QED
    BY <2>3, <2>4
<1> DEFINE S == {chain[k] : k \in i..j - 1}
<1>4. S \in SUBSET Z /\ S # {}
  <2>1. i \in i..j - 1 /\ i..j - 1 \subseteq 0..N
    BY <1>1, <1>3
  <2> QED
    BY <1>2, <2>1
<1>5. PICK s \in S : \A s2 \in S : Said[s2].name # Said[s].base
  BY <1>4 DEF ExtendsEnds
<1>6. PICK k \in i..j - 1 : s = chain[k]
  BY <1>5
<1>7. k \in 0..N /\ k + 1 \in 1..N /\ k + 1 \in 0..N /\ (k + 1) - 1 = k
  BY <1>1, <1>3, <1>6
<1>8. chain[k + 1] \in Z /\ chain[k + 1] = ref[<<s, "base">>] /\ s \in Z
  BY <1>1, <1>2, <1>6, <1>7, NoneIsNothing, OfFacts
<1>9. Said[chain[k + 1]].name = Said[s].base
  <2>1. chain[k + 1] = FindSpecification(Said[s].base) /\ chain[k + 1] # None
    BY <1>8, NoneIsNothing, OfFacts DEF BasesKnown
  <2>2. LET named == {t \in Of({"spec"}) : Said[t].name = Said[s].base}
        IN  /\ named # {} => FirstNamed(Said[s].base, {"spec"}) \in named
            /\ named = {} <=> FirstNamed(Said[s].base, {"spec"}) = None
    BY FirstNamedIs
  <2> QED
    BY <2>1, <2>2 DEF FindSpecification
<1>10. chain[k + 1] \in S
  <2>1. CASE k = j - 1
    <3>1. chain[k + 1] = chain[i] /\ i \in i..j - 1
      BY <1>3, <2>1
    <3> QED
      BY <3>1
  <2>2. CASE k # j - 1
    <3>1. k + 1 \in i..j - 1
      BY <1>1, <1>3, <1>6, <2>2
    <3> QED
      BY <3>1
  <2> QED
    BY <2>1, <2>2
<1> QED
  BY <1>5, <1>9, <1>10

LEMMA StepReturns ==
    ASSUME Typed, Typed', BasesKnown, BasesKnown', phase # "overflow", [Next]_vars, ExtendsEnds
    PROVE  phase' # "overflow"
<1>1. FilesFit /\ RefsFit /\ (phase # "resolve" => pass >= 1)
  <2>1. pass \in 0..25 /\ (phase \notin {"resolve", "overflow"} => pass = 25)
    BY PassesFacts DEF Typed, TypeOK, PhasesFit
  <2> QED
    BY <2>1, TypedFacts
<1>2. ASSUME pass >= 1, NEW spec \in Of({"spec"}) \cup {None} PROVE ~Endless(spec)
  BY <1>1, <1>2, ExtensionEnds
<1>3. ASSUME NEW r \in Of(RootClasses) PROVE SpecOf(r) \in Of({"spec"}) \cup {None}
  <2>1. r \in files /\ <<Said[r].class, "spec">> \in Range(Passes)
    BY PassesHave DEF Of
  <2>2. Fits(Said[r].class, "spec") \subseteq Of({"spec"})
    BY DEF Fits
  <2>3. <<r, "spec">> \in References
    BY <2>1, IsReference
  <2> QED
    BY <1>1, <2>2, <2>3 DEF RefsFit, SpecOf
<1>4. ASSUME Resolve PROVE phase' # "overflow"
  <2>1. phase' = "overflow" => /\ pass \in 0..25 /\ Passes[pass + 1][2] = "decl" /\ pass < 25
                               /\ \E n : Endless(FindSpecification(n))
    BY <1>4, PassesFacts DEF Resolve, Typed, TypeOK
  <2>2. pass \in 0..25 /\ pass < 25 /\ Passes[pass + 1][2] = "decl" => pass >= 1
    BY PassesFacts
  <2>3. \A n : FindSpecification(n) \in Of({"spec"}) \cup {None}
    BY <1>1, FirstNamedIs DEF FindSpecification
  <2> QED
    BY <1>2, <2>1, <2>2, <2>3
<1>5. ASSUME MapEndless PROVE phase' # "overflow"
  <2>1. PICK r \in Of(RootClasses) : phase \in {"map", "use"} /\ Endless(SpecOf(r))
    BY <1>5, HeadTailProperties DEF MapEndless, Typed, TypeOK
  <2> QED
    BY <1>1, <1>2, <1>3, <2>1
<1> QED
  BY <1>4, <1>5 DEF Next, Validate, SkipRoot, MapTypes, StartMapper, VisitUse, FinishMapper, Decide, vars

\* The other half of ParsingEnds: if specifications do not extend each other in a circle, then
\* getAllDeclarations returns whenever the last passes and the mappers call it.
THEOREM ParsingReturns == Spec => [](ExtendsEnds => phase # "overflow")
<1> DEFINE Returns == BasesKnown /\ (ExtendsEnds => phase # "overflow")
<1>1. Init => Returns
  BY DEF Init, BasesKnown
<1>2. Typed /\ Typed' /\ Returns /\ [Next]_vars => Returns'
  <2> SUFFICES ASSUME Typed, Typed', Returns, [Next]_vars PROVE Returns'
    OBVIOUS
  <2>1. files' = files
    BY DEF Next, Resolve, Validate, SkipRoot, MapTypes, StartMapper, VisitUse, FinishMapper, MapEndless,
           Decide, vars
  <2>2. ExtendsEnds' <=> ExtendsEnds
    BY <2>1 DEF ExtendsEnds, Of
  <2>3. BasesKnown'
    BY StepBases
  <2> QED
    BY <2>2, <2>3, StepReturns
<1> QED
  BY InitTyped, StepTyped, <1>1, <1>2, PTL DEF Spec

===============================================================================
