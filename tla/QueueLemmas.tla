---------------------------- MODULE QueueLemmas ------------------------------
(* What the proofs need to know of sequences used as work lists: the contents  *)
(* of a list after one is appended or taken, that no element is in it twice,   *)
(* and that a list of bounded length is a sequence; and induction, by which a  *)
(* function defined by recursion over an interval is shown to exist.           *)
EXTENDS Naturals, Sequences, SequenceTheorems, WellFoundedInduction, TLAPS

LEMMA AppendContents ==
    ASSUME NEW T, NEW s \in Seq(T), NEW x \in T
    PROVE  {Append(s, x)[i] : i \in DOMAIN Append(s, x)} = {s[i] : i \in DOMAIN s} \cup {x}
<1>1. DOMAIN Append(s, x) = DOMAIN s \cup {Len(s) + 1} /\ Append(s, x)[Len(s) + 1] = x
  OBVIOUS
<1>2. \A i \in DOMAIN s : Append(s, x)[i] = s[i]
  OBVIOUS
<1> QED
  BY <1>1, <1>2

LEMMA TailContents ==
    ASSUME NEW T, NEW s \in Seq(T), s # <<>>
    PROVE  /\ Head(s) \in T /\ Tail(s) \in Seq(T)
           /\ {s[i] : i \in DOMAIN s} = {Head(s)} \cup {Tail(s)[i] : i \in DOMAIN Tail(s)}
<1>1. Head(s) \in T /\ Tail(s) \in Seq(T) /\ Head(s) = s[1] /\ Len(s) > 0
  OBVIOUS
<1>2. DOMAIN Tail(s) = 1..(Len(s) - 1) /\ \A i \in 1..(Len(s) - 1) : Tail(s)[i] = s[i + 1]
  OBVIOUS
<1>3. ASSUME NEW i \in DOMAIN s PROVE s[i] \in {Head(s)} \cup {Tail(s)[j] : j \in DOMAIN Tail(s)}
  <2>1. CASE i = 1
    BY <1>1, <2>1
  <2>2. CASE i # 1
    <3>1. i - 1 \in DOMAIN Tail(s) /\ Tail(s)[i - 1] = s[i]
      BY <1>1, <1>2, <2>2
    <3> QED
      BY <3>1
  <2> QED
    BY <2>1, <2>2
<1>4. \A i \in DOMAIN Tail(s) : Tail(s)[i] \in {s[j] : j \in DOMAIN s}
  BY <1>1, <1>2
<1> QED
  BY <1>1, <1>3, <1>4

ElementsOf(l) == {l[i] : i \in DOMAIN l}

LEMMA ConcatContents ==
    ASSUME NEW T, NEW s \in Seq(T), NEW t \in Seq(T)
    PROVE  ElementsOf(s \o t) = ElementsOf(s) \cup ElementsOf(t)
<1> USE DEF ElementsOf
<1>1. /\ DOMAIN s = 1..Len(s) /\ DOMAIN t = 1..Len(t) /\ Len(s) \in Nat /\ Len(t) \in Nat
      /\ DOMAIN (s \o t) = 1..(Len(s) + Len(t))
      /\ \A i \in 1..(Len(s) + Len(t)) : (s \o t)[i] = IF i <= Len(s) THEN s[i] ELSE t[i - Len(s)]
  OBVIOUS
<1>2. \A i \in 1..Len(s) : i \in 1..(Len(s) + Len(t)) /\ (s \o t)[i] = s[i]
  BY <1>1
<1>3. \A i \in 1..Len(t) : i + Len(s) \in 1..(Len(s) + Len(t)) /\ (s \o t)[i + Len(s)] = t[i]
  BY <1>1
<1>4. ASSUME NEW i \in 1..(Len(s) + Len(t))
      PROVE  (s \o t)[i] \in ElementsOf(s) \cup ElementsOf(t)
  <2>1. CASE i <= Len(s)
    <3>1. i \in DOMAIN s /\ (s \o t)[i] = s[i]
      BY <1>1, <2>1
    <3> QED
      BY <3>1
  <2>2. CASE ~(i <= Len(s))
    <3>1. i - Len(s) \in DOMAIN t /\ (s \o t)[i] = t[i - Len(s)]
      BY <1>1, <2>2
    <3> QED
      BY <3>1
  <2> QED
    BY <2>1, <2>2
<1>5. ElementsOf(s \o t) \subseteq ElementsOf(s) \cup ElementsOf(t)
  BY <1>1, <1>4
<1>6. ElementsOf(s) \subseteq ElementsOf(s \o t)
  BY <1>1, <1>2
<1>7. ElementsOf(t) \subseteq ElementsOf(s \o t)
  BY <1>1, <1>3
<1> QED
  BY <1>5, <1>6, <1>7

LEMMA AppendDistinct ==
    ASSUME NEW T, NEW s \in Seq(T), NEW x \in T,
           \A i, j \in DOMAIN s : s[i] = s[j] => i = j,
           x \notin {s[i] : i \in DOMAIN s}
    PROVE  \A i, j \in DOMAIN Append(s, x) : Append(s, x)[i] = Append(s, x)[j] => i = j
<1>1. DOMAIN Append(s, x) = DOMAIN s \cup {Len(s) + 1} /\ Append(s, x)[Len(s) + 1] = x
  OBVIOUS
<1>2. \A i \in DOMAIN s : Append(s, x)[i] = s[i]
  OBVIOUS
<1> QED
  BY <1>1, <1>2

LEMMA TailDistinct ==
    ASSUME NEW T, NEW s \in Seq(T), s # <<>>,
           \A i, j \in DOMAIN s : s[i] = s[j] => i = j
    PROVE  /\ \A i, j \in DOMAIN Tail(s) : Tail(s)[i] = Tail(s)[j] => i = j
           /\ Head(s) \notin {Tail(s)[i] : i \in DOMAIN Tail(s)}
<1>1. DOMAIN Tail(s) = 1..(Len(s) - 1) /\ \A i \in 1..(Len(s) - 1) : Tail(s)[i] = s[i + 1]
  OBVIOUS
<1>2. Head(s) = s[1] /\ DOMAIN s = 1..Len(s) /\ Len(s) \in Nat /\ Len(s) > 0
  OBVIOUS
<1>3. \A i \in 1..(Len(s) - 1) : i + 1 \in DOMAIN s /\ i + 1 # 1
  BY <1>2
<1>4. 1 \in DOMAIN s
  BY <1>2
<1>5. ASSUME NEW i \in DOMAIN Tail(s), NEW j \in DOMAIN Tail(s), Tail(s)[i] = Tail(s)[j]
      PROVE  i = j
  <2>1. i \in 1..(Len(s) - 1) /\ j \in 1..(Len(s) - 1) /\ s[i + 1] = s[j + 1]
    BY <1>1, <1>5
  <2>2. i + 1 = j + 1
    BY <1>3, <2>1
  <2> QED
    BY <2>1, <2>2
<1>6. \A i \in DOMAIN Tail(s) : Head(s) # Tail(s)[i]
  BY <1>1, <1>2, <1>3, <1>4
<1> QED
  BY <1>5, <1>6

LEMMA BoundedIsSequence ==
    ASSUME NEW S, NEW m \in Nat, NEW l \in UNION {[1..n -> S] : n \in 0..m}
    PROVE  l \in Seq(S)
<1>1. PICK n \in 0..m : l \in [1..n -> S]
  OBVIOUS
<1> QED
  BY <1>1, SeqDef
-----------------------------------------------------------------------------
(* Induction over the natural numbers by the least counterexample.         *)

Below == {ss \in Nat \X Nat : ss[1] < ss[2]}

LEMMA LeastNumber ==
    ASSUME NEW S \in SUBSET Nat, S # {}
    PROVE  \E m \in S : \A n \in S : m <= n
<1>1. IsWellFoundedOn(Below, Nat)
  BY NatLessThanWellFounded DEF OpToRel, Below
<1>2. PICK m \in S : \A n \in S : <<n, m>> \notin Below
  BY <1>1, WFMin
<1>3. ASSUME NEW n \in S, ~(m <= n) PROVE FALSE
  <2>1. <<n, m>> \in Nat \X Nat /\ <<n, m>>[1] < <<n, m>>[2]
    BY <1>3
  <2>2. <<n, m>> \in Below
    BY <2>1 DEF Below
  <2> QED
    BY <1>2, <2>2
<1> QED
  BY <1>3

LEMMA LargestNumber ==
    ASSUME NEW N \in Nat, NEW S \in SUBSET (0..N), S # {}
    PROVE  \E m \in S : \A n \in S : m >= n
<1> DEFINE P == {N - n : n \in S}
<1>1. P \in SUBSET Nat /\ P # {}
  <2>1. \A n \in S : n \in Nat /\ N - n \in Nat
    OBVIOUS
  <2> QED
    BY <2>1
<1>2. PICK m \in P : \A n \in P : m <= n
  <2> HIDE DEF P
  <2> QED
    BY <1>1, LeastNumber
<1>3. PICK x \in S : m = N - x
  BY <1>2
<1>4. ASSUME NEW y \in S PROVE x >= y
  <2>1. N - x <= N - y
    BY <1>2, <1>3
  <2> QED
    BY <2>1
<1> QED
  BY <1>4

\* What a recursive function over an interval promises exists.
LEMMA FiniteRecursion ==
    ASSUME NEW S, NEW a \in S, NEW k \in Nat, NEW step \in [1..k -> [S -> S]]
    PROVE  \E g \in [0..k -> S] : g[0] = a /\ \A n \in 1..k : g[n] = step[n][g[n - 1]]
<1> DEFINE Good(j) == \E g \in [0..j -> S] : g[0] = a /\ \A n \in 1..j : g[n] = step[n][g[n - 1]]
           Bad     == {j \in 0..k : ~Good(j)}
<1> SUFFICES Good(k)
  OBVIOUS
<1> HIDE DEF Good
<1> SUFFICES ASSUME Bad # {} PROVE FALSE
  OBVIOUS
<1>1. PICK m \in Bad : \A n \in Bad : m <= n
  <2>1. Bad \in SUBSET Nat
    OBVIOUS
  <2> HIDE DEF Bad
  <2> QED
    BY <2>1, LeastNumber
<1>2. CASE m = 0
  <2> DEFINE g == [n \in 0..0 |-> a]
  <2>1. g \in [0..0 -> S] /\ g[0] = a /\ \A n \in 1..0 : g[n] = step[n][g[n - 1]]
    OBVIOUS
  <2>2. Good(0)
    BY <2>1 DEF Good
  <2> QED
    BY <1>1, <1>2, <2>2
<1>3. CASE m # 0
  <2>1. m - 1 \in 0..k /\ m \in 1..k /\ m - 1 \notin Bad
    <3>1. m \in 0..k /\ \A n \in Bad : m <= n
      BY <1>1
    <3> QED
      BY <1>3, <3>1
  <2>2. PICK g \in [0..(m - 1) -> S] :
              g[0] = a /\ \A n \in 1..(m - 1) : g[n] = step[n][g[n - 1]]
    BY <2>1 DEF Good
  <2> DEFINE h == [n \in 0..m |-> IF n = m THEN step[m][g[m - 1]] ELSE g[n]]
  <2>3. step[m][g[m - 1]] \in S
    BY <2>1
  <2>4. h \in [0..m -> S] /\ h[0] = a
    BY <1>3, <2>1, <2>2, <2>3
  <2>5. ASSUME NEW n \in 1..m PROVE h[n] = step[n][h[n - 1]]
    <3>1. n \in 0..m /\ n - 1 \in 0..m /\ n - 1 # m
      BY <2>1, <2>5
    <3>2. CASE n = m
      BY <3>1, <3>2
    <3>3. CASE n # m
      <4>1. n \in 1..(m - 1) /\ n - 1 \in 0..(m - 1)
        BY <2>1, <2>5, <3>3
      <4> QED
        BY <2>2, <3>1, <3>3, <4>1
    <3> QED
      BY <3>2, <3>3
  <2>6. Good(m)
    BY <2>4, <2>5 DEF Good
  <2> QED
    BY <1>1, <2>6
<1> QED
  BY <1>2, <1>3

LEMMA LastAppended ==
    ASSUME NEW T, NEW a \in Seq(T), NEW b \in Seq(T), Len(b) = 1
    PROVE  /\ Len(a \o b) = Len(a) + 1 /\ Len(a) \in Nat
           /\ SubSeq(a \o b, 1, Len(a \o b) - 1) = a
           /\ <<(a \o b)[Len(a \o b)]>> = b
<1> DEFINE c == a \o b
           front == SubSeq(c, 1, Len(a))
<1>1. Len(a) \in Nat /\ 1 \in 1..Len(b) /\ b[1] \in T
  <2>1. Len(a) \in Nat /\ 1 \in 1..Len(b)
    BY LenProperties
  <2> QED
    BY <2>1, ElementOfSeq
<1>2. /\ c \in Seq(T) /\ Len(c) = Len(a) + Len(b)
      /\ \A i \in 1..Len(a) + Len(b) : c[i] = IF i <= Len(a) THEN a[i] ELSE b[i - Len(a)]
  BY ConcatProperties
<1> HIDE DEF c
<1>3. /\ Len(c) = Len(a) + 1
      /\ \A i \in 1..Len(a) : c[i] = a[i]
      /\ c[Len(a) + 1] = b[1]
  BY <1>1, <1>2
<1>4. \A i \in 1..Len(a) : c[i] \in T
  BY <1>1, <1>3, ElementOfSeq
<1>5. /\ front \in Seq(T) /\ Len(front) = Len(a)
      /\ \A i \in 1..Len(a) : front[i] = c[i]
  BY <1>1, <1>4, SubSeqProperties
<1> HIDE DEF front
<1>6. front = a
  <2>1. \A i \in 1..Len(front) : front[i] = a[i]
    BY <1>3, <1>5
  <2> QED
    BY <1>5, <2>1, SeqEqual
<1>7. <<b[1]>> = b
  <2>1. <<b[1]>> \in Seq(T) /\ Len(<<b[1]>>) = 1 /\ <<b[1]>>[1] = b[1]
    BY <1>1
  <2>2. \A i \in 1..Len(b) : <<b[1]>>[i] = b[i]
    BY <2>1
  <2> QED
    BY <2>1, <2>2, SeqEqual
<1>8. Len(c) - 1 = Len(a) /\ c[Len(c)] = b[1]
  BY <1>1, <1>3
<1> QED
  BY <1>1, <1>3, <1>6, <1>7, <1>8 DEF c, front

=============================================================================
