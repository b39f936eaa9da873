--------------------------- MODULE SequenceLemmas ---------------------------
(***************************************************************************)
(* Facts about naturals and sequences that the proofs of the components    *)
(* share.  Induction is stated with sets instead of predicates: the        *)
(* smallest member of the set of counterexamples is taken from WFMin.      *)
(***************************************************************************)
EXTENDS Subsequences, SequencesExt, SequenceTheorems, WellFoundedInduction, TLAPS

Less == {p \in Nat \X Nat : p[1] < p[2]}

LEMMA LessWellFounded == IsWellFoundedOn(Less, Nat)
<1>1. Less = OpToRel(<, Nat)
  BY Zenon DEF Less, OpToRel
<1> QED
  BY <1>1, NatLessThanWellFounded, Zenon

\* A set of naturals that is not empty has a smallest member.
LEMMA Smallest ==
  ASSUME NEW T \in SUBSET Nat, T # {}
  PROVE  \E x \in T : \A y \in T : x <= y
<1>1. PICK x \in T : \A y \in T : ~ (<<y, x>> \in Less)
  BY WFMin, LessWellFounded
<1>2. ASSUME NEW y \in T
      PROVE  x <= y
  <2>1. x \in Nat /\ y \in Nat
    OBVIOUS
  <2>2. <<y, x>> \in Nat \X Nat
    BY <2>1
  <2>3. y < x => <<y, x>> \in Less
    BY <2>2 DEF Less
  <2> QED
    BY <2>1, <2>3, <1>1
<1> QED
  BY <1>2

\* Induction over the naturals.
LEMMA NatInduct ==
  ASSUME NEW T, 0 \in T, \A n \in Nat : n \in T => n + 1 \in T
  PROVE  Nat \subseteq T
<1>1. SUFFICES ASSUME Nat \ T # {} PROVE FALSE
  OBVIOUS
<1>2. PICK x \in Nat \ T : \A y \in Nat \ T : x <= y
  BY <1>1, Smallest
<1>3. x - 1 \in Nat
  BY <1>2
<1>4. x - 1 \in T
  BY <1>2, <1>3
<1> QED
  BY <1>2, <1>3, <1>4

\* A part of a sequence.
LEMMA Part ==
  ASSUME NEW X, NEW s \in Seq(X), NEW m \in Int, NEW n \in Int,
         1 <= m, m <= n + 1, n <= Len(s)
  PROVE  /\ SubSeq(s, m, n) \in Seq(X) /\ Len(SubSeq(s, m, n)) = n - m + 1
         /\ \A i \in 1 .. n - m + 1 : SubSeq(s, m, n)[i] = s[m + i - 1]
<1>1. SubSeq(s, m, n) \in Seq(X)
  OBVIOUS
<1>2. Len(SubSeq(s, m, n)) = n - m + 1
  OBVIOUS
<1>3. \A i \in 1 .. n - m + 1 : SubSeq(s, m, n)[i] = s[m + i - 1]
  OBVIOUS
<1> QED
  BY <1>1, <1>2, <1>3

\* A sequence is empty, or some sequence with an element behind it.
LEMMA FrontLast ==
  ASSUME NEW X, NEW s \in Seq(X), s # <<>>
  PROVE  /\ Front(s) \in Seq(X) /\ Last(s) \in X /\ s = Append(Front(s), Last(s))
         /\ Len(s) \in Nat \ {0} /\ Len(Front(s)) = Len(s) - 1
         /\ \A i \in 1 .. Len(s) - 1 : Front(s)[i] = s[i]
<1>1. Len(s) \in Nat \ {0} /\ Last(s) \in X
  BY DEF Last
<1>2. /\ Front(s) \in Seq(X) /\ Len(Front(s)) = Len(s) - 1
      /\ \A i \in 1 .. Len(s) - 1 : Front(s)[i] = s[i]
  <2> DEFINE n == Len(s) - 1
  <2>1. n \in Int /\ 1 <= n + 1 /\ n <= Len(s) /\ n - 1 + 1 = n
    BY <1>1
  <2>2. Front(s) = SubSeq(s, 1, n)
    BY DEF Front
  <2> HIDE DEF n
  <2>3. /\ SubSeq(s, 1, n) \in Seq(X) /\ Len(SubSeq(s, 1, n)) = n
        /\ \A i \in 1 .. n : SubSeq(s, 1, n)[i] = s[i]
    BY <2>1
  <2> QED
    BY <2>2, <2>3 DEF n
<1>3. s = Append(Front(s), Last(s))
  <2>1. /\ Append(Front(s), Last(s)) \in Seq(X) /\ Len(Append(Front(s), Last(s))) = Len(s)
    BY <1>1, <1>2
  <2>2. \A i \in 1 .. Len(s) : Append(Front(s), Last(s))[i] = s[i]
    BY <1>1, <1>2 DEF Last
  <2> QED
    BY <2>1, <2>2, SeqEqual
<1> QED
  BY <1>1, <1>2, <1>3

\* Induction over the sequences of X.
LEMMA SeqInduct ==
  ASSUME NEW X, NEW T, <<>> \in T,
         \A s \in Seq(X) : \A e \in X : s \in T => Append(s, e) \in T
  PROVE  Seq(X) \subseteq T
<1> DEFINE N == {n \in Nat : \A s \in Seq(X) : Len(s) = n => s \in T}
<1>1. 0 \in N
  OBVIOUS
<1>2. ASSUME NEW n \in Nat, n \in N
      PROVE  n + 1 \in N
  <2>1. SUFFICES ASSUME NEW s \in Seq(X), Len(s) = n + 1
                 PROVE  s \in T
    OBVIOUS
  <2>2. s # <<>>
    BY <2>1
  <2>3. Front(s) \in T
    BY <2>1, <2>2, <1>2, FrontLast
  <2>4. /\ Front(s) \in Seq(X) /\ Last(s) \in X /\ s = Append(Front(s), Last(s))
    BY <2>2, FrontLast
  <2> QED
    BY <2>3, <2>4
<1>3. Nat \subseteq N
  BY <1>1, <1>2, NatInduct
<1>4. ASSUME NEW s \in Seq(X)
      PROVE  s \in T
  BY <1>3
<1> QED
  BY <1>4

-----------------------------------------------------------------------------
\* The recursion of Kept() up to n has a solution.
IsFilter(f, s, S, n) ==
  f = [i \in 0 .. n |->
         IF i = 0 THEN <<>>
         ELSE IF s[i] \in S THEN Append(f[i - 1], s[i]) ELSE f[i - 1]]

LEMMA FilterExists ==
  ASSUME NEW s, NEW S, NEW n \in Nat
  PROVE  \E f : IsFilter(f, s, S, n)
<1> DEFINE T == {m \in Nat : \E f : IsFilter(f, s, S, m)}
<1>1. 0 \in T
  <2>1. IsFilter([i \in 0 .. 0 |-> <<>>], s, S, 0)
    BY DEF IsFilter
  <2> QED
    BY <2>1
<1>2. ASSUME NEW m \in Nat, m \in T
      PROVE  m + 1 \in T
  <2>1. PICK f : IsFilter(f, s, S, m)
    BY <1>2
  <2> DEFINE last == IF s[m + 1] \in S THEN Append(f[m], s[m + 1]) ELSE f[m]
             g == [i \in 0 .. m + 1 |-> IF i <= m THEN f[i] ELSE last]
  <2>2. ASSUME NEW i \in 0 .. m + 1
        PROVE  g[i] = IF i = 0 THEN <<>>
                      ELSE IF s[i] \in S THEN Append(g[i - 1], s[i]) ELSE g[i - 1]
    <3>1. CASE i = 0
      BY <3>1, <2>1 DEF IsFilter
    <3>2. CASE i \in 1 .. m
      <4>1. i - 1 \in 0 .. m /\ i \in 0 .. m
        BY <3>2
      <4>2. g[i] = f[i] /\ g[i - 1] = f[i - 1]
        BY <4>1, <3>2
      <4> QED
        BY <4>1, <4>2, <3>2, <2>1 DEF IsFilter
    <3>3. CASE i = m + 1
      BY <3>3
    <3> QED
      BY <3>1, <3>2, <3>3
  <2>3. IsFilter(g, s, S, m + 1)
    BY <2>2 DEF IsFilter
  <2> QED
    BY <2>3
<1> QED
  BY <1>1, <1>2, NatInduct

\* ... and only one, so it does not depend on what comes behind n.
LEMMA FilterUnique ==
  ASSUME NEW s, NEW t, NEW S, NEW n \in Nat, NEW m \in Nat, n <= m,
         \A i \in 1 .. n : s[i] = t[i],
         NEW f, NEW g, IsFilter(f, s, S, n), IsFilter(g, t, S, m)
  PROVE  f[n] = g[n]
<1> DEFINE T == {j \in Nat : j <= n => f[j] = g[j]}
<1>1. 0 \in T
  BY DEF IsFilter
<1>2. ASSUME NEW j \in Nat, j \in T
      PROVE  j + 1 \in T
  <2> SUFFICES ASSUME j + 1 <= n
               PROVE  f[j + 1] = g[j + 1]
    OBVIOUS
  <2>1. f[j] = g[j] /\ s[j + 1] = t[j + 1]
    BY <1>2
  <2>2. j + 1 \in 0 .. n /\ j + 1 \in 0 .. m /\ j + 1 # 0 /\ (j + 1) - 1 = j
    OBVIOUS
  <2>3. f[j + 1] = IF s[j + 1] \in S THEN Append(f[j], s[j + 1]) ELSE f[j]
    BY <2>2 DEF IsFilter
  <2>4. g[j + 1] = IF t[j + 1] \in S THEN Append(g[j], t[j + 1]) ELSE g[j]
    BY <2>2 DEF IsFilter
  <2> QED
    BY <2>1, <2>3, <2>4
<1>3. Nat \subseteq T
  BY <1>1, <1>2, NatInduct
<1> QED
  BY <1>3

LEMMA KeptIsFilter ==
  ASSUME NEW X, NEW s \in Seq(X), NEW S
  PROVE  \E f : IsFilter(f, s, S, Len(s)) /\ Kept(s, S) = f[Len(s)]
<1> DEFINE k == CHOOSE f : IsFilter(f, s, S, Len(s))
<1>1. Kept(s, S) = k[Len(s)]
  BY DEF Kept, IsFilter
<1>2. IsFilter(k, s, S, Len(s))
  <2>1. Len(s) \in Nat
    OBVIOUS
  <2>2. \E f : IsFilter(f, s, S, Len(s))
    BY <2>1, FilterExists
  <2> QED
    BY <2>2, Zenon
<1> QED
  BY <1>1, <1>2

\* Kept() computes what its definition says, element by element.
LEMMA KeptNone ==
  ASSUME NEW S
  PROVE  Kept(<<>>, S) = <<>>
<1>1. <<>> \in Seq({}) /\ Len(<<>>) = 0
  OBVIOUS
<1>2. PICK f : IsFilter(f, <<>>, S, 0) /\ Kept(<<>>, S) = f[0]
  BY <1>1, KeptIsFilter, Zenon
<1> QED
  BY <1>2 DEF IsFilter

LEMMA KeptAppend ==
  ASSUME NEW X, NEW S, NEW s \in Seq(X), NEW e \in X
  PROVE  /\ e \in S => Kept(Append(s, e), S) = Append(Kept(s, S), e)
         /\ e \notin S => Kept(Append(s, e), S) = Kept(s, S)
<1> DEFINE n == Len(s)
           t == Append(s, e)
<1>1. n \in Nat /\ t \in Seq(X) /\ Len(t) = n + 1 /\ t[n + 1] = e
      /\ \A i \in 1 .. n : s[i] = t[i]
  OBVIOUS
<1> HIDE DEF n, t
<1>2. PICK f : IsFilter(f, s, S, n) /\ Kept(s, S) = f[n]
  BY KeptIsFilter DEF n
<1>3. PICK g : IsFilter(g, t, S, n + 1) /\ Kept(t, S) = g[n + 1]
  BY <1>1, KeptIsFilter
<1>4. f[n] = g[n]
  BY <1>1, <1>2, <1>3, FilterUnique
<1>5. n + 1 \in 0 .. n + 1 /\ n + 1 # 0 /\ (n + 1) - 1 = n
  BY <1>1
<1>6. g[n + 1] = IF t[n + 1] \in S THEN Append(g[n], t[n + 1]) ELSE g[n]
  BY <1>3, <1>5 DEF IsFilter
<1> QED
  BY <1>1, <1>2, <1>3, <1>4, <1>6 DEF t

\* The elements of a sequence with one more behind it.
LEMMA ToSetAppend ==
  ASSUME NEW X, NEW s \in Seq(X), NEW e \in X
  PROVE  ToSet(Append(s, e)) = ToSet(s) \union {e}
<1>1. ASSUME NEW x \in ToSet(Append(s, e))
      PROVE  x \in ToSet(s) \union {e}
  BY DEF ToSet
<1>2. ASSUME NEW x \in ToSet(s) \union {e}
      PROVE  x \in ToSet(Append(s, e))
  <2>1. CASE x \in ToSet(s)
    <3>1. PICK i \in 1 .. Len(s) : x = s[i]
      BY <2>1 DEF ToSet
    <3>2. i \in DOMAIN Append(s, e) /\ Append(s, e)[i] = x
      BY <3>1
    <3> QED
      BY <3>2 DEF ToSet
  <2>2. CASE x = e
    <3>1. Len(s) + 1 \in DOMAIN Append(s, e) /\ Append(s, e)[Len(s) + 1] = x
      BY <2>2
    <3> QED
      BY <3>1 DEF ToSet
  <2> QED
    BY <2>1, <2>2
<1> QED
  BY <1>1, <1>2

LEMMA KeptType ==
  ASSUME NEW X, NEW S
  PROVE  \A s \in Seq(X) : Kept(s, S) \in Seq(X)
<1> DEFINE T == {s \in Seq(X) : Kept(s, S) \in Seq(X)}
<1>1. <<>> \in T
  <2>1. Kept(<<>>, S) = <<>>
    BY KeptNone
  <2>2. <<>> \in Seq(X)
    OBVIOUS
  <2> QED
    BY <2>1, <2>2, Zenon
<1>2. ASSUME NEW s \in Seq(X), NEW e \in X, s \in T
      PROVE  Append(s, e) \in T
  <2>1. Kept(Append(s, e), S) = IF e \in S THEN Append(Kept(s, S), e) ELSE Kept(s, S)
    BY KeptAppend
  <2> QED
    BY <1>2, <2>1
<1>3. Seq(X) \subseteq T
  BY <1>1, <1>2, SeqInduct
<1> QED
  BY <1>3

\* It keeps the elements that are in S ...
LEMMA KeptSet ==
  ASSUME NEW X, NEW S
  PROVE  \A s \in Seq(X) : ToSet(Kept(s, S)) = ToSet(s) \intersect S
<1> DEFINE T == {s \in Seq(X) : ToSet(Kept(s, S)) = ToSet(s) \intersect S}
<1>1. <<>> \in T
  BY KeptNone DEF ToSet
<1>2. ASSUME NEW s \in Seq(X), NEW e \in X, s \in T
      PROVE  Append(s, e) \in T
  <2>1. Kept(Append(s, e), S) = IF e \in S THEN Append(Kept(s, S), e) ELSE Kept(s, S)
    BY KeptAppend
  <2>2. ToSet(Append(s, e)) = ToSet(s) \union {e}
    BY ToSetAppend
  <2>3. ToSet(Append(Kept(s, S), e)) = ToSet(Kept(s, S)) \union {e}
    BY KeptType, ToSetAppend
  <2>4. Append(s, e) \in Seq(X)
    OBVIOUS
  <2> QED
    BY <1>2, <2>1, <2>2, <2>3, <2>4
<1>3. Seq(X) \subseteq T
  BY <1>1, <1>2, SeqInduct
<1> QED
  BY <1>3

\* ... and drops the others.
LEMMA KeptLen ==
  ASSUME NEW X, NEW S, NEW R, \A x \in X : x \in S <=> x \notin R
  PROVE  \A s \in Seq(X) : Len(Kept(s, S)) + Len(Kept(s, R)) = Len(s)
<1> DEFINE T == {s \in Seq(X) : Len(Kept(s, S)) + Len(Kept(s, R)) = Len(s)}
<1>1. <<>> \in T
  <2>1. Kept(<<>>, S) = <<>> /\ Kept(<<>>, R) = <<>>
    BY KeptNone
  <2> QED
    BY <2>1
<1>2. ASSUME NEW s \in Seq(X), NEW e \in X, s \in T
      PROVE  Append(s, e) \in T
  <2>1. /\ Kept(Append(s, e), S) = IF e \in S THEN Append(Kept(s, S), e) ELSE Kept(s, S)
        /\ Kept(Append(s, e), R) = IF e \in R THEN Append(Kept(s, R), e) ELSE Kept(s, R)
    BY KeptAppend
  <2>2. Kept(s, S) \in Seq(X) /\ Kept(s, R) \in Seq(X)
    BY KeptType
  <2>3. e \in S <=> e \notin R
    OBVIOUS
  <2> QED
    BY <1>2, <2>1, <2>2, <2>3
<1>3. Seq(X) \subseteq T
  BY <1>1, <1>2, SeqInduct
<1> QED
  BY <1>3

\* The kept elements stay in their order, and none moves up.
InOrder(k, s) ==
  /\ \A n \in 1 .. Len(k) : \E m \in n .. Len(s) : k[n] = s[m]
  /\ \A a, c \in 1 .. Len(k) :
       a < c => \E i, j \in 1 .. Len(s) : i < j /\ k[a] = s[i] /\ k[c] = s[j]

LEMMA KeptInOrder ==
  ASSUME NEW X, NEW S
  PROVE  \A s \in Seq(X) : InOrder(Kept(s, S), s) /\ Len(Kept(s, S)) <= Len(s)
<1> DEFINE T == {s \in Seq(X) : InOrder(Kept(s, S), s) /\ Len(Kept(s, S)) <= Len(s)}
<1>1. <<>> \in T
  <2>1. Kept(<<>>, S) = <<>>
    BY KeptNone
  <2> QED
    BY <2>1 DEF InOrder
<1>2. ASSUME NEW s \in Seq(X), NEW e \in X, s \in T
      PROVE  Append(s, e) \in T
  <2> DEFINE k == Kept(s, S)
             t == Append(s, e)
  <2>1. /\ k \in Seq(X) /\ Len(k) \in Nat /\ Len(k) <= Len(s) /\ InOrder(k, s)
        /\ t \in Seq(X) /\ Len(s) \in Nat /\ Len(t) = Len(s) + 1 /\ t[Len(s) + 1] = e
        /\ \A i \in 1 .. Len(s) : t[i] = s[i]
    BY <1>2, KeptType
  <2>2. Kept(t, S) = IF e \in S THEN Append(k, e) ELSE k
    BY KeptAppend
  <2> HIDE DEF k, t
  <2>3. InOrder(k, t)
    <3>1. ASSUME NEW n \in 1 .. Len(k)
          PROVE  \E m \in n .. Len(t) : k[n] = t[m]
      <4>1. PICK m \in n .. Len(s) : k[n] = s[m]
        BY <2>1 DEF InOrder
      <4>2. m \in n .. Len(t) /\ m \in 1 .. Len(s)
        BY <2>1
      <4> QED
        BY <2>1, <4>1, <4>2
    <3>2. ASSUME NEW a \in 1 .. Len(k), NEW c \in 1 .. Len(k), a < c
          PROVE  \E i, j \in 1 .. Len(t) : i < j /\ k[a] = t[i] /\ k[c] = t[j]
      <4>1. PICK i \in 1 .. Len(s), j \in 1 .. Len(s) : i < j /\ k[a] = s[i] /\ k[c] = s[j]
        BY <2>1, <3>2 DEF InOrder
      <4>2. i \in 1 .. Len(t) /\ j \in 1 .. Len(t) /\ t[i] = s[i] /\ t[j] = s[j]
        BY <2>1
      <4> QED
        BY <4>1, <4>2
    <3> QED
      BY <3>1, <3>2 DEF InOrder
  <2>4. ASSUME e \in S
        PROVE  InOrder(Append(k, e), t)
    <3> DEFINE l == Append(k, e)
    <3>1. /\ Len(l) = Len(k) + 1 /\ l[Len(k) + 1] = e
          /\ \A i \in 1 .. Len(k) : l[i] = k[i]
      BY <2>1
    <3> HIDE DEF l
    <3>2. ASSUME NEW n \in 1 .. Len(l)
          PROVE  \E m \in n .. Len(t) : l[n] = t[m]
      <4>1. CASE n \in 1 .. Len(k)
        <5>1. \E m \in n .. Len(t) : k[n] = t[m]
          BY <4>1, <2>3 DEF InOrder
        <5>2. l[n] = k[n]
          BY <4>1, <3>1
        <5> QED
          BY <5>1, <5>2
      <4>2. CASE n = Len(k) + 1
        <5>1. Len(s) + 1 \in n .. Len(t)
          BY <4>2, <2>1
        <5> QED
          BY <5>1, <4>2, <3>1, <2>1
      <4> QED
        BY <4>1, <4>2, <3>1, <2>1
    <3>3. ASSUME NEW a \in 1 .. Len(l), NEW c \in 1 .. Len(l), a < c
          PROVE  \E i, j \in 1 .. Len(t) : i < j /\ l[a] = t[i] /\ l[c] = t[j]
      <4>1. CASE c \in 1 .. Len(k)
        <5>1. a \in 1 .. Len(k)
          BY <4>1, <3>3, <2>1
        <5>2. \E i, j \in 1 .. Len(t) : i < j /\ k[a] = t[i] /\ k[c] = t[j]
          BY <4>1, <5>1, <3>3, <2>3 DEF InOrder
        <5> QED
          BY <4>1, <5>1, <5>2, <3>1
      <4>2. CASE c = Len(k) + 1
        <5>1. a \in 1 .. Len(k)
          BY <4>2, <3>3, <3>1, <2>1
        <5>2. PICK m \in a .. Len(s) : k[a] = s[m]
          BY <5>1, <2>1 DEF InOrder
        <5>3. m \in 1 .. Len(t) /\ Len(s) + 1 \in 1 .. Len(t) /\ m < Len(s) + 1 /\ t[m] = s[m]
          BY <5>1, <2>1
        <5> QED
          BY <5>1, <5>2, <5>3, <4>2, <3>1, <2>1
      <4> QED
        BY <4>1, <4>2, <3>1, <2>1
    <3> QED
      BY <3>2, <3>3 DEF InOrder, l
  <2>5. ASSUME e \in S
        PROVE  Len(Append(k, e)) <= Len(t)
    BY <2>1
  <2>6. Len(k) <= Len(t)
    BY <2>1
  <2> QED
    BY <2>1, <2>2, <2>3, <2>4, <2>5, <2>6 DEF t
<1>3. Seq(X) \subseteq T
  BY <1>1, <1>2, SeqInduct
<1> QED
  BY <1>3

-----------------------------------------------------------------------------
\* What the operators of SequencesExt return, element by element.
LEMMA ToSetConcat ==
  ASSUME NEW X, NEW s \in Seq(X), NEW t \in Seq(X)
  PROVE  ToSet(s \o t) = ToSet(s) \union ToSet(t)
<1>1. /\ s \o t \in Seq(X) /\ Len(s \o t) = Len(s) + Len(t)
      /\ \A i \in 1 .. Len(s) + Len(t) :
           (s \o t)[i] = IF i <= Len(s) THEN s[i] ELSE t[i - Len(s)]
  BY ConcatProperties
<1>2. ASSUME NEW x \in ToSet(s \o t)
      PROVE  x \in ToSet(s) \union ToSet(t)
  BY <1>1 DEF ToSet
<1>3. ASSUME NEW x \in ToSet(s)
      PROVE  x \in ToSet(s \o t)
  <2>1. PICK i \in 1 .. Len(s) : x = s[i]
    BY DEF ToSet
  <2>2. i \in DOMAIN (s \o t) /\ (s \o t)[i] = x
    BY <1>1, <2>1
  <2> QED
    BY <2>2 DEF ToSet
<1>4. ASSUME NEW x \in ToSet(t)
      PROVE  x \in ToSet(s \o t)
  <2>1. PICK i \in 1 .. Len(t) : x = t[i]
    BY DEF ToSet
  <2>2. Len(s) + i \in DOMAIN (s \o t) /\ (s \o t)[Len(s) + i] = x
    BY <1>1, <2>1
  <2> QED
    BY <2>2 DEF ToSet
<1> QED
  BY <1>2, <1>3, <1>4

LEMMA ReverseFacts ==
  ASSUME NEW X, NEW s \in Seq(X)
  PROVE  /\ Reverse(s) \in Seq(X) /\ Len(Reverse(s)) = Len(s)
         /\ \A i \in 1 .. Len(s) : Reverse(s)[i] = s[(Len(s) - i) + 1]
         /\ ToSet(Reverse(s)) = ToSet(s)
<1>1. /\ Reverse(s) \in Seq(X) /\ Len(Reverse(s)) = Len(s)
      /\ \A i \in 1 .. Len(s) : Reverse(s)[i] = s[(Len(s) - i) + 1]
  BY DEF Reverse
<1>2. ASSUME NEW x \in ToSet(Reverse(s))
      PROVE  x \in ToSet(s)
  <2>1. PICK i \in 1 .. Len(s) : x = Reverse(s)[i]
    BY <1>1 DEF ToSet
  <2>2. (Len(s) - i) + 1 \in 1 .. Len(s) /\ x = s[(Len(s) - i) + 1]
    BY <1>1, <2>1
  <2> QED
    BY <2>2 DEF ToSet
<1>3. ASSUME NEW x \in ToSet(s)
      PROVE  x \in ToSet(Reverse(s))
  <2>1. PICK i \in 1 .. Len(s) : x = s[i]
    BY DEF ToSet
  <2>2. (Len(s) - i) + 1 \in 1 .. Len(s) /\ Reverse(s)[(Len(s) - i) + 1] = x
    BY <1>1, <2>1
  <2> QED
    BY <1>1, <2>2 DEF ToSet
<1> QED
  BY <1>1, <1>2, <1>3

LEMMA InsertAtFacts ==
  ASSUME NEW X, NEW s \in Seq(X), NEW e \in X, NEW p \in 1 .. Len(s) + 1
  PROVE  /\ InsertAt(s, p, e) \in Seq(X) /\ Len(InsertAt(s, p, e)) = Len(s) + 1
         /\ \A i \in 1 .. Len(s) + 1 :
              InsertAt(s, p, e)[i] = IF i < p THEN s[i] ELSE IF i = p THEN e ELSE s[i - 1]
<1> DEFINE u == SubSeq(s, 1, p - 1)
           v == SubSeq(s, p, Len(s))
<1>1. /\ u \in Seq(X) /\ Len(u) = p - 1 /\ \A i \in 1 .. p - 1 : u[i] = s[i]
  OBVIOUS
<1>2. /\ v \in Seq(X) /\ Len(v) = Len(s) - p + 1
      /\ \A i \in 1 .. Len(s) - p + 1 : v[i] = s[p + i - 1]
  OBVIOUS
<1>3. InsertAt(s, p, e) = (u \o <<e>>) \o v
  BY DEF InsertAt
<1> HIDE DEF u, v
<1>4. /\ u \o <<e>> \in Seq(X) /\ Len(u \o <<e>>) = p
      /\ \A i \in 1 .. p : (u \o <<e>>)[i] = IF i < p THEN s[i] ELSE e
  BY <1>1
<1> DEFINE w == u \o <<e>>
<1> HIDE DEF w
<1>5. /\ w \o v \in Seq(X) /\ Len(w \o v) = Len(s) + 1
      /\ \A i \in 1 .. Len(s) + 1 :
           (w \o v)[i] = IF i < p THEN s[i] ELSE IF i = p THEN e ELSE s[i - 1]
  <2>0. w \in Seq(X) /\ v \in Seq(X)
    BY <1>2, <1>4 DEF w
  <2>1. /\ w \o v \in Seq(X) /\ Len(w \o v) = Len(w) + Len(v)
        /\ \A i \in 1 .. Len(w) + Len(v) :
             (w \o v)[i] = IF i <= Len(w) THEN w[i] ELSE v[i - Len(w)]
    BY <2>0, ConcatProperties
  <2>2. Len(w) = p /\ Len(v) = Len(s) - p + 1 /\ Len(s) \in Nat
    BY <1>2, <1>4 DEF w
  <2>3. ASSUME NEW i \in 1 .. Len(s) + 1
        PROVE  (w \o v)[i] = IF i < p THEN s[i] ELSE IF i = p THEN e ELSE s[i - 1]
    <3>1. CASE i <= p
      BY <2>1, <2>2, <3>1, <1>4 DEF w
    <3>2. CASE i > p
      <4>1. i - p \in 1 .. Len(s) - p + 1 /\ p + (i - p) - 1 = i - 1
        BY <3>2, <2>2
      <4>2. (w \o v)[i] = v[i - p]
        BY <2>1, <2>2, <3>2
      <4>3. v[i - p] = s[i - 1]
        BY <4>1, <1>2
      <4> QED
        BY <4>2, <4>3, <3>2
    <3>3. i <= p \/ i > p
      BY <2>2
    <3> QED
      BY <3>1, <3>2, <3>3, Zenon
  <2> QED
    BY <2>1, <2>2, <2>3
<1> QED
  BY <1>3, <1>5 DEF w

LEMMA RemoveAtFacts ==
  ASSUME NEW X, NEW s \in Seq(X), NEW p \in 1 .. Len(s)
  PROVE  /\ RemoveAt(s, p) \in Seq(X) /\ Len(RemoveAt(s, p)) = Len(s) - 1
         /\ \A i \in 1 .. Len(s) - 1 :
              RemoveAt(s, p)[i] = IF i < p THEN s[i] ELSE s[i + 1]
<1> DEFINE u == SubSeq(s, 1, p - 1)
           v == SubSeq(s, p + 1, Len(s))
<1>1. /\ u \in Seq(X) /\ Len(u) = p - 1 /\ \A i \in 1 .. p - 1 : u[i] = s[i]
  OBVIOUS
<1>2. /\ v \in Seq(X) /\ Len(v) = Len(s) - p
      /\ \A i \in 1 .. Len(s) - p : v[i] = s[p + i]
  OBVIOUS
<1>3. RemoveAt(s, p) = u \o v
  BY DEF RemoveAt
<1> HIDE DEF u, v
<1>4. /\ u \o v \in Seq(X) /\ Len(u \o v) = Len(u) + Len(v)
      /\ \A i \in 1 .. Len(u) + Len(v) :
           (u \o v)[i] = IF i <= Len(u) THEN u[i] ELSE v[i - Len(u)]
  BY <1>1, <1>2, ConcatProperties
<1>5. ASSUME NEW i \in 1 .. Len(s) - 1
      PROVE  (u \o v)[i] = IF i < p THEN s[i] ELSE s[i + 1]
  <2>1. CASE i < p
    BY <2>1, <1>1, <1>2, <1>4
  <2>2. CASE i >= p
    <3>1. i - (p - 1) \in 1 .. Len(s) - p /\ p + (i - (p - 1)) = i + 1
      BY <2>2
    <3>2. (u \o v)[i] = v[i - (p - 1)]
      BY <2>2, <1>1, <1>2, <1>4
    <3>3. v[i - (p - 1)] = s[i + 1]
      BY <3>1, <1>2
    <3> QED
      BY <3>2, <3>3, <2>2
  <2>3. i < p \/ i >= p
    OBVIOUS
  <2> QED
    BY <2>1, <2>2, <2>3, Zenon
<1> QED
  BY <1>1, <1>2, <1>3, <1>4, <1>5

\* The first element in S of a sequence, as SelectInSeq() finds it.
LEMMA FirstIndex ==
  ASSUME NEW n \in Nat, NEW I \in SUBSET (1 .. n), I # {}
  PROVE  Min(I) \in I /\ \A i \in I : Min(I) <= i
<1>1. I \in SUBSET Nat
  OBVIOUS
<1>2. \E x \in I : \A y \in I : x <= y
  BY <1>1, Smallest
<1> QED
  BY <1>2 DEF Min

-----------------------------------------------------------------------------
\* Sequences without repetition.
Distinct(s) == \A i, j \in 1 .. Len(s) : s[i] = s[j] => i = j

LEMMA InsertAtSet ==
  ASSUME NEW X, NEW s \in Seq(X), NEW e \in X, NEW p \in 1 .. Len(s) + 1
  PROVE  /\ ToSet(InsertAt(s, p, e)) = ToSet(s) \union {e}
         /\ Distinct(s) /\ e \notin ToSet(s) => Distinct(InsertAt(s, p, e))
<1> DEFINE r == InsertAt(s, p, e)
<1>1. /\ r \in Seq(X) /\ Len(r) = Len(s) + 1 /\ Len(s) \in Nat
      /\ \A i \in 1 .. Len(s) + 1 : r[i] = IF i < p THEN s[i] ELSE IF i = p THEN e ELSE s[i - 1]
  BY InsertAtFacts
<1> HIDE DEF r
<1>2. ASSUME NEW x \in ToSet(r)
      PROVE  x \in ToSet(s) \union {e}
  <2>1. PICK i \in 1 .. Len(s) + 1 : x = r[i]
    BY <1>1 DEF ToSet
  <2>2. \/ i < p /\ i \in 1 .. Len(s)
        \/ i = p
        \/ i > p /\ i - 1 \in 1 .. Len(s)
    BY <1>1
  <2> QED
    BY <1>1, <2>1, <2>2 DEF ToSet
<1>3. ASSUME NEW x \in ToSet(s)
      PROVE  x \in ToSet(r)
  <2>1. PICK i \in 1 .. Len(s) : x = s[i]
    BY DEF ToSet
  <2>2. CASE i < p
    <3>1. i \in DOMAIN r /\ r[i] = x
      BY <1>1, <2>1, <2>2
    <3> QED
      BY <3>1, Zenon DEF ToSet
  <2>3. CASE i >= p
    <3>1. i + 1 \in DOMAIN r /\ r[i + 1] = x
      <4>1. i + 1 \in 1 .. Len(s) + 1 /\ ~(i + 1 < p) /\ i + 1 # p /\ (i + 1) - 1 = i
        BY <1>1, <2>3
      <4> QED
        BY <1>1, <2>1, <4>1
    <3> QED
      BY <3>1, Zenon DEF ToSet
  <2> QED
    BY <2>2, <2>3
<1>4. e \in ToSet(r)
  <2>1. p \in 1 .. Len(r) /\ r[p] = e
    BY <1>1
  <2> QED
    BY <1>1, <2>1 DEF ToSet
<1>5. ASSUME Distinct(s), e \notin ToSet(s)
      PROVE  Distinct(r)
  <2>1. SUFFICES ASSUME NEW i \in 1 .. Len(s) + 1, NEW j \in 1 .. Len(s) + 1, i < j
                 PROVE  r[i] # r[j]
    BY <1>1 DEF Distinct
  <2>2. \A k \in 1 .. Len(s) : s[k] # e
    BY <1>5 DEF ToSet
  <2>3. /\ i < p => i \in 1 .. Len(s) /\ r[i] = s[i]
        /\ i = p => r[i] = e
        /\ i > p => i - 1 \in 1 .. Len(s) /\ r[i] = s[i - 1]
    BY <1>1
  <2>4. /\ j < p => j \in 1 .. Len(s) /\ r[j] = s[j]
        /\ j = p => r[j] = e
        /\ j > p => j - 1 \in 1 .. Len(s) /\ r[j] = s[j - 1]
    BY <1>1
  <2>5. \A k, l \in 1 .. Len(s) : k # l => s[k] # s[l]
    BY <1>5 DEF Distinct
  <2> QED
    BY <2>1, <2>2, <2>3, <2>4, <2>5
<1> QED
  BY <1>2, <1>3, <1>4, <1>5 DEF r

LEMMA RemoveAtSet ==
  ASSUME NEW X, NEW s \in Seq(X), NEW p \in 1 .. Len(s)
  PROVE  /\ ToSet(s) = ToSet(RemoveAt(s, p)) \union {s[p]}
         /\ Distinct(s) => Distinct(RemoveAt(s, p)) /\ s[p] \notin ToSet(RemoveAt(s, p))
<1> DEFINE r == RemoveAt(s, p)
<1>1. /\ r \in Seq(X) /\ Len(r) = Len(s) - 1 /\ Len(s) \in Nat
      /\ \A i \in 1 .. Len(s) - 1 : r[i] = IF i < p THEN s[i] ELSE s[i + 1]
  BY RemoveAtFacts
<1> HIDE DEF r
<1>2. ASSUME NEW x \in ToSet(r)
      PROVE  x \in ToSet(s)
  <2>1. PICK i \in 1 .. Len(s) - 1 : x = r[i]
    BY <1>1 DEF ToSet
  <2>2. i \in 1 .. Len(s) /\ i + 1 \in 1 .. Len(s)
    BY <1>1
  <2> QED
    BY <1>1, <2>1, <2>2 DEF ToSet
<1>3. ASSUME NEW x \in ToSet(s)
      PROVE  x \in ToSet(r) \union {s[p]}
  <2>1. PICK i \in 1 .. Len(s) : x = s[i]
    BY DEF ToSet
  <2>2. CASE i < p
    <3>1. i \in 1 .. Len(r) /\ r[i] = x
      BY <1>1, <2>1, <2>2
    <3> QED
      BY <1>1, <3>1 DEF ToSet
  <2>3. CASE i > p
    <3>1. i - 1 \in 1 .. Len(r) /\ r[i - 1] = x
      BY <1>1, <2>1, <2>3
    <3> QED
      BY <1>1, <3>1 DEF ToSet
  <2> QED
    BY <2>1, <2>2, <2>3
<1>4. s[p] \in ToSet(s)
  BY DEF ToSet
<1>5. ASSUME Distinct(s)
      PROVE  Distinct(r) /\ s[p] \notin ToSet(r)
  <2>1. \A k, l \in 1 .. Len(s) : k # l => s[k] # s[l]
    BY <1>5 DEF Distinct
  <2>2. \A i \in 1 .. Len(s) - 1 :
          /\ i < p => i \in 1 .. Len(s) /\ r[i] = s[i]
          /\ i >= p => i + 1 \in 1 .. Len(s) /\ r[i] = s[i + 1]
    BY <1>1
  <2>3. ASSUME NEW i \in 1 .. Len(s) - 1, NEW j \in 1 .. Len(s) - 1, i < j
        PROVE  r[i] # r[j]
    BY <2>1, <2>2, <2>3
  <2>4. ASSUME NEW i \in 1 .. Len(s) - 1
        PROVE  r[i] # s[p]
    BY <2>1, <2>2
  <2> QED
    BY <1>1, <2>3, <2>4 DEF Distinct, ToSet
<1> QED
  BY <1>2, <1>3, <1>4, <1>5 DEF r

LEMMA HeadTailSet ==
  ASSUME NEW X, NEW s \in Seq(X), s # <<>>
  PROVE  /\ Head(s) \in X /\ Tail(s) \in Seq(X) /\ Len(Tail(s)) = Len(s) - 1
         /\ Len(s) \in Nat \ {0} /\ Head(s) = s[1]
         /\ ToSet(s) = {Head(s)} \union ToSet(Tail(s))
         /\ Distinct(s) => Distinct(Tail(s)) /\ Head(s) \notin ToSet(Tail(s))
<1> DEFINE r == Tail(s)
<1>1. /\ Head(s) \in X /\ r \in Seq(X) /\ Len(r) = Len(s) - 1
      /\ Len(s) \in Nat \ {0} /\ Head(s) = s[1]
      /\ \A i \in 1 .. Len(s) - 1 : r[i] = s[i + 1]
  OBVIOUS
<1> HIDE DEF r
<1>2. ASSUME NEW x \in ToSet(s)
      PROVE  x \in {Head(s)} \union ToSet(r)
  <2>1. PICK i \in 1 .. Len(s) : x = s[i]
    BY DEF ToSet
  <2>2. CASE i > 1
    <3>1. i - 1 \in 1 .. Len(r) /\ r[i - 1] = x
      BY <1>1, <2>1, <2>2
    <3> QED
      BY <1>1, <3>1 DEF ToSet
  <2> QED
    BY <1>1, <2>1, <2>2
<1>3. ASSUME NEW x \in ToSet(r)
      PROVE  x \in ToSet(s)
  <2>1. PICK i \in 1 .. Len(s) - 1 : x = r[i]
    BY <1>1 DEF ToSet
  <2>2. i + 1 \in 1 .. Len(s) /\ s[i + 1] = x
    BY <1>1, <2>1
  <2> QED
    BY <2>2 DEF ToSet
<1>4. Head(s) \in ToSet(s)
  BY <1>1 DEF ToSet
<1>5. ASSUME Distinct(s)
      PROVE  Distinct(r) /\ Head(s) \notin ToSet(r)
  <2>1. \A k, l \in 1 .. Len(s) : k # l => s[k] # s[l]
    BY <1>5 DEF Distinct
  <2>2. ASSUME NEW i \in 1 .. Len(s) - 1, NEW j \in 1 .. Len(s) - 1, i < j
        PROVE  r[i] # r[j]
    BY <1>1, <2>1, <2>2
  <2>3. ASSUME NEW i \in 1 .. Len(s) - 1
        PROVE  r[i] # s[1]
    BY <1>1, <2>1
  <2> QED
    BY <1>1, <2>2, <2>3 DEF Distinct, ToSet
<1> QED
  BY <1>1, <1>2, <1>3, <1>4, <1>5 DEF r

LEMMA ConcatDistinct ==
  ASSUME NEW X, NEW s \in Seq(X), NEW t \in Seq(X),
         Distinct(s), Distinct(t), ToSet(s) \intersect ToSet(t) = {}
  PROVE  Distinct(s \o t)
<1>1. /\ s \o t \in Seq(X) /\ Len(s \o t) = Len(s) + Len(t)
      /\ \A i \in 1 .. Len(s) + Len(t) :
           (s \o t)[i] = IF i <= Len(s) THEN s[i] ELSE t[i - Len(s)]
  BY ConcatProperties
<1> DEFINE r == s \o t
<1>2. \A i \in 1 .. Len(s) + Len(t) :
        /\ i <= Len(s) => i \in 1 .. Len(s) /\ r[i] = s[i]
        /\ i > Len(s) => i - Len(s) \in 1 .. Len(t) /\ r[i] = t[i - Len(s)]
  BY <1>1
<1>3. Len(r) = Len(s) + Len(t)
  BY <1>1
<1> HIDE DEF r
<1>4. \A i \in 1 .. Len(s), j \in 1 .. Len(t) : s[i] # t[j]
  BY DEF ToSet
<1>5. /\ \A k, l \in 1 .. Len(s) : k # l => s[k] # s[l]
      /\ \A k, l \in 1 .. Len(t) : k # l => t[k] # t[l]
  BY DEF Distinct
<1>6. ASSUME NEW i \in 1 .. Len(s) + Len(t), NEW j \in 1 .. Len(s) + Len(t), i < j
      PROVE  r[i] # r[j]
  <2>1. CASE j <= Len(s)
    BY <2>1, <1>2, <1>5, <1>6
  <2>2. CASE i <= Len(s) /\ j > Len(s)
    BY <2>2, <1>2, <1>4, <1>6
  <2>3. CASE i > Len(s)
    <3>1. i - Len(s) # j - Len(s)
      BY <1>6
    <3> QED
      BY <2>3, <3>1, <1>2, <1>5, <1>6
  <2> QED
    BY <2>1, <2>2, <2>3
<1>7. Distinct(r)
  BY <1>3, <1>6 DEF Distinct
<1> QED
  BY <1>7 DEF r

LEMMA ReverseDistinct ==
  ASSUME NEW X, NEW s \in Seq(X), Distinct(s)
  PROVE  Distinct(Reverse(s))
<1>1. /\ Len(Reverse(s)) = Len(s) /\ Len(s) \in Nat
      /\ \A i \in 1 .. Len(s) : Reverse(s)[i] = s[(Len(s) - i) + 1]
  BY ReverseFacts
<1>2. \A k, l \in 1 .. Len(s) : k # l => s[k] # s[l]
  BY DEF Distinct
<1>3. ASSUME NEW i \in 1 .. Len(s), NEW j \in 1 .. Len(s), i # j
      PROVE  Reverse(s)[i] # Reverse(s)[j]
  <2>1. /\ (Len(s) - i) + 1 \in 1 .. Len(s) /\ (Len(s) - j) + 1 \in 1 .. Len(s)
        /\ (Len(s) - i) + 1 # (Len(s) - j) + 1
    BY <1>1, <1>3
  <2> QED
    BY <2>1, <1>1, <1>2
<1> QED
  BY <1>1, <1>3 DEF Distinct

LEMMA KeptDistinct ==
  ASSUME NEW X, NEW s \in Seq(X), NEW S, Distinct(s)
  PROVE  Distinct(Kept(s, S))
<1>1. InOrder(Kept(s, S), s)
  BY KeptInOrder
<1>2. Kept(s, S) \in Seq(X)
  BY KeptType
<1>3. ASSUME NEW a \in 1 .. Len(Kept(s, S)), NEW c \in 1 .. Len(Kept(s, S)), a < c
      PROVE  Kept(s, S)[a] # Kept(s, S)[c]
  BY <1>1, <1>3 DEF InOrder, Distinct
<1> QED
  BY <1>2, <1>3 DEF Distinct

-----------------------------------------------------------------------------
\* Sequences used as stacks.
LEMMA ReplaceLast ==
  ASSUME NEW X, NEW s \in Seq(X), s # <<>>, NEW e \in X
  PROVE  [s EXCEPT ![Len(s)] = e] = Append(Front(s), e)
<1>1. /\ Front(s) \in Seq(X) /\ Len(s) \in Nat \ {0} /\ Len(Front(s)) = Len(s) - 1
      /\ \A i \in 1 .. Len(s) - 1 : Front(s)[i] = s[i]
  BY FrontLast
<1>2. /\ [s EXCEPT ![Len(s)] = e] \in Seq(X) /\ Len([s EXCEPT ![Len(s)] = e]) = Len(s)
      /\ Append(Front(s), e) \in Seq(X) /\ Len(Append(Front(s), e)) = Len(s)
  BY <1>1
<1>3. ASSUME NEW i \in 1 .. Len(s)
      PROVE  [s EXCEPT ![Len(s)] = e][i] = Append(Front(s), e)[i]
  BY <1>1
<1> QED
  BY <1>2, <1>3, SeqEqual

LEMMA ReverseAppend ==
  ASSUME NEW X, NEW s \in Seq(X), NEW e \in X
  PROVE  Reverse(Append(s, e)) = <<e>> \o Reverse(s)
<1> DEFINE t == Append(s, e)
           r == <<e>> \o Reverse(s)
<1>1. t \in Seq(X) /\ Len(t) = Len(s) + 1 /\ Len(s) \in Nat /\ t[Len(s) + 1] = e
      /\ \A i \in 1 .. Len(s) : t[i] = s[i]
  OBVIOUS
<1>2. /\ Reverse(s) \in Seq(X) /\ Len(Reverse(s)) = Len(s)
      /\ \A i \in 1 .. Len(s) : Reverse(s)[i] = s[(Len(s) - i) + 1]
  BY ReverseFacts
<1>3. /\ r \in Seq(X) /\ Len(r) = Len(s) + 1 /\ r[1] = e
      /\ \A i \in 2 .. Len(s) + 1 : r[i] = Reverse(s)[i - 1]
  BY <1>2
<1>4. /\ Reverse(t) \in Seq(X) /\ Len(Reverse(t)) = Len(s) + 1
      /\ \A i \in 1 .. Len(s) + 1 : Reverse(t)[i] = t[((Len(s) + 1) - i) + 1]
  <2> HIDE DEF r, t
  <2>1. /\ Reverse(t) \in Seq(X) /\ Len(Reverse(t)) = Len(t)
        /\ \A i \in 1 .. Len(t) : Reverse(t)[i] = t[(Len(t) - i) + 1]
    BY <1>1, ReverseFacts
  <2> QED
    BY <2>1, <1>1, Zenon
<1> HIDE DEF r, t
<1>5. ASSUME NEW i \in 1 .. Len(s) + 1
      PROVE  Reverse(t)[i] = r[i]
  <2>1. CASE i = 1
    <3>1. ((Len(s) + 1) - i) + 1 = Len(s) + 1
      BY <1>1, <2>1
    <3> QED
      BY <3>1, <2>1, <1>1, <1>3, <1>4
  <2>2. CASE i # 1
    <3>1. /\ i \in 2 .. Len(s) + 1 /\ i - 1 \in 1 .. Len(s)
          /\ ((Len(s) + 1) - i) + 1 \in 1 .. Len(s)
          /\ ((Len(s) + 1) - i) + 1 = (Len(s) - (i - 1)) + 1
      BY <1>1, <2>2
    <3>2. r[i] = s[(Len(s) - (i - 1)) + 1]
      BY <3>1, <1>2, <1>3
    <3>3. Reverse(t)[i] = s[((Len(s) + 1) - i) + 1]
      BY <3>1, <1>1, <1>4
    <3> QED
      BY <3>1, <3>2, <3>3
  <2> QED
    BY <2>1, <2>2
<1>6. Reverse(t) = r
  BY <1>3, <1>4, <1>5, SeqEqual
<1> QED
  BY <1>6 DEF r, t

\* A function on 1 .. n is a sequence.
LEMMA FunctionIsSeq ==
  ASSUME NEW X, NEW n \in Nat, NEW f, DOMAIN f = 1 .. n, f = [i \in DOMAIN f |-> f[i]],
         \A i \in 1 .. n : f[i] \in X
  PROVE  f \in Seq(X) /\ Len(f) = n
<1>1. f \in [1 .. n -> X]
  OBVIOUS
<1> QED
  BY <1>1

\* An element put in front.
LEMMA PushFacts ==
  ASSUME NEW X, NEW s \in Seq(X), NEW e \in X
  PROVE  /\ <<e>> \o s \in Seq(X) /\ Len(<<e>> \o s) = Len(s) + 1
         /\ ToSet(<<e>> \o s) = ToSet(s) \union {e}
         /\ Distinct(s) /\ e \notin ToSet(s) => Distinct(<<e>> \o s)
<1> DEFINE u == <<e>>
<1>1. u \in Seq(X) /\ Len(u) = 1 /\ ToSet(u) = {e} /\ Distinct(u)
  BY DEF ToSet, Distinct
<1>2. u \o s \in Seq(X) /\ Len(u \o s) = Len(s) + 1
  OBVIOUS
<1> HIDE DEF u
<1>3. ToSet(u \o s) = ToSet(u) \union ToSet(s)
  BY <1>1, ToSetConcat
<1>4. Distinct(s) /\ e \notin ToSet(s) => Distinct(u \o s)
  BY <1>1, ConcatDistinct
<1> QED
  BY <1>1, <1>2, <1>3, <1>4 DEF u

\* When nothing was left out, nothing changed.
LEMMA KeptAll ==
  ASSUME NEW X, NEW S
  PROVE  \A s \in Seq(X) : Len(Kept(s, S)) = Len(s) => Kept(s, S) = s
<1> DEFINE T == {s \in Seq(X) : Len(Kept(s, S)) = Len(s) => Kept(s, S) = s}
<1>1. <<>> \in T
  <2>1. Kept(<<>>, S) = <<>>
    BY KeptNone
  <2>2. <<>> \in Seq(X)
    OBVIOUS
  <2> QED
    BY <2>1, <2>2, Zenon
<1>2. ASSUME NEW s \in Seq(X), NEW e \in X, s \in T
      PROVE  Append(s, e) \in T
  <2>1. SUFFICES ASSUME Len(Kept(Append(s, e), S)) = Len(s) + 1
                 PROVE  Kept(Append(s, e), S) = Append(s, e)
    OBVIOUS
  <2>2. Kept(s, S) \in Seq(X) /\ Len(Kept(s, S)) <= Len(s) /\ Len(Kept(s, S)) \in Nat
    BY KeptType, KeptInOrder
  <2>3. CASE e \in S
    <3>1. Kept(Append(s, e), S) = Append(Kept(s, S), e)
      BY <2>3, KeptAppend
    <3>2. Len(Kept(s, S)) = Len(s)
      BY <2>1, <2>2, <3>1
    <3> QED
      BY <1>2, <3>1, <3>2
  <2>4. CASE e \notin S
    <3>1. Kept(Append(s, e), S) = Kept(s, S)
      BY <2>4, KeptAppend
    <3> QED
      BY <2>1, <2>2, <3>1
  <2> QED
    BY <2>3, <2>4
<1> HIDE DEF T
<1>3. Seq(X) \subseteq T
  BY <1>1, <1>2, SeqInduct
<1> QED
  BY <1>3 DEF T

\* What holds of a sequence that is kept holds of its elements.
LEMMA KeptIn ==
  ASSUME NEW X, NEW S, NEW s \in Seq(X)
  PROVE  Kept(s, S) \in Seq(X) /\ Kept(s, S) \in Seq(S)
<1>1. Kept(s, S) \in Seq(X) /\ ToSet(Kept(s, S)) = ToSet(s) \intersect S
  BY KeptType, KeptSet
<1> DEFINE k == Kept(s, S)
<1> HIDE DEF k
<1>2. k \in Seq(X) /\ \A i \in 1 .. Len(k) : k[i] \in S
  BY <1>1 DEF ToSet, k
<1> QED
  BY <1>2 DEF k
-----------------------------------------------------------------------------
\* Lists linked by pointers.  Follow() is the only solution of its recursion.
IsWalk(f, next, p, n) ==
  f = [i \in 1 .. n |-> IF i = 1 THEN p ELSE IF f[i - 1] = 0 THEN 0 ELSE next[f[i - 1]]]

LEMMA FollowIs ==
  ASSUME NEW next, NEW p, NEW n \in Nat, NEW f, IsWalk(f, next, p, n)
  PROVE  Follow(next, p, n) = f
<1> DEFINE g == CHOOSE h : IsWalk(h, next, p, n)
<1>1. Follow(next, p, n) = g
  BY DEF Follow, IsWalk
<1>2. IsWalk(g, next, p, n)
  BY Zenon
<1> HIDE DEF g
<1> DEFINE T == {j \in Nat : j + 1 <= n => f[j + 1] = g[j + 1]}
<1>3. 0 \in T
  BY <1>2 DEF IsWalk
<1>4. ASSUME NEW j \in Nat, j \in T
      PROVE  j + 1 \in T
  <2> SUFFICES ASSUME (j + 1) + 1 <= n
               PROVE  f[(j + 1) + 1] = g[(j + 1) + 1]
    OBVIOUS
  <2> DEFINE k == (j + 1) + 1
  <2>1. f[j + 1] = g[j + 1]
    BY <1>4
  <2>2. k \in 1 .. n /\ k # 1 /\ k - 1 = j + 1
    OBVIOUS
  <2> HIDE DEF k
  <2>3. f[k] = IF f[k - 1] = 0 THEN 0 ELSE next[f[k - 1]]
    BY <2>2 DEF IsWalk
  <2>4. g[k] = IF g[k - 1] = 0 THEN 0 ELSE next[g[k - 1]]
    BY <1>2, <2>2 DEF IsWalk
  <2> QED
    BY <2>1, <2>2, <2>3, <2>4 DEF k
<1>5. Nat \subseteq T
  BY <1>3, <1>4, NatInduct
<1>6. ASSUME NEW i \in 1 .. n
      PROVE  f[i] = g[i]
  <2>1. i - 1 \in Nat /\ (i - 1) + 1 = i /\ i <= n
    OBVIOUS
  <2> QED
    BY <1>5, <2>1
<1>7. f = [i \in 1 .. n |-> f[i]] /\ g = [i \in 1 .. n |-> g[i]]
  BY <1>2 DEF IsWalk
<1> QED
  BY <1>1, <1>6, <1>7

\* s is the list that starts at the pointer p: each entry points to the next one,
\* the last one to the list at the pointer q.
Chain(next, s, p, q) ==
  /\ p = IF s = <<>> THEN q ELSE s[1]
  /\ \A i \in 1 .. Len(s) : next[s[i]] = IF i = Len(s) THEN q ELSE s[i + 1]

LEMMA ChainWalk ==
  ASSUME NEW X, NEW s \in Seq(X), 0 \notin X, NEW next, NEW p, Chain(next, s, p, 0),
         NEW n \in Nat, Len(s) <= n
  PROVE  Follow(next, p, n) = [i \in 1 .. n |-> IF i <= Len(s) THEN s[i] ELSE 0]
<1> DEFINE m == Len(s)
           f == [i \in 1 .. n |-> IF i <= m THEN s[i] ELSE 0]
<1>1. m \in Nat /\ m <= n /\ (s = <<>> <=> m = 0) /\ \A i \in 1 .. m : s[i] \in X /\ s[i] # 0
  OBVIOUS
<1>2. /\ p = IF m = 0 THEN 0 ELSE s[1]
      /\ \A i \in 1 .. m : next[s[i]] = IF i = m THEN 0 ELSE s[i + 1]
  BY <1>1 DEF Chain
<1> HIDE DEF m
<1>3. ASSUME NEW i \in 1 .. n
      PROVE  f[i] = IF i = 1 THEN p ELSE IF f[i - 1] = 0 THEN 0 ELSE next[f[i - 1]]
  <2>1. CASE i = 1
    BY <1>1, <1>2, <2>1
  <2>2. CASE i # 1
    <3>1. i - 1 \in 1 .. n /\ (i - 1) + 1 = i
      BY <2>2
    <3>2. CASE i - 1 <= m
      <4>1. i - 1 \in 1 .. m /\ f[i - 1] = s[i - 1] /\ f[i - 1] # 0
        BY <1>1, <3>1, <3>2
      <4>2. next[s[i - 1]] = IF i - 1 = m THEN 0 ELSE s[i]
        BY <1>2, <3>1, <4>1
      <4> QED
        BY <1>1, <2>2, <3>1, <3>2, <4>1, <4>2
    <3>3. CASE ~(i - 1 <= m)
      BY <1>1, <2>2, <3>1, <3>3
    <3> QED
      BY <3>2, <3>3
  <2> QED
    BY <2>1, <2>2
<1>4. IsWalk(f, next, p, n)
  BY <1>3 DEF IsWalk
<1> HIDE DEF f
<1>5. Follow(next, p, n) = f
  BY <1>4, FollowIs
<1> QED
  BY <1>5 DEF f, m

\* A sequence with null pointers behind it.
LEMMA KeptPadded ==
  ASSUME NEW X, NEW s \in Seq(X), 0 \notin X, NEW n \in Nat, Len(s) <= n
  PROVE  Kept([i \in 1 .. n |-> IF i <= Len(s) THEN s[i] ELSE 0], X) = s
<1> DEFINE m == Len(s)
           f == [i \in 1 .. n |-> IF i <= m THEN s[i] ELSE 0]
           g == [i \in 0 .. n |-> IF i <= m THEN SubSeq(s, 1, i) ELSE s]
<1>1. m \in Nat /\ m <= n /\ s = SubSeq(s, 1, m) /\ SubSeq(s, 1, 0) = <<>>
  OBVIOUS
<1>2. f \in Seq(X \union {0}) /\ Len(f) = n
  <2>1. \A i \in 1 .. n : f[i] \in X \union {0}
    OBVIOUS
  <2> QED
    BY <2>1
<1>3. ASSUME NEW i \in 0 .. n
      PROVE  g[i] = IF i = 0 THEN <<>>
                    ELSE IF f[i] \in X THEN Append(g[i - 1], f[i]) ELSE g[i - 1]
  <2>1. CASE i = 0
    BY <1>1, <2>1
  <2>2. CASE i \in 1 .. m
    <3>1. i - 1 \in 0 .. n /\ i - 1 <= m /\ i \in 1 .. n /\ f[i] = s[i] /\ s[i] \in X
      BY <1>1, <2>2
    <3>2. SubSeq(s, 1, i) = Append(SubSeq(s, 1, i - 1), s[i])
      <4>1. /\ SubSeq(s, 1, i) \in Seq(X) /\ Len(SubSeq(s, 1, i)) = i
            /\ \A k \in 1 .. i : SubSeq(s, 1, i)[k] = s[k]
        BY <1>1, <2>2
      <4>2. /\ SubSeq(s, 1, i - 1) \in Seq(X) /\ Len(SubSeq(s, 1, i - 1)) = i - 1
            /\ \A k \in 1 .. i - 1 : SubSeq(s, 1, i - 1)[k] = s[k]
        BY <1>1, <2>2
      <4> QED
        BY <2>2, <3>1, <4>1, <4>2
    <3> QED
      BY <1>1, <2>2, <3>1, <3>2
  <2>3. CASE ~(i <= m)
    <3>1. i - 1 \in 0 .. n /\ i \in 1 .. n /\ f[i] = 0 /\ i # 0
      BY <1>1, <2>3
    <3>2. g[i - 1] = s
      BY <1>1, <2>3, <3>1
    <3> QED
      BY <1>1, <2>3, <3>1, <3>2
  <2> QED
    BY <1>1, <2>1, <2>2, <2>3
<1>4. IsFilter(g, f, X, n)
  BY <1>3 DEF IsFilter
<1>5. g[n] = s
  <2>1. n \in 0 .. n /\ (n <= m => n = m)
    <3> HIDE DEF m, f, g
    <3> QED
      BY <1>1
  <2>2. g[n] = IF n <= m THEN SubSeq(s, 1, n) ELSE s
    BY <2>1
  <2> QED
    BY <1>1, <2>1, <2>2
<1> HIDE DEF f, g
<1>6. PICK h : IsFilter(h, f, X, n) /\ Kept(f, X) = h[n]
  BY <1>2, KeptIsFilter
<1>7. h[n] = g[n]
  BY <1>4, <1>6, FilterUnique
<1> QED
  BY <1>5, <1>6, <1>7 DEF f, m

\* A loop meets the entries of a list.
LEMMA ChainList ==
  ASSUME NEW X, NEW s \in Seq(X), 0 \notin X, NEW next, NEW p, Chain(next, s, p, 0),
         NEW n \in Nat, Len(s) <= n
  PROVE  Kept(Follow(next, p, n), X) = s
  BY ChainWalk, KeptPadded

LEMMA KeptConcat ==
  ASSUME NEW X, NEW S, NEW s \in Seq(X)
  PROVE  \A t \in Seq(X) : Kept(s \o t, S) = Kept(s, S) \o Kept(t, S)
<1> DEFINE T == {t \in Seq(X) : Kept(s \o t, S) = Kept(s, S) \o Kept(t, S)}
<1>0. Kept(s, S) \in Seq(X)
  BY KeptType
<1>1. <<>> \in T
  <2>1. Kept(<<>>, S) = <<>>
    BY KeptNone
  <2> QED
    BY <1>0, <2>1
<1>2. ASSUME NEW t \in Seq(X), NEW e \in X, t \in T
      PROVE  Append(t, e) \in T
  <2>1. Kept(t, S) \in Seq(X) /\ s \o t \in Seq(X) /\ Append(t, e) \in Seq(X)
    BY KeptType
  <2>2. s \o Append(t, e) = Append(s \o t, e)
    OBVIOUS
  <2>3. Kept(s \o t, S) = Kept(s, S) \o Kept(t, S)
    BY <1>2
  <2>4. CASE e \in S
    <3>1. Kept(Append(t, e), S) = Append(Kept(t, S), e)
      BY <2>4, KeptAppend
    <3>3. Kept(Append(s \o t, e), S) = Append(Kept(s \o t, S), e)
      BY <2>1, <2>4, KeptAppend
    <3>2. Kept(s, S) \o Append(Kept(t, S), e) = Append(Kept(s, S) \o Kept(t, S), e)
      BY <1>0, <2>1
    <3> QED
      BY <2>1, <2>2, <2>3, <3>1, <3>2, <3>3
  <2>5. CASE e \notin S
    <3>1. Kept(Append(t, e), S) = Kept(t, S) /\ Kept(Append(s \o t, e), S) = Kept(s \o t, S)
      BY <2>1, <2>5, KeptAppend
    <3> QED
      BY <2>1, <2>2, <2>3, <3>1
  <2> QED
    BY <2>4, <2>5
<1> HIDE DEF T
<1>3. Seq(X) \subseteq T
  BY <1>1, <1>2, SeqInduct
<1> QED
  BY <1>3 DEF T

\* Lists that are changed.
LEMMA ChainElsewhere ==
  ASSUME NEW X, NEW s \in Seq(X), NEW next, NEW other, NEW p, NEW q, Chain(next, s, p, q),
         \A x \in ToSet(s) : other[x] = next[x]
  PROVE  Chain(other, s, p, q)
<1>1. \A i \in 1 .. Len(s) : s[i] \in ToSet(s)
  BY DEF ToSet
<1> QED
  BY <1>1 DEF Chain

LEMMA ChainConcat ==
  ASSUME NEW X, NEW s \in Seq(X), NEW t \in Seq(X), NEW next, NEW p, NEW q, NEW r,
         Chain(next, s, p, r), Chain(next, t, r, q)
  PROVE  Chain(next, s \o t, p, q)
<1> DEFINE u == s \o t
           m == Len(s)
           n == Len(t)
<1>1. /\ u \in Seq(X) /\ Len(u) = m + n /\ m \in Nat /\ n \in Nat
      /\ \A i \in 1 .. m + n : u[i] = IF i <= m THEN s[i] ELSE t[i - m]
  BY ConcatProperties
<1>2. (s = <<>> <=> m = 0) /\ (t = <<>> <=> n = 0) /\ (u = <<>> <=> m + n = 0)
  BY <1>1
<1>3. /\ p = IF m = 0 THEN r ELSE s[1]
      /\ \A i \in 1 .. m : next[s[i]] = IF i = m THEN r ELSE s[i + 1]
      /\ r = IF n = 0 THEN q ELSE t[1]
      /\ \A i \in 1 .. n : next[t[i]] = IF i = n THEN q ELSE t[i + 1]
  BY <1>2 DEF Chain
<1> HIDE DEF u, m, n
<1>4. p = IF m + n = 0 THEN q ELSE u[1]
  <2>1. CASE m = 0
    <3>1. n # 0 => u[1] = t[1]
      BY <1>1, <2>1
    <3> QED
      BY <1>1, <1>3, <2>1, <3>1
  <2>2. CASE m # 0
    <3>1. u[1] = s[1] /\ m + n # 0
      BY <1>1, <2>2
    <3> QED
      BY <1>3, <2>2, <3>1
  <2> QED
    BY <2>1, <2>2
<1>5. ASSUME NEW i \in 1 .. m + n
      PROVE  next[u[i]] = IF i = m + n THEN q ELSE u[i + 1]
  <2>1. CASE i < m
    <3>1. i \in 1 .. m /\ i + 1 \in 1 .. m + n /\ i + 1 <= m /\ i # m /\ i # m + n /\ i <= m
      BY <1>1, <2>1
    <3>2. u[i] = s[i] /\ u[i + 1] = s[i + 1]
      BY <1>1, <3>1
    <3> QED
      BY <1>3, <3>1, <3>2
  <2>2. CASE i = m
    <3>1. u[i] = s[i] /\ next[s[i]] = r
      BY <1>1, <1>3, <2>2
    <3>2. CASE n = 0
      BY <1>1, <1>3, <2>2, <3>1, <3>2
    <3>3. CASE n # 0
      <4>1. i + 1 \in 1 .. m + n /\ ~(i + 1 <= m) /\ (i + 1) - m = 1 /\ i # m + n
        BY <1>1, <2>2, <3>3
      <4>2. u[i + 1] = t[1]
        BY <1>1, <4>1
      <4> QED
        BY <1>3, <3>1, <3>3, <4>1, <4>2
    <3> QED
      BY <3>2, <3>3
  <2>3. CASE m < i
    <3>1. /\ i - m \in 1 .. n /\ ~(i <= m) /\ ~(i + 1 <= m) /\ (i - m = n <=> i = m + n)
          /\ (i - m) + 1 = (i + 1) - m /\ (i # m + n => i + 1 \in 1 .. m + n)
      BY <1>1, <2>3
    <3>2. u[i] = t[i - m] /\ (i # m + n => u[i + 1] = t[(i - m) + 1])
      BY <1>1, <3>1
    <3> QED
      BY <1>3, <3>1, <3>2
  <2> QED
    BY <1>1, <2>1, <2>2, <2>3
<1> QED
  BY <1>1, <1>2, <1>4, <1>5 DEF Chain, u

\* The list from its j-th entry on.
LEMMA ChainSuffix ==
  ASSUME NEW X, NEW s \in Seq(X), NEW next, NEW p, NEW q, Chain(next, s, p, q),
         NEW j \in 1 .. Len(s) + 1
  PROVE  Chain(next, SubSeq(s, j, Len(s)), IF j = Len(s) + 1 THEN q ELSE s[j], q)
<1> DEFINE t == SubSeq(s, j, Len(s))
           n == Len(s)
<1>1. n \in Nat /\ j \in Int /\ 1 <= j /\ j <= n + 1
  OBVIOUS
<1>2. /\ t \in Seq(X) /\ Len(t) = n - j + 1
      /\ \A i \in 1 .. n - j + 1 : t[i] = s[j + i - 1]
  BY Part
<1>3. t = <<>> <=> j = n + 1
  <2> HIDE DEF t, n
  <2>1. t = <<>> <=> Len(t) = 0
    BY <1>2
  <2> QED
    BY <1>1, <1>2, <2>1
<1>4. \A i \in 1 .. n : next[s[i]] = IF i = n THEN q ELSE s[i + 1]
  BY DEF Chain
<1> HIDE DEF t, n
<1>5. j # n + 1 => t[1] = s[j]
  <2>1. j # n + 1 => 1 \in 1 .. n - j + 1 /\ j + 1 - 1 = j
    BY <1>1
  <2> QED
    BY <1>2, <2>1
<1>6. ASSUME NEW i \in 1 .. n - j + 1
      PROVE  next[t[i]] = IF i = n - j + 1 THEN q ELSE t[i + 1]
  <2>1. /\ j + i - 1 \in 1 .. n /\ (j + i - 1 = n <=> i = n - j + 1)
        /\ (j + i - 1) + 1 = j + (i + 1) - 1
        /\ (i # n - j + 1 => i + 1 \in 1 .. n - j + 1)
    BY <1>1
  <2> QED
    BY <1>2, <1>4, <2>1
<1> QED
  BY <1>2, <1>3, <1>5, <1>6 DEF Chain, t, n

\* An entry put in front of a list.
LEMMA ChainPush ==
  ASSUME NEW X, NEW s \in Seq(X), NEW e \in X, NEW next, NEW p, NEW q, Chain(next, s, p, q),
         next[e] = p
  PROVE  Chain(next, <<e>> \o s, e, q)
<1>1. <<e>> \in Seq(X) /\ Chain(next, <<e>>, e, p)
  BY DEF Chain
<1> QED
  BY <1>1, ChainConcat

\* The part of a sequence behind and before a place.
LEMMA Split ==
  ASSUME NEW X, NEW s \in Seq(X), NEW j \in 1 .. Len(s) + 1
  PROVE  LET a == SubSeq(s, 1, j - 1)
             c == SubSeq(s, j, Len(s))
         IN  /\ a \in Seq(X) /\ c \in Seq(X) /\ s = a \o c /\ Len(a) = j - 1
             /\ Len(c) = Len(s) - j + 1 /\ ToSet(c) = {s[i] : i \in j .. Len(s)}
<1> DEFINE a == SubSeq(s, 1, j - 1)
           c == SubSeq(s, j, Len(s))
           n == Len(s)
<1>1. n \in Nat /\ j \in Int /\ 1 <= j /\ j <= n + 1 /\ (j - 1) - 1 + 1 = j - 1
  OBVIOUS
<1>2. /\ c \in Seq(X) /\ Len(c) = n - j + 1
      /\ \A i \in 1 .. n - j + 1 : c[i] = s[j + i - 1]
  BY Part
<1>3. /\ a \in Seq(X) /\ Len(a) = j - 1
      /\ \A i \in 1 .. j - 1 : a[i] = s[1 + i - 1]
  BY <1>1, Part
<1>4. s = a \o c
  <2>1. /\ a \o c \in Seq(X) /\ Len(a \o c) = Len(a) + Len(c)
        /\ \A i \in 1 .. Len(a) + Len(c) :
             (a \o c)[i] = IF i <= Len(a) THEN a[i] ELSE c[i - Len(a)]
    BY <1>2, <1>3, ConcatProperties
  <2> DEFINE u == a \o c
  <2> HIDE DEF a, c, u
  <2>2. Len(u) = n
    BY <1>1, <1>2, <1>3, <2>1 DEF u
  <2>3. ASSUME NEW i \in 1 .. n
        PROVE  u[i] = s[i]
    <3>1. CASE i <= j - 1
      <4>1. i \in 1 .. j - 1 /\ 1 + i - 1 = i /\ i \in 1 .. Len(a) + Len(c)
        BY <1>1, <1>2, <1>3, <3>1
      <4> QED
        BY <1>3, <2>1, <3>1, <4>1 DEF u
    <3>2. CASE ~(i <= j - 1)
      <4>1. /\ i - (j - 1) \in 1 .. n - j + 1 /\ j + (i - (j - 1)) - 1 = i
            /\ i \in 1 .. Len(a) + Len(c)
        BY <1>1, <1>2, <1>3, <3>2
      <4> QED
        BY <1>2, <1>3, <2>1, <3>2, <4>1 DEF u
    <3> QED
      BY <3>1, <3>2
  <2>4. u \in Seq(X)
    BY <2>1 DEF u
  <2>5. u = s
    BY <2>2, <2>3, <2>4 DEF n
  <2> QED
    BY <2>5, Zenon DEF u
<1> HIDE DEF c
<1>5. ASSUME NEW x \in ToSet(c)
      PROVE  x \in {s[i] : i \in j .. n}
  <2>1. PICK i \in 1 .. n - j + 1 : x = c[i]
    BY <1>2 DEF ToSet
  <2>2. j + i - 1 \in j .. n /\ x = s[j + i - 1]
    BY <1>1, <1>2, <2>1
  <2> QED
    BY <2>2
<1>6. ASSUME NEW i \in j .. n
      PROVE  s[i] \in ToSet(c)
  <2>1. i - j + 1 \in 1 .. n - j + 1 /\ j + (i - j + 1) - 1 = i
    BY <1>1
  <2>2. s[i] = c[i - j + 1]
    BY <1>2, <2>1
  <2> QED
    BY <1>2, <2>1, <2>2 DEF ToSet
<1>7. ToSet(c) = {s[i] : i \in j .. n}
  BY <1>5, <1>6
<1> QED
  BY <1>2, <1>3, <1>4, <1>7 DEF c

\* The first entry taken off a list.
LEMMA ChainPop ==
  ASSUME NEW X, NEW s \in Seq(X), s # <<>>, NEW next, NEW p, NEW q, Chain(next, s, p, q)
  PROVE  p = Head(s) /\ Chain(next, Tail(s), next[p], q)
<1> DEFINE n == Len(s)
<1>1. n \in Nat \ {0} /\ Head(s) = s[1] /\ Tail(s) = SubSeq(s, 2, n) /\ 2 \in 1 .. Len(s) + 1
  OBVIOUS
<1>2. Chain(next, SubSeq(s, 2, Len(s)), IF 2 = Len(s) + 1 THEN q ELSE s[2], q)
  BY <1>1, ChainSuffix
<1>3. p = s[1] /\ \A i \in 1 .. n : next[s[i]] = IF i = n THEN q ELSE s[i + 1]
  BY DEF Chain
<1> HIDE DEF n
<1>4. 1 \in 1 .. n /\ 1 + 1 = 2 /\ (2 = n + 1 <=> 1 = n)
  BY <1>1
<1>5. next[p] = IF 2 = n + 1 THEN q ELSE s[2]
  BY <1>3, <1>4
<1> QED
  BY <1>1, <1>2, <1>3, <1>5 DEF n

LEMMA WalkExists ==
  ASSUME NEW next, NEW p, NEW n \in Nat
  PROVE  \E f : IsWalk(f, next, p, n)
<1> DEFINE T == {m \in Nat : \E f : IsWalk(f, next, p, m)}
<1>1. 0 \in T
  <2>1. IsWalk([i \in 1 .. 0 |-> 0], next, p, 0)
    BY DEF IsWalk
  <2> QED
    BY <2>1
<1>2. ASSUME NEW m \in Nat, m \in T
      PROVE  m + 1 \in T
  <2>1. PICK f : IsWalk(f, next, p, m)
    BY <1>2
  <2> DEFINE end == IF m = 0 THEN p ELSE IF f[m] = 0 THEN 0 ELSE next[f[m]]
             g == [i \in 1 .. m + 1 |-> IF i <= m THEN f[i] ELSE end]
  <2>2. ASSUME NEW i \in 1 .. m + 1
        PROVE  g[i] = IF i = 1 THEN p ELSE IF g[i - 1] = 0 THEN 0 ELSE next[g[i - 1]]
    <3>1. CASE i \in 1 .. m /\ i = 1
      BY <3>1, <2>1 DEF IsWalk
    <3>2. CASE i \in 1 .. m /\ i # 1
      <4>1. i - 1 \in 1 .. m
        BY <3>2
      <4>2. g[i] = f[i] /\ g[i - 1] = f[i - 1]
        BY <4>1, <3>2
      <4>3. f[i] = IF f[i - 1] = 0 THEN 0 ELSE next[f[i - 1]]
        BY <3>2, <2>1 DEF IsWalk
      <4> QED
        BY <4>2, <4>3, <3>2
    <3>3. CASE i = m + 1
      <4>1. g[i] = end
        BY <3>3
      <4>2. CASE m = 0
        BY <3>3, <4>1, <4>2
      <4>3. CASE m # 0
        <5>1. i # 1 /\ i - 1 = m /\ m \in 1 .. m + 1 /\ g[m] = f[m]
          BY <3>3, <4>3
        <5> QED
          BY <4>1, <4>3, <5>1
      <4> QED
        BY <4>2, <4>3
    <3> QED
      BY <3>1, <3>2, <3>3
  <2>3. IsWalk(g, next, p, m + 1)
    BY <2>2 DEF IsWalk
  <2> QED
    BY <2>3
<1>3. Nat \subseteq T
  BY <1>1, <1>2, NatInduct
<1> QED
  BY <1>3

\* A walk along a chain meets its entries, whatever is behind them.
LEMMA WalkPrefix ==
  ASSUME NEW X, NEW s \in Seq(X), 0 \notin X, NEW next, NEW p, NEW q, Chain(next, s, p, q),
         NEW n \in Nat, Len(s) <= n
  PROVE  LET f == Follow(next, p, n)
         IN  /\ DOMAIN f = 1 .. n /\ f = [i \in 1 .. n |-> f[i]]
             /\ \A i \in 1 .. Len(s) : f[i] = s[i]
<1>1. PICK f : IsWalk(f, next, p, n)
  BY WalkExists
<1>2. Follow(next, p, n) = f
  BY <1>1, FollowIs
<1>3. DOMAIN f = 1 .. n /\ f = [i \in 1 .. n |-> f[i]]
  BY <1>1 DEF IsWalk
<1> DEFINE T == {j \in Nat : j + 1 <= Len(s) => f[j + 1] = s[j + 1]}
<1>4. 0 \in T
  BY <1>1 DEF IsWalk, Chain
<1>5. ASSUME NEW j \in Nat, j \in T
      PROVE  j + 1 \in T
  <2> SUFFICES ASSUME (j + 1) + 1 <= Len(s)
               PROVE  f[(j + 1) + 1] = s[(j + 1) + 1]
    OBVIOUS
  <2> DEFINE k == (j + 1) + 1
  <2>1. f[j + 1] = s[j + 1]
    BY <1>5
  <2>2. k \in 1 .. n /\ k # 1 /\ k - 1 = j + 1 /\ k - 1 \in 1 .. Len(s) /\ k - 1 # Len(s)
    OBVIOUS
  <2>3. s[k - 1] \in X /\ s[k - 1] # 0
    BY <2>2
  <2> HIDE DEF k
  <2>4. f[k] = IF f[k - 1] = 0 THEN 0 ELSE next[f[k - 1]]
    BY <1>1, <2>2 DEF IsWalk
  <2>5. next[s[k - 1]] = s[(k - 1) + 1]
    BY <2>2 DEF Chain
  <2> QED
    BY <2>1, <2>2, <2>3, <2>4, <2>5 DEF k
<1>6. Nat \subseteq T
  BY <1>4, <1>5, NatInduct
<1>7. ASSUME NEW i \in 1 .. Len(s)
      PROVE  f[i] = s[i]
  <2>1. i - 1 \in Nat /\ (i - 1) + 1 = i
    OBVIOUS
  <2>2. i - 1 \in T
    BY <1>6, <2>1
  <2> QED
    BY <2>1, <2>2
<1> QED
  BY <1>2, <1>3, <1>7

LEMMA ChainPrefix ==
  ASSUME NEW X, NEW s \in Seq(X), NEW next, NEW p, NEW q, Chain(next, s, p, q),
         NEW j \in 1 .. Len(s) + 1
  PROVE  Chain(next, SubSeq(s, 1, j - 1), p, IF j = Len(s) + 1 THEN q ELSE s[j])
<1> DEFINE a == SubSeq(s, 1, j - 1)
           r == IF j = Len(s) + 1 THEN q ELSE s[j]
<1>1. Len(s) \in Nat
  OBVIOUS
<1>2. a \in Seq(X) /\ Len(a) = j - 1 /\ \A i \in 1 .. j - 1 : a[i] = s[i]
  BY <1>1, Part
<1> HIDE DEF a
<1>3. p = IF a = <<>> THEN r ELSE a[1]
  <2>1. CASE j = 1
    <3>1. a = <<>>
      BY <1>2, <2>1
    <3>2. p = r
      BY <1>1, <2>1 DEF Chain
    <3> QED
      BY <3>1, <3>2
  <2>2. CASE j # 1
    <3>1. a # <<>> /\ a[1] = s[1] /\ s # <<>>
      BY <1>1, <1>2, <2>2
    <3> QED
      BY <3>1 DEF Chain
  <2> QED
    BY <2>1, <2>2
<1>4. ASSUME NEW i \in 1 .. Len(a)
      PROVE  next[a[i]] = IF i = Len(a) THEN r ELSE a[i + 1]
  <2>1. i \in 1 .. Len(s) /\ a[i] = s[i] /\ next[s[i]] = IF i = Len(s) THEN q ELSE s[i + 1]
    BY <1>1, <1>2 DEF Chain
  <2>2. CASE i = Len(a)
    <3>1. i + 1 = j /\ (i = Len(s) <=> j = Len(s) + 1)
      BY <1>1, <1>2, <2>2
    <3> QED
      BY <2>1, <2>2, <3>1
  <2>3. CASE i # Len(a)
    <3>1. i # Len(s) /\ i + 1 \in 1 .. j - 1
      BY <1>1, <1>2, <2>3
    <3> QED
      BY <1>2, <2>1, <2>3, <3>1
  <2> QED
    BY <2>2, <2>3
<1> QED
  BY <1>3, <1>4 DEF Chain, a

LEMMA SplitDistinct ==
  ASSUME NEW X, NEW s \in Seq(X), NEW j \in 1 .. Len(s) + 1, Distinct(s)
  PROVE  LET a == SubSeq(s, 1, j - 1)
             c == SubSeq(s, j, Len(s))
         IN  Distinct(a) /\ Distinct(c) /\ ToSet(a) \intersect ToSet(c) = {}
<1> DEFINE n == Len(s)
           a == SubSeq(s, 1, j - 1)
           c == SubSeq(s, j, Len(s))
<1>1. n \in Nat
  OBVIOUS
<1>2. /\ a \in Seq(X) /\ Len(a) = j - 1 /\ \A i \in 1 .. j - 1 : a[i] = s[i]
      /\ c \in Seq(X) /\ Len(c) = n - j + 1 /\ \A i \in 1 .. n - j + 1 : c[i] = s[j + i - 1]
  BY <1>1, Part
<1> HIDE DEF a, c
<1>3. Distinct(a)
  <2> SUFFICES ASSUME NEW i \in 1 .. j - 1, NEW k \in 1 .. j - 1, a[i] = a[k]
               PROVE  i = k
    BY <1>2 DEF Distinct
  <2>1. i \in 1 .. n /\ k \in 1 .. n /\ s[i] = s[k]
    BY <1>1, <1>2
  <2> QED
    BY <2>1 DEF Distinct
<1>4. Distinct(c)
  <2> SUFFICES ASSUME NEW i \in 1 .. n - j + 1, NEW k \in 1 .. n - j + 1, c[i] = c[k]
               PROVE  i = k
    BY <1>2 DEF Distinct
  <2>1. j + i - 1 \in 1 .. n /\ j + k - 1 \in 1 .. n
    BY <1>1
  <2>2. s[j + i - 1] = s[j + k - 1]
    BY <1>2
  <2>3. j + i - 1 = j + k - 1
    BY <2>1, <2>2 DEF Distinct
  <2> QED
    BY <2>3
<1>5. ToSet(a) \intersect ToSet(c) = {}
  <2> SUFFICES ASSUME NEW i \in 1 .. j - 1, NEW k \in 1 .. n - j + 1, a[i] = c[k]
               PROVE  FALSE
    BY <1>2 DEF ToSet
  <2>1. i \in 1 .. n /\ j + k - 1 \in 1 .. n /\ i # j + k - 1
    BY <1>1
  <2>2. s[i] = s[j + k - 1]
    BY <1>2
  <2> QED
    BY <2>1, <2>2 DEF Distinct
<1> QED
  BY <1>3, <1>4, <1>5 DEF a, c
=============================================================================
