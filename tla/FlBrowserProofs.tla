-------------------------- MODULE FlBrowserProofs ---------------------------
(***************************************************************************)
(* Proofs about the list of a browser, for any number of lines.            *)
(*                                                                         *)
(* The null pointer stands for both ends of the list: with first as what   *)
(* follows it and last as what precedes it, the pointers of a browser are  *)
(* a ring, Link() sets one edge of it, and no operation needs a case of    *)
(* its own at an end.  The invariant names the sequence s of items along   *)
(* the ring: the cached line is the item of s with its number, top_ and    *)
(* selection_ are in s, s is what is allocated, and without linespacing()  *)
(* the height is that of the items shown.  The rows of BrowserRows are     *)
(* read off s, so that what an operation does to s is what it does to the  *)
(* rows.                                                                   *)
(***************************************************************************)
EXTENDS FlBrowser, SequenceLemmas, FiniteSetTheorems

Pointers == Items \union {NULL}
Browsers == [first : Pointers, last : Pointers, lines : Nat, full_height : Int,
             next : [Items -> Pointers], prev : [Items -> Pointers],
             cache : Pointers, cacheline : Nat, top : Pointers, selection : Pointers]
BLINE == [text : Nat, length : Nat, hidden : BOOLEAN]

\* The n-th item of s; the list ends in null pointers on both sides.
Nth(s, i) == IF i \in 1 .. Len(s) THEN s[i] ELSE NULL

\* The pointers of B as a ring, which the null pointer closes.
Onward(B)   == [x \in Pointers |-> IF x = NULL THEN B.first ELSE B.next[x]]
Backward(B) == [x \in Pointers |-> IF x = NULL THEN B.last ELSE B.prev[x]]
Ring(on, back, s) ==
  \A i \in 0 .. Len(s) : on[Nth(s, i)] = Nth(s, i + 1) /\ back[Nth(s, i + 1)] = Nth(s, i)

\* The list of B is s, the cached line is the one with its number.
Good(B, s) ==
  /\ B \in Browsers /\ s \in Seq(Items) /\ Distinct(s)
  /\ Ring(Onward(B), Backward(B), s)
  /\ B.lines = Len(s)
  /\ B.cacheline \in 0 .. Len(s) /\ B.cache = Nth(s, B.cacheline)
  /\ {B.top, B.selection} \subseteq ToSet(s) \union {NULL}

Shown(bl, S) == {l \in S : ~bl[l].hidden}

Is(s) ==
  /\ Good(b, s) /\ ToSet(s) = allocated /\ b.lines <= MaxLines
  /\ bline \in [Items -> BLINE]
  /\ Spacing = 0 => b.full_height = Cardinality(Shown(bline, allocated))

IInv == \E s \in Seq(Items) : Is(s)
-----------------------------------------------------------------------------
\* What is assumed of the items: their number is finite, and none is the null pointer.
LEMMA ItemsFacts ==
  /\ 0 \notin Items /\ NULL \notin Items /\ IsFiniteSet(Items) /\ NULL \in Pointers
  /\ Items \subseteq Pointers /\ \A x \in Pointers : x # NULL => x \in Items
  BY BrowserAssumption DEF NULL, Pointers

\* The n-th item is the null pointer on both sides of the sequence and nowhere in it.
LEMMA NthFacts ==
  ASSUME NEW s \in Seq(Items)
  PROVE  /\ Len(s) \in Nat /\ Nth(s, 0) = NULL /\ Nth(s, Len(s) + 1) = NULL
         /\ \A i \in 1 .. Len(s) : Nth(s, i) = s[i] /\ s[i] \in Items /\ s[i] # NULL
         /\ \A i \in Int : Nth(s, i) \in Pointers
         /\ \A i \in Int : i < 1 \/ i > Len(s) => Nth(s, i) = NULL
         /\ \A i \in 1 .. Len(s) : s[i] \in ToSet(s)
         /\ \A x \in ToSet(s) : \E i \in 1 .. Len(s) : x = s[i]
<1>1. Len(s) \in Nat
  OBVIOUS
<1>2. \A i \in 1 .. Len(s) : Nth(s, i) = s[i] /\ s[i] \in Items /\ s[i] # NULL
  BY <1>1, ItemsFacts DEF Nth
<1>3. \A i \in Int : i < 1 \/ i > Len(s) => Nth(s, i) = NULL
  BY <1>1 DEF Nth
<1>4. \A i \in Int : Nth(s, i) \in Pointers
  BY <1>1, <1>2, <1>3, ItemsFacts
<1>5. ToSet(s) = {s[i] : i \in 1 .. Len(s)}
  BY DEF ToSet
<1> QED
  BY <1>1, <1>2, <1>3, <1>4, <1>5

\* The pointers of the ring are different.
LEMMA NthSame ==
  ASSUME NEW s \in Seq(Items), Distinct(s), NEW i \in Int, NEW j \in Int, i # j,
         1 <= i, i <= Len(s)
  PROVE  Nth(s, i) # Nth(s, j)
<1>1. Nth(s, i) = s[i] /\ s[i] # NULL
  BY NthFacts
<1>2. CASE 1 <= j /\ j <= Len(s)
  BY <1>1, <1>2, NthFacts DEF Distinct
<1>3. CASE ~(1 <= j /\ j <= Len(s))
  BY <1>1, <1>3, NthFacts
<1> QED
  BY <1>2, <1>3

\* What a ring says of one pointer, of the first item and of the last one.
LEMMA RingAt ==
  ASSUME NEW s \in Seq(Items), NEW on, NEW back, Ring(on, back, s)
  PROVE  /\ \A i \in Int : 0 <= i /\ i <= Len(s) => on[Nth(s, i)] = Nth(s, i + 1)
         /\ \A i \in Int : 1 <= i /\ i <= Len(s) + 1 => back[Nth(s, i)] = Nth(s, i - 1)
<1>1. Len(s) \in Nat
  OBVIOUS
<1>2. ASSUME NEW i \in Int, 1 <= i, i <= Len(s) + 1
      PROVE  back[Nth(s, i)] = Nth(s, i - 1)
  <2>1. i - 1 \in 0 .. Len(s) /\ (i - 1) + 1 = i
    BY <1>1, <1>2
  <2>2. back[Nth(s, (i - 1) + 1)] = Nth(s, i - 1)
    BY <2>1 DEF Ring
  <2> QED
    BY <2>1, <2>2
<1> QED
  BY <1>1, <1>2 DEF Ring

\* Linking p to n changes one pointer on each way round the ring.
Linked(C, B, p, n) ==
  /\ C \in Browsers /\ C.lines = B.lines /\ C.full_height = B.full_height
  /\ C.cache = B.cache /\ C.cacheline = B.cacheline
  /\ C.top = B.top /\ C.selection = B.selection
  /\ Onward(C) = [Onward(B) EXCEPT ![p] = n]
  /\ Backward(C) = [Backward(B) EXCEPT ![n] = p]

\* Link(B, p, n) makes n the one after p on the ring and p the one before n.
LEMMA LinkFacts ==
  ASSUME NEW B \in Browsers, NEW p \in Pointers, NEW n \in Pointers
  PROVE  Linked(Link(B, p, n), B, p, n)
<1> DEFINE A == IF p = NULL THEN [B EXCEPT !.first = n] ELSE [B EXCEPT !.next[p] = n]
           C == Link(B, p, n)
<1>1. C = IF n = NULL THEN [A EXCEPT !.last = p] ELSE [A EXCEPT !.prev[n] = p]
  BY DEF Link
<1>2. /\ A \in Browsers /\ A.lines = B.lines /\ A.full_height = B.full_height
      /\ A.cache = B.cache /\ A.cacheline = B.cacheline
      /\ A.top = B.top /\ A.selection = B.selection /\ A.last = B.last /\ A.prev = B.prev
      /\ A.first = (IF p = NULL THEN n ELSE B.first)
      /\ A.next = (IF p = NULL THEN B.next ELSE [B.next EXCEPT ![p] = n])
  BY ItemsFacts DEF Browsers
<1> HIDE DEF A, C
<1>3. /\ C \in Browsers /\ C.lines = B.lines /\ C.full_height = B.full_height
      /\ C.cache = B.cache /\ C.cacheline = B.cacheline
      /\ C.top = B.top /\ C.selection = B.selection /\ C.first = A.first /\ C.next = A.next
      /\ C.last = (IF n = NULL THEN p ELSE A.last)
      /\ C.prev = (IF n = NULL THEN A.prev ELSE [A.prev EXCEPT ![n] = p])
  BY <1>1, <1>2, ItemsFacts DEF Browsers
<1>4. Onward(C) = [Onward(B) EXCEPT ![p] = n]
  <2>1. ASSUME NEW x \in Pointers
        PROVE  (IF x = NULL THEN C.first ELSE C.next[x])
               = (IF x = p THEN n ELSE IF x = NULL THEN B.first ELSE B.next[x])
    BY <1>2, <1>3, ItemsFacts DEF Browsers
  <2> QED
    BY <2>1 DEF Onward
<1>5. Backward(C) = [Backward(B) EXCEPT ![n] = p]
  <2>1. ASSUME NEW x \in Pointers
        PROVE  (IF x = NULL THEN C.last ELSE C.prev[x])
               = (IF x = n THEN p ELSE IF x = NULL THEN B.last ELSE B.prev[x])
    BY <1>2, <1>3, ItemsFacts DEF Browsers
  <2> QED
    BY <2>1 DEF Backward
<1> QED
  BY <1>3, <1>4, <1>5 DEF Linked, C

\* Link() keeps the types of the fields.
LEMMA LinkedIn ==
  ASSUME NEW C, NEW B, NEW p, NEW n, Linked(C, B, p, n)
  PROVE  C \in Browsers
  BY DEF Linked

\* Both directions of the ring are functions on the pointers.
LEMMA RingTypes ==
  ASSUME NEW B \in Browsers
  PROVE  /\ Onward(B) \in [Pointers -> Pointers] /\ Backward(B) \in [Pointers -> Pointers]
         /\ Onward(B)[NULL] = B.first /\ Backward(B)[NULL] = B.last
         /\ \A x \in Items : Onward(B)[x] = B.next[x] /\ Backward(B)[x] = B.prev[x]
  BY ItemsFacts DEF Browsers, Onward, Backward
-----------------------------------------------------------------------------
\* What relinking makes of the ring.
LEMMA NthRemoved ==
  ASSUME NEW s \in Seq(Items), NEW k \in 1 .. Len(s)
  PROVE  /\ RemoveAt(s, k) \in Seq(Items) /\ Len(RemoveAt(s, k)) = Len(s) - 1
         /\ \A i \in Int : 0 <= i /\ i <= Len(s) =>
              Nth(RemoveAt(s, k), i) = IF i < k THEN Nth(s, i) ELSE Nth(s, i + 1)
<1> DEFINE r == RemoveAt(s, k)
<1>1. /\ r \in Seq(Items) /\ Len(r) = Len(s) - 1 /\ Len(s) \in Nat
      /\ \A i \in 1 .. Len(s) - 1 : r[i] = IF i < k THEN s[i] ELSE s[i + 1]
  BY RemoveAtFacts
<1> HIDE DEF r
<1> QED
  BY <1>1 DEF Nth, r

\* Linking the neighbours of the k-th item takes it off the ring.
LEMMA RingRemove ==
  ASSUME NEW s \in Seq(Items), Distinct(s), NEW k \in 1 .. Len(s),
         NEW on \in [Pointers -> Pointers], NEW back \in [Pointers -> Pointers],
         Ring(on, back, s)
  PROVE  Ring([on EXCEPT ![Nth(s, k - 1)] = Nth(s, k + 1)],
              [back EXCEPT ![Nth(s, k + 1)] = Nth(s, k - 1)], RemoveAt(s, k))
<1> DEFINE r == RemoveAt(s, k)
           p == Nth(s, k - 1)
           n == Nth(s, k + 1)
           on1 == [on EXCEPT ![p] = n]
           back1 == [back EXCEPT ![n] = p]
<1>1. /\ r \in Seq(Items) /\ Len(r) = Len(s) - 1 /\ Len(s) \in Nat
      /\ \A i \in Int : 0 <= i /\ i <= Len(s) =>
           Nth(r, i) = IF i < k THEN Nth(s, i) ELSE Nth(s, i + 1)
  BY NthRemoved
<1> HIDE DEF r
<1>2. \A i \in Int : Nth(s, i) \in Pointers
  BY NthFacts
<1>3. \A x \in Pointers : /\ on1[x] = IF x = p THEN n ELSE on[x]
                          /\ back1[x] = IF x = n THEN p ELSE back[x]
  OBVIOUS
<1> SUFFICES ASSUME NEW i \in 0 .. Len(s) - 1
             PROVE  on1[Nth(r, i)] = Nth(r, i + 1) /\ back1[Nth(r, i + 1)] = Nth(r, i)
  BY <1>1 DEF Ring, r
<1>4. CASE i < k - 1
  <2>1. Nth(r, i) = Nth(s, i) /\ Nth(r, i + 1) = Nth(s, i + 1)
    BY <1>1, <1>4
  <2>2. Nth(s, i) # p /\ Nth(s, i + 1) # n
    BY <1>1, <1>4, NthSame
  <2>3. on[Nth(s, i)] = Nth(s, i + 1) /\ back[Nth(s, i + 1)] = Nth(s, i)
    BY <1>1 DEF Ring
  <2> HIDE DEF on1, back1, p, n
  <2> QED
    BY <1>2, <1>3, <2>1, <2>2, <2>3
<1>5. CASE i = k - 1
  <2>1. Nth(r, i) = p /\ Nth(r, i + 1) = n
    BY <1>1, <1>5
  <2> QED
    BY <1>2, <1>3, <2>1
<1>6. CASE i > k - 1
  <2>1. Nth(r, i) = Nth(s, i + 1) /\ Nth(r, i + 1) = Nth(s, (i + 1) + 1)
    BY <1>1, <1>6
  <2>2. Nth(s, i + 1) # p /\ Nth(s, (i + 1) + 1) # n
    BY <1>1, <1>6, NthSame
  <2>3. on[Nth(s, i + 1)] = Nth(s, (i + 1) + 1) /\ back[Nth(s, (i + 1) + 1)] = Nth(s, i + 1)
    BY <1>1 DEF Ring
  <2> HIDE DEF on1, back1, p, n
  <2> QED
    BY <1>2, <1>3, <2>1, <2>2, <2>3
<1> QED
  BY <1>4, <1>5, <1>6

\* The n-th item after an insertion.
LEMMA NthInserted ==
  ASSUME NEW s \in Seq(Items), NEW k \in 1 .. Len(s) + 1, NEW l \in Items
  PROVE  /\ InsertAt(s, k, l) \in Seq(Items) /\ Len(InsertAt(s, k, l)) = Len(s) + 1
         /\ \A i \in Int : 0 <= i /\ i <= Len(s) + 2 =>
              Nth(InsertAt(s, k, l), i) =
                IF i < k THEN Nth(s, i) ELSE IF i = k THEN l ELSE Nth(s, i - 1)
<1> DEFINE r == InsertAt(s, k, l)
<1>1. /\ r \in Seq(Items) /\ Len(r) = Len(s) + 1 /\ Len(s) \in Nat
      /\ \A i \in 1 .. Len(s) + 1 : r[i] = IF i < k THEN s[i] ELSE IF i = k THEN l ELSE s[i - 1]
  BY InsertAtFacts
<1> HIDE DEF r
<1> QED
  BY <1>1 DEF Nth, r

\* Linking an item with both its neighbours puts it on the ring.
LEMMA RingInsert ==
  ASSUME NEW s \in Seq(Items), Distinct(s), NEW k \in 1 .. Len(s) + 1,
         NEW l \in Items, l \notin ToSet(s),
         NEW on \in [Pointers -> Pointers], NEW back \in [Pointers -> Pointers],
         Ring(on, back, s)
  PROVE  Ring([[on EXCEPT ![Nth(s, k - 1)] = l] EXCEPT ![l] = Nth(s, k)],
              [[back EXCEPT ![l] = Nth(s, k - 1)] EXCEPT ![Nth(s, k)] = l], InsertAt(s, k, l))
<1> DEFINE r == InsertAt(s, k, l)
           p == Nth(s, k - 1)
           n == Nth(s, k)
           on1 == [[on EXCEPT ![p] = l] EXCEPT ![l] = n]
           back1 == [[back EXCEPT ![l] = p] EXCEPT ![n] = l]
<1>1. /\ r \in Seq(Items) /\ Len(r) = Len(s) + 1 /\ Len(s) \in Nat
      /\ \A i \in Int : 0 <= i /\ i <= Len(s) + 2 =>
           Nth(r, i) = IF i < k THEN Nth(s, i) ELSE IF i = k THEN l ELSE Nth(s, i - 1)
  BY NthInserted
<1> HIDE DEF r
<1>2. /\ l \in Pointers /\ \A i \in Int : Nth(s, i) \in Pointers /\ Nth(s, i) # l
  BY NthFacts, ItemsFacts DEF Nth
<1>3. \A x \in Pointers : /\ on1[x] = IF x = l THEN n ELSE IF x = p THEN l ELSE on[x]
                          /\ back1[x] = IF x = n THEN l ELSE IF x = l THEN p ELSE back[x]
  OBVIOUS
<1> SUFFICES ASSUME NEW i \in 0 .. Len(s) + 1
             PROVE  on1[Nth(r, i)] = Nth(r, i + 1) /\ back1[Nth(r, i + 1)] = Nth(r, i)
  BY <1>1 DEF Ring, r
<1>4. CASE i < k - 1
  <2>1. Nth(r, i) = Nth(s, i) /\ Nth(r, i + 1) = Nth(s, i + 1)
    BY <1>1, <1>4
  <2>2. Nth(s, i) # p /\ Nth(s, i + 1) # n
    BY <1>1, <1>4, NthSame
  <2>3. on[Nth(s, i)] = Nth(s, i + 1) /\ back[Nth(s, i + 1)] = Nth(s, i)
    BY <1>1, <1>4 DEF Ring
  <2> HIDE DEF on1, back1, p, n
  <2> QED
    BY <1>2, <1>3, <2>1, <2>2, <2>3
<1>5. CASE i = k - 1
  <2>1. Nth(r, i) = p /\ Nth(r, i + 1) = l
    BY <1>1, <1>5
  <2> QED
    BY <1>2, <1>3, <2>1
<1>6. CASE i = k
  <2>1. Nth(r, i) = l /\ Nth(r, i + 1) = n
    BY <1>1, <1>6
  <2> QED
    BY <1>2, <1>3, <2>1
<1>7. CASE i > k
  <2>1. Nth(r, i) = Nth(s, i - 1) /\ Nth(r, i + 1) = Nth(s, i)
    BY <1>1, <1>7
  <2>2. Nth(s, i - 1) # p /\ Nth(s, i) # n
    BY <1>1, <1>7, NthSame
  <2>3. on[Nth(s, i - 1)] = Nth(s, i) /\ back[Nth(s, i)] = Nth(s, i - 1)
    <3>1. i - 1 \in 0 .. Len(s) /\ (i - 1) + 1 = i
      BY <1>1, <1>7
    <3> QED
      BY <3>1 DEF Ring
  <2> HIDE DEF on1, back1, p, n
  <2> QED
    BY <1>2, <1>3, <2>1, <2>2, <2>3
<1> QED
  BY <1>4, <1>5, <1>6, <1>7

\* The n-th item after one is replaced.
LEMMA NthReplaced ==
  ASSUME NEW s \in Seq(Items), NEW k \in 1 .. Len(s), NEW l \in Items
  PROVE  LET r == [s EXCEPT ![k] = l]
         IN  /\ r \in Seq(Items) /\ Len(r) = Len(s)
             /\ \A i \in Int : Nth(r, i) = IF i = k THEN l ELSE Nth(s, i)
             /\ Distinct(s) /\ l \notin ToSet(s) => Distinct(r)
             /\ Distinct(s) => ToSet(r) = (ToSet(s) \ {s[k]}) \union {l}
<1> DEFINE r == [s EXCEPT ![k] = l]
<1>1. /\ r \in Seq(Items) /\ Len(r) = Len(s) /\ Len(s) \in Nat
      /\ \A i \in 1 .. Len(s) : r[i] = IF i = k THEN l ELSE s[i]
  OBVIOUS
<1>2. ToSet(r) = {r[i] : i \in 1 .. Len(r)} /\ ToSet(s) = {s[i] : i \in 1 .. Len(s)}
  BY DEF ToSet
<1> HIDE DEF r
<1>3. \A i \in Int : Nth(r, i) = IF i = k THEN l ELSE Nth(s, i)
  BY <1>1 DEF Nth
<1>4. ASSUME Distinct(s), l \notin ToSet(s) PROVE Distinct(r)
  BY <1>1, <1>2, <1>4 DEF Distinct
<1>5. ASSUME Distinct(s) PROVE ToSet(r) = (ToSet(s) \ {s[k]}) \union {l}
  <2>1. ASSUME NEW x \in ToSet(r) PROVE x \in (ToSet(s) \ {s[k]}) \union {l}
    <3>1. PICK i \in 1 .. Len(s) : x = r[i]
      BY <1>1, <1>2
    <3>2. i # k => s[i] \in ToSet(s) /\ s[i] # s[k]
      BY <1>2, <1>5 DEF Distinct
    <3> QED
      BY <1>1, <3>1, <3>2
  <2>2. ASSUME NEW x \in (ToSet(s) \ {s[k]}) \union {l} PROVE x \in ToSet(r)
    <3>1. CASE x = l
      BY <1>1, <1>2, <3>1
    <3>2. CASE x # l
      <4>1. PICK i \in 1 .. Len(s) : x = s[i]
        BY <1>2, <3>2
      <4>2. i # k
        BY <4>1, <3>2
      <4> QED
        BY <1>1, <1>2, <4>1, <4>2
    <3> QED
      BY <3>1, <3>2
  <2> QED
    BY <2>1, <2>2
<1> QED
  BY <1>1, <1>3, <1>4, <1>5 DEF r

\* Linking a new item with the neighbours of an old one puts it in its place.
LEMMA RingReplace ==
  ASSUME NEW s \in Seq(Items), Distinct(s), NEW k \in 1 .. Len(s),
         NEW l \in Items, l \notin ToSet(s),
         NEW on \in [Pointers -> Pointers], NEW back \in [Pointers -> Pointers],
         Ring(on, back, s)
  PROVE  Ring([[on EXCEPT ![Nth(s, k - 1)] = l] EXCEPT ![l] = Nth(s, k + 1)],
              [[back EXCEPT ![l] = Nth(s, k - 1)] EXCEPT ![Nth(s, k + 1)] = l],
              [s EXCEPT ![k] = l])
<1> DEFINE r == [s EXCEPT ![k] = l]
           p == Nth(s, k - 1)
           n == Nth(s, k + 1)
           on1 == [[on EXCEPT ![p] = l] EXCEPT ![l] = n]
           back1 == [[back EXCEPT ![l] = p] EXCEPT ![n] = l]
<1>1. /\ r \in Seq(Items) /\ Len(r) = Len(s) /\ Len(s) \in Nat
      /\ \A i \in Int : Nth(r, i) = IF i = k THEN l ELSE Nth(s, i)
  BY NthReplaced
<1> HIDE DEF r
<1>2. /\ l \in Pointers /\ \A i \in Int : Nth(s, i) \in Pointers /\ Nth(s, i) # l
  BY NthFacts, ItemsFacts DEF Nth
<1>3. \A x \in Pointers : /\ on1[x] = IF x = l THEN n ELSE IF x = p THEN l ELSE on[x]
                          /\ back1[x] = IF x = n THEN l ELSE IF x = l THEN p ELSE back[x]
  OBVIOUS
<1> SUFFICES ASSUME NEW i \in 0 .. Len(s)
             PROVE  on1[Nth(r, i)] = Nth(r, i + 1) /\ back1[Nth(r, i + 1)] = Nth(r, i)
  BY <1>1 DEF Ring, r
<1>4. CASE i = k - 1
  <2>1. Nth(r, i) = p /\ Nth(r, i + 1) = l
    BY <1>1, <1>4
  <2> QED
    BY <1>2, <1>3, <2>1
<1>5. CASE i = k
  <2>1. Nth(r, i) = l /\ Nth(r, i + 1) = n
    BY <1>1, <1>5
  <2> QED
    BY <1>2, <1>3, <2>1
<1>6. CASE i # k - 1 /\ i # k
  <2>1. Nth(r, i) = Nth(s, i) /\ Nth(r, i + 1) = Nth(s, i + 1)
    BY <1>1, <1>6
  <2>2. Nth(s, i) # p /\ Nth(s, i + 1) # n
    BY <1>1, <1>6, NthSame
  <2>3. on[Nth(s, i)] = Nth(s, i + 1) /\ back[Nth(s, i + 1)] = Nth(s, i)
    BY DEF Ring
  <2> HIDE DEF on1, back1, p, n
  <2> QED
    BY <1>2, <1>3, <2>1, <2>2, <2>3
<1> QED
  BY <1>4, <1>5, <1>6

\* s with two of its items exchanged.
Exchanged(s, i, j) == [s EXCEPT ![i] = s[j], ![j] = s[i]]

\* The n-th item after two are exchanged.
LEMMA NthExchanged ==
  ASSUME NEW s \in Seq(Items), Distinct(s), NEW i \in 1 .. Len(s), NEW j \in 1 .. Len(s), i # j
  PROVE  LET r == Exchanged(s, i, j)
         IN  /\ r \in Seq(Items) /\ Len(r) = Len(s) /\ Distinct(r) /\ ToSet(r) = ToSet(s)
             /\ \A m \in Int : Nth(r, m) = IF m = i THEN s[j] ELSE IF m = j THEN s[i] ELSE Nth(s, m)
<1> DEFINE r == Exchanged(s, i, j)
<1>1. /\ r \in Seq(Items) /\ Len(r) = Len(s) /\ Len(s) \in Nat
      /\ \A m \in 1 .. Len(s) : r[m] = IF m = i THEN s[j] ELSE IF m = j THEN s[i] ELSE s[m]
  BY DEF Exchanged
<1>2. ToSet(r) = {r[m] : m \in 1 .. Len(r)} /\ ToSet(s) = {s[m] : m \in 1 .. Len(s)}
  BY DEF ToSet
<1> HIDE DEF r
<1>3. \A m \in Int : Nth(r, m) = IF m = i THEN s[j] ELSE IF m = j THEN s[i] ELSE Nth(s, m)
  BY <1>1 DEF Nth
<1>4. Distinct(r)
  <2> SUFFICES ASSUME NEW m \in 1 .. Len(s), NEW k \in 1 .. Len(s), m # k
               PROVE  r[m] # r[k]
    BY <1>1 DEF Distinct
  <2>1. \A x, y \in 1 .. Len(s) : x # y => s[x] # s[y]
    BY DEF Distinct
  <2> QED
    BY <1>1, <2>1
<1>5. ToSet(r) = ToSet(s)
  <2>1. ASSUME NEW x \in ToSet(r) PROVE x \in ToSet(s)
    BY <1>1, <1>2
  <2>2. ASSUME NEW x \in ToSet(s) PROVE x \in ToSet(r)
    <3>1. PICK m \in 1 .. Len(s) : x = s[m]
      BY <1>2
    <3>2. x = r[IF m = i THEN j ELSE IF m = j THEN i ELSE m]
      BY <1>1, <3>1
    <3> QED
      BY <1>1, <1>2, <3>2
  <2> QED
    BY <2>1, <2>2
<1> QED
  BY <1>1, <1>3, <1>4, <1>5 DEF r

\* The three links of swap() exchange two neighbours.
LEMMA RingExchangeNeighbours ==
  ASSUME NEW s \in Seq(Items), Distinct(s), NEW i \in 1 .. Len(s), i + 1 <= Len(s),
         NEW on \in [Pointers -> Pointers], NEW back \in [Pointers -> Pointers],
         Ring(on, back, s)
  PROVE  LET x == s[i]
             y == s[i + 1]
             p == Nth(s, i - 1)
             n == Nth(s, i + 2)
         IN  Ring([[[on EXCEPT ![p] = y] EXCEPT ![y] = x] EXCEPT ![x] = n],
                  [[[back EXCEPT ![y] = p] EXCEPT ![x] = y] EXCEPT ![n] = x],
                  Exchanged(s, i, i + 1))
<1> DEFINE r == Exchanged(s, i, i + 1)
           x == s[i]
           y == s[i + 1]
           p == Nth(s, i - 1)
           n == Nth(s, i + 2)
           on1 == [[[on EXCEPT ![p] = y] EXCEPT ![y] = x] EXCEPT ![x] = n]
           back1 == [[[back EXCEPT ![y] = p] EXCEPT ![x] = y] EXCEPT ![n] = x]
<1>1. /\ r \in Seq(Items) /\ Len(r) = Len(s) /\ Len(s) \in Nat
      /\ \A m \in Int : Nth(r, m) = IF m = i THEN y ELSE IF m = i + 1 THEN x ELSE Nth(s, m)
  BY NthExchanged
<1> HIDE DEF r
<1>2. /\ x = Nth(s, i) /\ y = Nth(s, i + 1) /\ x \in Pointers /\ y \in Pointers
      /\ \A m \in Int : Nth(s, m) \in Pointers
  BY NthFacts, ItemsFacts
<1>3. x # y /\ p # x /\ p # y /\ n # x /\ n # y /\ p \in Pointers /\ n \in Pointers
  BY <1>1, <1>2, NthSame
<1>4. \A z \in Pointers :
        /\ on1[z] = IF z = x THEN n ELSE IF z = y THEN x ELSE IF z = p THEN y ELSE on[z]
        /\ back1[z] = IF z = n THEN x ELSE IF z = x THEN y ELSE IF z = y THEN p ELSE back[z]
  OBVIOUS
<1> SUFFICES ASSUME NEW m \in 0 .. Len(s)
             PROVE  on1[Nth(r, m)] = Nth(r, m + 1) /\ back1[Nth(r, m + 1)] = Nth(r, m)
  BY <1>1 DEF Ring, r
<1>5. CASE m = i - 1
  <2>1. Nth(r, m) = p /\ Nth(r, m + 1) = y
    BY <1>1, <1>5
  <2> HIDE DEF on1, back1, x, y, p, n
  <2> QED
    BY <1>2, <1>3, <1>4, <2>1
<1>6. CASE m = i
  <2>1. Nth(r, m) = y /\ Nth(r, m + 1) = x
    BY <1>1, <1>6
  <2> HIDE DEF on1, back1, x, y, p, n
  <2> QED
    BY <1>2, <1>3, <1>4, <2>1
<1>7. CASE m = i + 1
  <2>1. Nth(r, m) = x /\ Nth(r, m + 1) = n /\ n \in Pointers
    BY <1>1, <1>2, <1>7
  <2> HIDE DEF on1, back1, x, y, p, n
  <2> QED
    BY <1>2, <1>3, <1>4, <2>1
<1>8. CASE m # i - 1 /\ m # i /\ m # i + 1
  <2>1. Nth(r, m) = Nth(s, m) /\ Nth(r, m + 1) = Nth(s, m + 1)
    BY <1>1, <1>8
  <2>2. /\ Nth(s, m) # p /\ Nth(s, m) # x /\ Nth(s, m) # y
        /\ Nth(s, m + 1) # n /\ Nth(s, m + 1) # x /\ Nth(s, m + 1) # y
    BY <1>1, <1>2, <1>8, NthSame
  <2>3. on[Nth(s, m)] = Nth(s, m + 1) /\ back[Nth(s, m + 1)] = Nth(s, m)
    BY DEF Ring
  <2> HIDE DEF on1, back1, x, y, p, n
  <2> QED
    BY <1>2, <1>4, <2>1, <2>2, <2>3
<1> QED
  BY <1>5, <1>6, <1>7, <1>8

\* The four links of swap() exchange two items that are no neighbours.
LEMMA RingExchangeApart ==
  ASSUME NEW s \in Seq(Items), Distinct(s), NEW i \in 1 .. Len(s), NEW j \in 1 .. Len(s),
         i # j, j # i + 1, i # j + 1,
         NEW on \in [Pointers -> Pointers], NEW back \in [Pointers -> Pointers],
         Ring(on, back, s)
  PROVE  LET x == s[i]
             y == s[j]
             px == Nth(s, i - 1)
             nx == Nth(s, i + 1)
             py == Nth(s, j - 1)
             ny == Nth(s, j + 1)
         IN  Ring([[[[on EXCEPT ![px] = y] EXCEPT ![y] = nx] EXCEPT ![py] = x] EXCEPT ![x] = ny],
                  [[[[back EXCEPT ![y] = px] EXCEPT ![nx] = y] EXCEPT ![x] = py] EXCEPT ![ny] = x],
                  Exchanged(s, i, j))
<1> DEFINE r == Exchanged(s, i, j)
           x == s[i]
           y == s[j]
           px == Nth(s, i - 1)
           nx == Nth(s, i + 1)
           py == Nth(s, j - 1)
           ny == Nth(s, j + 1)
           on1 == [[[[on EXCEPT ![px] = y] EXCEPT ![y] = nx] EXCEPT ![py] = x] EXCEPT ![x] = ny]
           back1 == [[[[back EXCEPT ![y] = px] EXCEPT ![nx] = y] EXCEPT ![x] = py] EXCEPT ![ny] = x]
<1>1. /\ r \in Seq(Items) /\ Len(r) = Len(s) /\ Len(s) \in Nat
      /\ \A m \in Int : Nth(r, m) = IF m = i THEN y ELSE IF m = j THEN x ELSE Nth(s, m)
  BY NthExchanged
<1> HIDE DEF r
<1>2. /\ x = Nth(s, i) /\ y = Nth(s, j) /\ x \in Pointers /\ y \in Pointers
      /\ \A m \in Int : Nth(s, m) \in Pointers
  BY NthFacts, ItemsFacts
<1>3. /\ x # y /\ px # x /\ px # y /\ nx # x /\ nx # y /\ py # x /\ py # y /\ ny # x /\ ny # y
  BY <1>1, <1>2, NthSame
<1>4. px # py
  <2>1. CASE i > 1
    BY <1>1, <2>1, NthSame
  <2>2. CASE j > 1
    BY <1>1, <2>2, NthSame
  <2> QED
    BY <2>1, <2>2
<1>5. nx # ny
  <2>1. CASE i < Len(s)
    BY <1>1, <2>1, NthSame
  <2>2. CASE j < Len(s)
    BY <1>1, <2>2, NthSame
  <2> QED
    BY <1>1, <2>1, <2>2
<1>6. \A z \in Pointers :
        /\ on1[z] = IF z = x THEN ny ELSE IF z = py THEN x ELSE IF z = y THEN nx
                    ELSE IF z = px THEN y ELSE on[z]
        /\ back1[z] = IF z = ny THEN x ELSE IF z = x THEN py ELSE IF z = nx THEN y
                      ELSE IF z = y THEN px ELSE back[z]
  OBVIOUS
<1>7. px \in Pointers /\ nx \in Pointers /\ py \in Pointers /\ ny \in Pointers
  BY <1>2
<1> SUFFICES ASSUME NEW m \in 0 .. Len(s)
             PROVE  on1[Nth(r, m)] = Nth(r, m + 1) /\ back1[Nth(r, m + 1)] = Nth(r, m)
  BY <1>1 DEF Ring, r
<1>8. CASE m = i - 1
  <2>1. Nth(r, m) = px /\ Nth(r, m + 1) = y
    BY <1>1, <1>8
  <2> HIDE DEF on1, back1, x, y, px, nx, py, ny
  <2> QED
    BY <1>2, <1>3, <1>4, <1>5, <1>6, <1>7, <2>1
<1>9. CASE m = i
  <2>1. Nth(r, m) = y /\ Nth(r, m + 1) = nx
    BY <1>1, <1>9
  <2> HIDE DEF on1, back1, x, y, px, nx, py, ny
  <2> QED
    BY <1>2, <1>3, <1>4, <1>5, <1>6, <1>7, <2>1
<1>10. CASE m = j - 1
  <2>1. Nth(r, m) = py /\ Nth(r, m + 1) = x
    BY <1>1, <1>10
  <2> HIDE DEF on1, back1, x, y, px, nx, py, ny
  <2> QED
    BY <1>2, <1>3, <1>4, <1>5, <1>6, <1>7, <2>1
<1>11. CASE m = j
  <2>1. Nth(r, m) = x /\ Nth(r, m + 1) = ny
    BY <1>1, <1>11
  <2> HIDE DEF on1, back1, x, y, px, nx, py, ny
  <2> QED
    BY <1>2, <1>3, <1>4, <1>5, <1>6, <1>7, <2>1
<1>12. CASE m \notin {i - 1, i, j - 1, j}
  <2>1. Nth(r, m) = Nth(s, m) /\ Nth(r, m + 1) = Nth(s, m + 1)
    BY <1>1, <1>12
  <2>2. /\ Nth(s, m) # x /\ Nth(s, m) # y /\ Nth(s, m + 1) # x /\ Nth(s, m + 1) # y
    BY <1>1, <1>2, <1>12, NthSame
  <2>3. /\ Nth(s, m) # px /\ Nth(s, m) # py /\ Nth(s, m + 1) # nx /\ Nth(s, m + 1) # ny
    BY <1>1, <1>12, NthSame
  <2>4. on[Nth(s, m)] = Nth(s, m + 1) /\ back[Nth(s, m + 1)] = Nth(s, m)
    BY DEF Ring
  <2> HIDE DEF on1, back1, x, y, px, nx, py, ny
  <2> QED
    BY <1>2, <1>6, <2>1, <2>2, <2>3, <2>4
<1> QED
  BY <1>8, <1>9, <1>10, <1>11, <1>12
-----------------------------------------------------------------------------
\* A list without repetition is as long as its set is large.
LEMMA DistinctLen ==
  ASSUME NEW s \in Seq(Items), Distinct(s)
  PROVE  /\ IsFiniteSet(ToSet(s)) /\ Cardinality(ToSet(s)) = Len(s) /\ Len(s) <= Cardinality(Items)
         /\ ToSet(s) \subseteq Items
<1> DEFINE Fits(q) == Distinct(q) => IsFiniteSet(ToSet(q)) /\ Cardinality(ToSet(q)) = Len(q)
           T == {q \in Seq(Items) : Fits(q)}
<1>1. <<>> \in T
  <2>1. <<>> \in Seq(Items) /\ Len(<<>>) = 0 /\ ToSet(<<>>) = {}
    BY DEF ToSet
  <2> QED
    BY <2>1, FS_EmptySet
<1>2. ASSUME NEW q \in Seq(Items), NEW e \in Items, q \in T
      PROVE  Append(q, e) \in T
  <2> DEFINE a == Append(q, e)
  <2>1. /\ a \in Seq(Items) /\ Len(a) = Len(q) + 1 /\ Len(q) \in Nat /\ a[Len(q) + 1] = e
        /\ \A i \in 1 .. Len(q) : a[i] = q[i]
    OBVIOUS
  <2>2. /\ ToSet(a) = ToSet(q) \union {e}
        /\ ToSet(q) = {q[i] : i \in 1 .. Len(q)}
    <3>1. ToSet(a) = ToSet(q) \union {e}
      BY ToSetAppend
    <3>2. ToSet(q) = {q[i] : i \in 1 .. Len(q)}
      BY DEF ToSet
    <3> QED
      BY <3>1, <3>2
  <2> HIDE DEF a
  <2>3. ASSUME Distinct(a) PROVE Distinct(q) /\ e \notin ToSet(q)
    BY <2>1, <2>2, <2>3 DEF Distinct
  <2>4. ASSUME Distinct(a) PROVE IsFiniteSet(ToSet(a)) /\ Cardinality(ToSet(a)) = Len(a)
    <3>1. IsFiniteSet(ToSet(q)) /\ Cardinality(ToSet(q)) = Len(q) /\ e \notin ToSet(q)
      BY <1>2, <2>3, <2>4
    <3>2. IsFiniteSet(ToSet(q) \cup {e}) /\ Cardinality(ToSet(q) \cup {e}) = Len(q) + 1
      BY <3>1, FS_AddElement
    <3> QED
      BY <2>1, <2>2, <3>2
  <2> QED
    BY <2>1, <2>4 DEF a
<1> HIDE DEF T
<1>3. Seq(Items) \subseteq T
  BY <1>1, <1>2, SeqInduct
<1>4. Fits(s)
  BY <1>3 DEF T
<1>5. ToSet(s) \subseteq Items
  BY DEF ToSet
<1>6. Cardinality(ToSet(s)) <= Cardinality(Items)
  BY <1>5, ItemsFacts, FS_Subset
<1> QED
  BY <1>4, <1>5, <1>6

\* What a good browser says of its fields.
LEMMA GoodFacts ==
  ASSUME NEW B, NEW s, Good(B, s)
  PROVE  /\ B \in Browsers /\ s \in Seq(Items) /\ Distinct(s) /\ Len(s) \in Nat
         /\ B.lines = Len(s) /\ B.cacheline \in 0 .. Len(s) /\ B.cache = Nth(s, B.cacheline)
         /\ B.first = Nth(s, 1) /\ B.last = Nth(s, Len(s))
         /\ \A i \in 1 .. Len(s) : /\ s[i] \in Items /\ B.next[s[i]] = Nth(s, i + 1)
                                   /\ B.prev[s[i]] = Nth(s, i - 1)
         /\ B.next \in [Items -> Pointers] /\ B.prev \in [Items -> Pointers]
         /\ B.cacheline \in Nat
<1>1. /\ B \in Browsers /\ s \in Seq(Items) /\ Distinct(s) /\ Len(s) \in Nat
      /\ B.lines = Len(s) /\ B.cacheline \in 0 .. Len(s) /\ B.cache = Nth(s, B.cacheline)
      /\ Ring(Onward(B), Backward(B), s)
  BY DEF Good
<1>2. /\ Onward(B)[NULL] = B.first /\ Backward(B)[NULL] = B.last
      /\ \A x \in Items : Onward(B)[x] = B.next[x] /\ Backward(B)[x] = B.prev[x]
  BY <1>1, RingTypes
<1>3. /\ Nth(s, 0) = NULL /\ Nth(s, Len(s) + 1) = NULL
      /\ \A i \in 1 .. Len(s) : Nth(s, i) = s[i] /\ s[i] \in Items
  BY <1>1, NthFacts
<1>4. /\ \A i \in Int : 0 <= i /\ i <= Len(s) => Onward(B)[Nth(s, i)] = Nth(s, i + 1)
      /\ \A i \in Int : 1 <= i /\ i <= Len(s) + 1 => Backward(B)[Nth(s, i)] = Nth(s, i - 1)
  BY <1>1, RingAt
<1>5. B.first = Nth(s, 1) /\ B.last = Nth(s, Len(s))
  <2>1. Onward(B)[Nth(s, 0)] = Nth(s, 0 + 1)
    BY <1>1, <1>4
  <2>2. Backward(B)[Nth(s, Len(s) + 1)] = Nth(s, (Len(s) + 1) - 1) /\ (Len(s) + 1) - 1 = Len(s)
    BY <1>1, <1>4
  <2> QED
    BY <1>2, <1>3, <2>1, <2>2
<1>6. ASSUME NEW i \in 1 .. Len(s)
      PROVE  B.next[s[i]] = Nth(s, i + 1) /\ B.prev[s[i]] = Nth(s, i - 1)
  BY <1>1, <1>2, <1>3, <1>4
<1>7. B.next \in [Items -> Pointers] /\ B.prev \in [Items -> Pointers] /\ B.cacheline \in Nat
  BY <1>1 DEF Browsers
<1> QED
  BY <1>1, <1>3, <1>5, <1>6, <1>7

\* Following the pointers from a line leads to the lines after and before it.
Leads(B, s, n, k) ==
  Walk(B.next, s[n], k) = Nth(s, n + k) /\ Walk(B.prev, s[n], k) = Nth(s, n - k)

\* k steps from the n-th item lead to the item k lines further, or to null.
LEMMA WalkFacts ==
  ASSUME NEW B, NEW s, Good(B, s), NEW n \in 1 .. Len(s), NEW k \in Nat
  PROVE  Leads(B, s, n, k)
<1>1. /\ s \in Seq(Items) /\ Len(s) \in Nat
      /\ \A i \in 1 .. Len(s) : /\ s[i] \in Items /\ B.next[s[i]] = Nth(s, i + 1)
                                /\ B.prev[s[i]] = Nth(s, i - 1)
  BY GoodFacts
<1>2. /\ \A i \in 1 .. Len(s) : Nth(s, i) = s[i] /\ s[i] # 0
      /\ \A i \in Int : i < 1 \/ i > Len(s) => Nth(s, i) = 0
  BY <1>1, NthFacts DEF NULL
<1>3. Walk(B.next, s[n], k) = Nth(s, n + k)
  <2> DEFINE f == [i \in 1 .. k + 1 |-> Nth(s, n + i - 1)]
  <2>1. ASSUME NEW i \in 1 .. k + 1
        PROVE  Nth(s, n + i - 1) = IF i = 1 THEN s[n]
                                   ELSE IF Nth(s, n + (i - 1) - 1) = 0 THEN 0
                                   ELSE B.next[Nth(s, n + (i - 1) - 1)]
    <3>1. CASE i = 1
      BY <1>2, <3>1
    <3>2. CASE i # 1
      <4> DEFINE m == n + (i - 1) - 1
      <4>1. m \in Int /\ m >= 1 /\ n + i - 1 = m + 1
        BY <1>1, <3>2
      <4>2. m <= Len(s) => m \in 1 .. Len(s) /\ Nth(s, m) # 0 /\ B.next[Nth(s, m)] = Nth(s, m + 1)
        <5> HIDE DEF m
        <5>1. m <= Len(s) => m \in 1 .. Len(s)
          BY <1>1, <4>1
        <5> QED
          BY <1>1, <1>2, <5>1
      <4>3. m > Len(s) => Nth(s, m) = 0 /\ Nth(s, m + 1) = 0
        BY <1>1, <1>2, <4>1
      <4> HIDE DEF m
      <4>4. Nth(s, m + 1) = IF Nth(s, m) = 0 THEN 0 ELSE B.next[Nth(s, m)]
        BY <1>1, <4>1, <4>2, <4>3
      <4> QED
        BY <3>2, <4>1, <4>4 DEF m
    <3> QED
      BY <3>1, <3>2
  <2>2. IsWalk(f, B.next, s[n], k + 1)
    <3>1. f = [i \in 1 .. k + 1 |->
                 IF i = 1 THEN s[n] ELSE IF f[i - 1] = 0 THEN 0 ELSE B.next[f[i - 1]]]
      <4>1. \A i \in 1 .. k + 1 : i # 1 => i - 1 \in 1 .. k + 1
        OBVIOUS
      <4> QED
        BY <2>1, <4>1
    <3> QED
      BY <3>1, Zenon DEF IsWalk
  <2>3. f[k + 1] = Nth(s, n + k)
    BY <1>1
  <2> QED
    BY <2>2, <2>3, FollowIs DEF Walk
<1>4. Walk(B.prev, s[n], k) = Nth(s, n - k)
  <2> DEFINE f == [i \in 1 .. k + 1 |-> Nth(s, n - i + 1)]
  <2>1. ASSUME NEW i \in 1 .. k + 1
        PROVE  Nth(s, n - i + 1) = IF i = 1 THEN s[n]
                                   ELSE IF Nth(s, n - (i - 1) + 1) = 0 THEN 0
                                   ELSE B.prev[Nth(s, n - (i - 1) + 1)]
    <3>1. CASE i = 1
      BY <1>2, <3>1
    <3>2. CASE i # 1
      <4> DEFINE m == n - (i - 1) + 1
      <4>1. m \in Int /\ m <= Len(s) /\ n - i + 1 = m - 1
        BY <1>1, <3>2
      <4>2. m >= 1 => m \in 1 .. Len(s) /\ Nth(s, m) # 0 /\ B.prev[Nth(s, m)] = Nth(s, m - 1)
        <5> HIDE DEF m
        <5>1. m >= 1 => m \in 1 .. Len(s)
          BY <1>1, <4>1
        <5> QED
          BY <1>1, <1>2, <5>1
      <4>3. m < 1 => Nth(s, m) = 0 /\ Nth(s, m - 1) = 0
        BY <1>1, <1>2, <4>1
      <4> HIDE DEF m
      <4>4. Nth(s, m - 1) = IF Nth(s, m) = 0 THEN 0 ELSE B.prev[Nth(s, m)]
        BY <1>1, <4>1, <4>2, <4>3
      <4> QED
        BY <3>2, <4>1, <4>4 DEF m
    <3> QED
      BY <3>1, <3>2
  <2>2. IsWalk(f, B.prev, s[n], k + 1)
    <3>1. f = [i \in 1 .. k + 1 |->
                 IF i = 1 THEN s[n] ELSE IF f[i - 1] = 0 THEN 0 ELSE B.prev[f[i - 1]]]
      <4>1. \A i \in 1 .. k + 1 : i # 1 => i - 1 \in 1 .. k + 1
        OBVIOUS
      <4> QED
        BY <2>1, <4>1
    <3> QED
      BY <3>1, Zenon DEF IsWalk
  <2>3. f[k + 1] = Nth(s, n - k)
    <3>1. k + 1 \in 1 .. k + 1 /\ n - (k + 1) + 1 = n - k
      BY <1>1
    <3> QED
      BY <3>1
  <2> QED
    BY <2>2, <2>3, FollowIs DEF Walk
<1> QED
  BY <1>3, <1>4 DEF Leads

\* A walk from one line to another arrives.
LEMMA WalkTo ==
  ASSUME NEW B, NEW s, Good(B, s), NEW n \in 1 .. Len(s), NEW line \in 1 .. Len(s)
  PROVE  /\ n < line => Walk(B.next, s[n], line - n) = s[line]
         /\ ~(n < line) => Walk(B.prev, s[n], n - line) = s[line]
<1>1. s \in Seq(Items) /\ Len(s) \in Nat
  BY GoodFacts
<1>2. Nth(s, line) = s[line]
  BY <1>1, NthFacts
<1>3. ASSUME NEW k \in Nat
      PROVE  Walk(B.next, s[n], k) = Nth(s, n + k) /\ Walk(B.prev, s[n], k) = Nth(s, n - k)
  <2>1. Leads(B, s, n, k)
    BY WalkFacts
  <2> QED
    BY <2>1 DEF Leads
<1>4. n < line => line - n \in Nat /\ n + (line - n) = line
  BY <1>1
<1>5. ~(n < line) => n - line \in Nat /\ n - (n - line) = line
  BY <1>1
<1> QED
  BY <1>2, <1>3, <1>4, <1>5

\* The list that is read off the pointers.
LEMMA ListedFacts ==
  ASSUME NEW B, NEW s, Good(B, s)
  PROVE  Listed(B) = s
<1> DEFINE N == Cardinality(Items)
<1>1. /\ s \in Seq(Items) /\ Len(s) \in Nat /\ B.first = Nth(s, 1) /\ Distinct(s)
      /\ \A i \in 1 .. Len(s) : s[i] \in Items /\ B.next[s[i]] = Nth(s, i + 1)
  BY GoodFacts
<1>2. Len(s) <= N /\ N \in Nat
  BY <1>1, DistinctLen, ItemsFacts, FS_CardinalityType
<1> HIDE DEF N
<1>3. /\ s = <<>> => B.first = 0
      /\ s # <<>> => B.first = s[1]
      /\ \A i \in 1 .. Len(s) : B.next[s[i]] = IF i = Len(s) THEN 0 ELSE s[i + 1]
  <2>1. s # <<>> => Len(s) # 0
    BY <1>1
  <2>2. s = <<>> => Len(s) = 0
    OBVIOUS
  <2> QED
    BY <1>1, <2>1, <2>2 DEF Nth, NULL
<1>4. Chain(B.next, s, B.first, 0)
  BY <1>1, <1>3 DEF Chain
<1> QED
  BY <1>1, <1>2, <1>4, ChainList, ItemsFacts DEF Listed, N
-----------------------------------------------------------------------------
\* The list does not depend on the line that was found last, on the items that
\* are at the top and selected, or on the height.
LEMMA SameList ==
  ASSUME NEW B, NEW s, Good(B, s), NEW C \in Browsers,
         C.first = B.first, C.last = B.last, C.next = B.next, C.prev = B.prev, C.lines = B.lines,
         C.cacheline \in 0 .. Len(s), C.cache = Nth(s, C.cacheline),
         {C.top, C.selection} \subseteq ToSet(s) \union {NULL}
  PROVE  Good(C, s)
<1>1. Onward(C) = Onward(B) /\ Backward(C) = Backward(B)
  BY DEF Onward, Backward
<1> QED
  BY <1>1 DEF Good

\* The types of the fields.
LEMMA FieldTypes ==
  ASSUME NEW B \in Browsers
  PROVE  /\ B.first \in Pointers /\ B.last \in Pointers /\ B.lines \in Nat /\ B.full_height \in Int
         /\ B.next \in [Items -> Pointers] /\ B.prev \in [Items -> Pointers]
         /\ B.cache \in Pointers /\ B.cacheline \in Nat
         /\ B.top \in Pointers /\ B.selection \in Pointers
  BY DEF Browsers

Cached(B, s, n) == [B EXCEPT !.cacheline = n, !.cache = Nth(s, n)]

\* A browser may remember any line with its number.
LEMMA CacheFacts ==
  ASSUME NEW B, NEW s, Good(B, s), NEW n \in 0 .. Len(s), NEW C, C = Cached(B, s, n)
  PROVE  /\ Good(C, s) /\ C.cache = Nth(s, n) /\ C.cacheline = n
         /\ C.top = B.top /\ C.selection = B.selection /\ C.full_height = B.full_height
<1>1. B \in Browsers /\ s \in Seq(Items) /\ {B.top, B.selection} \subseteq ToSet(s) \union {NULL}
  BY DEF Good
<1>2. Nth(s, n) \in Pointers /\ n \in Nat
  BY <1>1, NthFacts
<1>3. /\ C \in Browsers /\ C.cache = Nth(s, n) /\ C.cacheline = n
      /\ C.first = B.first /\ C.last = B.last /\ C.next = B.next /\ C.prev = B.prev
      /\ C.lines = B.lines /\ C.top = B.top /\ C.selection = B.selection
      /\ C.full_height = B.full_height
  BY <1>1, <1>2 DEF Browsers, Cached
<1>4. Good(C, s)
  BY <1>1, <1>3, SameList
<1> QED
  BY <1>3, <1>4

\* find_line() finds every line, and only the cache remembers that it did.
LEMMA FindFacts ==
  ASSUME NEW B, NEW s, Good(B, s), NEW line \in 1 .. Len(s)
  PROVE  LET F == find_line(B, line)
         IN  /\ Good(F, s) /\ F.cache = s[line] /\ F.cacheline = line /\ F.cache \in Items
             /\ F.top = B.top /\ F.selection = B.selection /\ F.full_height = B.full_height
<1> DEFINE F == find_line(B, line)
<1>1. /\ B \in Browsers /\ s \in Seq(Items) /\ Len(s) \in Nat /\ B.lines = Len(s)
      /\ B.cacheline \in 0 .. Len(s) /\ B.cache = Nth(s, B.cacheline)
      /\ B.first = Nth(s, 1) /\ B.last = Nth(s, Len(s))
  BY GoodFacts
<1>2. Nth(s, line) = s[line] /\ s[line] \in Items
  BY <1>1, NthFacts
<1>3. CASE line = B.cacheline
  <2>1. F = B
    BY <1>3 DEF find_line
  <2> QED
    BY <1>1, <1>2, <1>3, <2>1
<1>4. CASE line # B.cacheline
  <2> DEFINE near == B.cacheline # 0 /\ line > B.cacheline \div 2
                     /\ line < (B.cacheline + B.lines) \div 2
             n == IF near THEN B.cacheline ELSE IF line <= B.lines \div 2 THEN 1 ELSE B.lines
             l == IF near THEN B.cache ELSE IF line <= B.lines \div 2 THEN B.first ELSE B.last
             c == IF n < line THEN Walk(B.next, l, line - n) ELSE Walk(B.prev, l, n - line)
  <2>1. F = [B EXCEPT !.cacheline = line, !.cache = c]
    BY <1>4 DEF find_line
  <2>2. near => B.cacheline # 0
    OBVIOUS
  <2>3. n \in 1 .. Len(s) /\ l = Nth(s, n)
    <3> HIDE DEF near
    <3>1. CASE near
      BY <1>1, <2>2, <3>1
    <3>2. CASE ~near
      <4> DEFINE half == line <= B.lines \div 2
      <4> HIDE DEF half
      <4>1. n = (IF half THEN 1 ELSE B.lines) /\ l = (IF half THEN B.first ELSE B.last)
        BY <3>2 DEF half
      <4> HIDE DEF n, l
      <4> QED
        BY <1>1, <4>1
    <3> QED
      BY <3>1, <3>2
  <2> HIDE DEF n, l
  <2>4. c = s[line]
    <3>1. l = s[n]
      BY <1>1, <2>3, NthFacts
    <3> QED
      BY <2>3, <3>1, WalkTo
  <2>5. F = Cached(B, s, line)
    BY <1>2, <2>1, <2>4 DEF Cached
  <2>6. line \in 0 .. Len(s)
    BY <1>1
  <2> HIDE DEF F
  <2>7. /\ Good(F, s) /\ F.cache = Nth(s, line) /\ F.cacheline = line
        /\ F.top = B.top /\ F.selection = B.selection /\ F.full_height = B.full_height
    BY <2>5, <2>6, CacheFacts
  <2> QED
    BY <1>2, <2>7 DEF F
<1> QED
  BY <1>3, <1>4

\* lineno() tells the line of every item of the list.
LEMMA LinenoFacts ==
  ASSUME NEW B, NEW s, Good(B, s), NEW m \in 1 .. Len(s)
  PROVE  LET R == lineno(B, s[m])
         IN  /\ R.n = m /\ Good(R.B, s) /\ R.B.full_height = B.full_height
             /\ R.B.selection = B.selection
<1> DEFINE l == s[m]
           N == Cardinality(Items)
           C == IF B.cache = NULL THEN [B EXCEPT !.cache = B.first, !.cacheline = 1] ELSE B
           Found(d) == Walk(C.prev, C.cache, d) = l \/ Walk(C.next, C.cache, d) = l
           near == {d \in 1 .. N : Found(d)}
           d0 == CHOOSE e \in near : \A k \in near : e <= k
           n == IF Walk(C.prev, C.cache, d0) = l THEN C.cacheline - d0 ELSE C.cacheline + d0
           R == lineno(B, l)
<1>1. /\ B \in Browsers /\ s \in Seq(Items) /\ Distinct(s) /\ Len(s) \in Nat /\ B.lines = Len(s)
      /\ B.cacheline \in 0 .. Len(s) /\ B.cache = Nth(s, B.cacheline)
      /\ B.first = Nth(s, 1) /\ B.last = Nth(s, Len(s))
  BY GoodFacts
<1>2. /\ l = Nth(s, m) /\ l # NULL /\ \A i \in Int : i # m => Nth(s, i) # l
  BY <1>1, NthFacts, NthSame
<1>3. m \in Int /\ 1 <= m /\ m <= Len(s)
  BY <1>1
<1>4. CASE l = B.cache
  <2>1. R = [B |-> B, n |-> B.cacheline]
    BY <1>2, <1>4 DEF lineno
  <2>2. B.cacheline = m
    BY <1>1, <1>2, <1>4
  <2> QED
    BY <2>1, <2>2
<1>5. CASE l = B.first /\ l # B.cache
  <2>1. R = [B |-> B, n |-> 1]
    BY <1>2, <1>5 DEF lineno
  <2>2. m = 1
    BY <1>1, <1>2, <1>5
  <2> QED
    BY <2>1, <2>2
<1>6. CASE l = B.last /\ l \notin {B.cache, B.first}
  <2>1. R = [B |-> B, n |-> B.lines]
    BY <1>2, <1>6 DEF lineno
  <2>2. m = Len(s)
    BY <1>1, <1>2, <1>6
  <2> QED
    BY <1>1, <2>1, <2>2
<1>7. CASE l # B.cache /\ l # B.first /\ l # B.last
  <2>1. R = IF near = {} THEN [B |-> B, n |-> -1]
            ELSE [B |-> [C EXCEPT !.cache = l, !.cacheline = n], n |-> n]
    BY <1>2, <1>7 DEF lineno
  <2>2. Good(C, s) /\ C.full_height = B.full_height /\ C.selection = B.selection /\ C.cacheline # 0 /\ C.cacheline # m
    <3>1. CASE B.cache = NULL
      <4>1. 1 \in 0 .. Len(s)
        BY <1>1, <1>3
      <4>2. C = Cached(B, s, 1)
        BY <1>1, <3>1 DEF Browsers, Cached
      <4>3. m # 1
        BY <1>1, <1>2, <1>7
      <4> HIDE DEF C
      <4> QED
        BY <4>1, <4>2, <4>3, CacheFacts
    <3>2. CASE B.cache # NULL
      <4>1. B.cacheline # 0 /\ B.cacheline # m
        BY <1>1, <1>2, <1>7, <3>2, NthFacts
      <4> QED
        BY <3>2, <4>1
    <3> QED
      BY <3>1, <3>2
  <2> HIDE DEF C
  <2>3. C.cacheline \in 1 .. Len(s) /\ C.cache = s[C.cacheline]
    BY <2>2, GoodFacts, NthFacts
  <2> DEFINE c == C.cacheline
             e == IF c < m THEN m - c ELSE c - m
  <2>4. c \in Int /\ c # m /\ e \in Nat /\ e >= 1 /\ e < Len(s)
    BY <1>1, <1>3, <2>2, <2>3
  <2>5. Len(s) <= N /\ N \in Nat
    BY <1>1, DistinctLen, ItemsFacts, FS_CardinalityType
  <2> HIDE DEF N
  <2>6. ASSUME NEW d \in Nat
        PROVE  /\ Walk(C.prev, C.cache, d) = l <=> c - d = m
               /\ Walk(C.next, C.cache, d) = l <=> c + d = m
    <3>1. Walk(C.prev, C.cache, d) = Nth(s, c - d) /\ Walk(C.next, C.cache, d) = Nth(s, c + d)
      <4> HIDE DEF c
      <4>1. c \in 1 .. Len(s) /\ C.cache = s[c] /\ Good(C, s)
        BY <2>2, <2>3 DEF c
      <4>2. Walk(C.prev, s[c], d) = Nth(s, c - d) /\ Walk(C.next, s[c], d) = Nth(s, c + d)
        <5>1. Leads(C, s, c, d)
          BY <4>1, WalkFacts
        <5> QED
          BY <5>1 DEF Leads
      <4> QED
        BY <4>1, <4>2
    <3>2. c - d \in Int /\ c + d \in Int
      BY <2>4
    <3> QED
      BY <1>2, <3>1, <3>2
  <2> HIDE DEF c
  <2>7. \A d \in 1 .. N : Found(d) <=> d = e
    <3>1. \A d \in 1 .. N : d \in Nat /\ (c - d = m \/ c + d = m <=> d = e)
      BY <1>3, <2>4, <2>5
    <3> QED
      BY <2>6, <3>1
  <2> HIDE DEF Found
  <2>8. near = {e}
    BY <1>1, <2>4, <2>5, <2>7
  <2>9. d0 = e
    BY <2>4, <2>8
  <2> HIDE DEF near, d0
  <2>10. n = m
    <3>1. e \in Nat
      BY <2>4
    <3>2. n = IF c - e = m THEN c - e ELSE c + e
      BY <2>6, <2>9, <3>1 DEF c
    <3> QED
      BY <1>3, <2>4, <3>2
  <2> HIDE DEF n, e
  <2>11. R = [B |-> [C EXCEPT !.cache = l, !.cacheline = m], n |-> m]
    BY <2>1, <2>8, <2>10
  <2>12. C \in Browsers
    BY <2>2, GoodFacts
  <2> DEFINE D == [C EXCEPT !.cache = l, !.cacheline = m]
  <2>13. D = Cached(C, s, m)
    BY <1>2, <2>12 DEF Browsers, Cached
  <2>14. m \in 0 .. Len(s)
    BY <1>1
  <2>15. R.n = m /\ R.B = D
    BY <2>11
  <2> HIDE DEF R, D
  <2>16. Good(D, s) /\ D.full_height = C.full_height /\ D.selection = C.selection
    BY <2>2, <2>13, <2>14, CacheFacts
  <2> QED
    BY <2>2, <2>15, <2>16 DEF R
<1> QED
  BY <1>4, <1>5, <1>6, <1>7
-----------------------------------------------------------------------------
\* The operations on the list.
LEMMA RemoveFacts ==
  ASSUME NEW B, NEW s, Good(B, s), NEW line \in 1 .. Len(s), NEW shown,
         NEW R, R = _remove(B, line, shown)
  PROVE  /\ Good(R, RemoveAt(s, line))
         /\ R.full_height = B.full_height - (item_height(s[line]) + Spacing)
         /\ R.selection = IF B.selection = s[line] THEN NULL ELSE B.selection
<1> DEFINE F == find_line(B, line)
           l == s[line]
           r == RemoveAt(s, line)
           p == Nth(s, line - 1)
           n == Nth(s, line + 1)
           D == deleting(F, l, shown)
           h == item_height(l) + Spacing
           E == [D EXCEPT !.cacheline = line - 1, !.cache = D.prev[l], !.lines = @ - 1,
                          !.full_height = @ - h]
<1>1. /\ Good(F, s) /\ F.cache = l /\ F.full_height = B.full_height /\ F.selection = B.selection
  BY FindFacts
<1>2. R = Link(E, D.prev[l], D.next[l])
  BY <1>1 DEF _remove
<1>3. h \in Int
  BY BrowserAssumption DEF item_height
<1>4. /\ F \in Browsers /\ s \in Seq(Items) /\ Distinct(s) /\ Len(s) \in Nat
      /\ F.lines = Len(s) /\ l \in Items /\ F.next[l] = n /\ F.prev[l] = p
  BY <1>1, GoodFacts
<1>5. Ring(Onward(F), Backward(F), s) /\ {F.top, F.selection} \subseteq ToSet(s) \union {NULL}
  BY <1>1 DEF Good
<1>6. /\ r \in Seq(Items) /\ Distinct(r) /\ l \notin ToSet(r) /\ ToSet(s) = ToSet(r) \union {l}
      /\ Len(r) = Len(s) - 1
  BY <1>4, RemoveAtFacts, RemoveAtSet
<1>7. /\ p \in Pointers /\ n \in Pointers
      /\ {p, n} \subseteq ToSet(s) \union {NULL} /\ p # l /\ n # l
  <2>1. l = Nth(s, line)
    BY <1>4, NthFacts
  <2>2. line - 1 \in Int /\ line + 1 \in Int /\ line - 1 # line /\ line + 1 # line /\ 1 <= line /\ line <= Len(s)
    BY <1>4
  <2>3. p # l /\ n # l
    BY <1>4, <2>1, <2>2, NthSame
  <2>4. p \in Pointers /\ n \in Pointers
    BY <1>4, <2>2, NthFacts
  <2>5. \A i \in Int : Nth(s, i) \in ToSet(s) \union {NULL}
    BY <1>4, NthFacts DEF Nth
  <2> QED
    BY <2>2, <2>3, <2>4, <2>5
<1> HIDE DEF F, l, r, p, n, h
<1>8. /\ D \in Browsers /\ D.first = F.first /\ D.last = F.last /\ D.next = F.next /\ D.prev = F.prev
      /\ D.lines = F.lines /\ D.full_height = F.full_height
      /\ D.top \in {NULL, F.top, p, n} /\ D.top # l
      /\ D.selection \in {NULL, F.selection} /\ D.selection # l
      /\ D.selection = IF F.selection = l THEN NULL ELSE F.selection
  BY <1>4, <1>7, ItemsFacts DEF deleting, Browsers
<1> HIDE DEF D
<1>9. {D.top, D.selection} \subseteq ToSet(r) \union {NULL}
  BY <1>5, <1>6, <1>7, <1>8
<1>10. /\ E \in Browsers /\ E.first = F.first /\ E.last = F.last /\ E.next = F.next /\ E.prev = F.prev
       /\ E.lines = Len(s) - 1 /\ E.full_height = F.full_height - h
       /\ E.top = D.top /\ E.selection = D.selection
       /\ E.cacheline = line - 1 /\ E.cache = p
  <2>1. line - 1 \in Nat /\ D.lines - 1 \in Nat /\ D.full_height - h \in Int
    BY <1>3, <1>4, <1>8 DEF Browsers
  <2> QED
    BY <1>4, <1>7, <1>8, <2>1 DEF Browsers
<1> HIDE DEF E
<1>11. Onward(E) = Onward(F) /\ Backward(E) = Backward(F)
  BY <1>10 DEF Onward, Backward
<1>12. R = Link(E, p, n)
  BY <1>2, <1>4, <1>8
<1>13. /\ R \in Browsers /\ R.lines = E.lines /\ R.full_height = E.full_height
       /\ R.cache = E.cache /\ R.cacheline = E.cacheline
       /\ R.top = E.top /\ R.selection = E.selection
       /\ Onward(R) = [Onward(E) EXCEPT ![p] = n]
       /\ Backward(R) = [Backward(E) EXCEPT ![n] = p]
  <2>1. Linked(R, E, p, n)
    BY <1>7, <1>10, <1>12, LinkFacts
  <2> QED
    BY <2>1 DEF Linked
<1>14. Ring(Onward(R), Backward(R), r)
  <2>1. Ring([Onward(F) EXCEPT ![p] = n], [Backward(F) EXCEPT ![n] = p], r)
    BY <1>4, <1>5, RingTypes, RingRemove DEF p, n, r
  <2> QED
    BY <1>11, <1>13, <2>1
<1>15. R.cacheline \in 0 .. Len(r) /\ R.cache = Nth(r, R.cacheline)
  <2>1. line - 1 \in Int /\ 0 <= line - 1 /\ line - 1 <= Len(s) /\ line - 1 < line /\ line - 1 \in 0 .. Len(r)
    BY <1>4, <1>6
  <2>2. Nth(r, line - 1) = Nth(s, line - 1)
    BY <1>4, <2>1, NthRemoved DEF r
  <2> QED
    BY <1>10, <1>13, <2>1, <2>2 DEF p
<1>16. Good(R, r)
  BY <1>6, <1>9, <1>10, <1>13, <1>14, <1>15 DEF Good
<1> QED
  BY <1>1, <1>8, <1>10, <1>13, <1>16 DEF r, h, l

\* insert(line, l) puts l at the line, whichever way it found its neighbour.
LEMMA InsertFacts ==
  ASSUME NEW B, NEW s, Good(B, s), NEW line \in 1 .. Len(s) + 1,
         NEW l \in Items, l \notin ToSet(s), NEW height \in Int,
         NEW R, R = insert(B, line, l, height)
  PROVE  /\ Good(R, InsertAt(s, line, l))
         /\ R.full_height = B.full_height + (height + Spacing) /\ R.selection = B.selection
<1> DEFINE F == IF B.first # NULL /\ line \in 2 .. B.lines THEN find_line(B, line) ELSE B
           m == IF B.first = NULL \/ line > B.lines THEN NULL
                ELSE IF line <= 1 THEN B.first ELSE F.cache
           I == IF m = NULL THEN F ELSE inserting(F, m, l)
           q == IF m = NULL THEN I.last ELSE I.prev[m]
           n == Nth(s, line)
           p == Nth(s, line - 1)
           r == InsertAt(s, line, l)
           K == Link(I, p, l)
           L == Link(K, l, n)
           h == height + Spacing
<1>0. h \in Int
  BY BrowserAssumption
<1>1. R = [Link(Link(I, q, l), l, m) EXCEPT
             !.cacheline = line, !.cache = l, !.lines = @ + 1, !.full_height = @ + h]
  BY DEF insert
<1>2. /\ B \in Browsers /\ s \in Seq(Items) /\ Distinct(s) /\ Len(s) \in Nat
      /\ B.lines = Len(s) /\ B.first = Nth(s, 1)
  BY GoodFacts
<1>3. Good(F, s) /\ F.full_height = B.full_height /\ F.selection = B.selection
  <2>1. CASE B.first # NULL /\ line \in 2 .. B.lines
    <3>1. F = find_line(B, line) /\ line \in 1 .. Len(s)
      BY <1>2, <2>1
    <3> QED
      BY <3>1, FindFacts
  <2>2. CASE ~(B.first # NULL /\ line \in 2 .. B.lines)
    <3>1. F = B
      BY <2>2
    <3> QED
      BY <3>1
  <2> QED
    BY <2>1, <2>2
<1>4. m = n
  <2>1. CASE B.first = NULL
    <3>1. Len(s) = 0
      BY <1>2, <2>1, NthFacts
    <3> QED
      BY <1>2, <2>1, <3>1, NthFacts
  <2>2. CASE line > B.lines
    BY <1>2, <2>2, NthFacts
  <2>3. CASE B.first # NULL /\ ~(line > B.lines) /\ line <= 1
    <3>1. line = 1
      BY <1>2, <2>3
    <3> QED
      BY <1>2, <2>3, <3>1
  <2>4. CASE B.first # NULL /\ ~(line > B.lines) /\ ~(line <= 1)
    <3>1. line \in 2 .. B.lines /\ line \in 1 .. Len(s)
      BY <1>2, <2>4
    <3>2. F = find_line(B, line)
      BY <2>4, <3>1
    <3>3. F.cache = s[line]
      BY <3>1, <3>2, FindFacts
    <3> QED
      BY <1>2, <2>4, <3>1, <3>3, NthFacts
  <2> QED
    BY <2>1, <2>2, <2>3, <2>4
<1>5. /\ F \in Browsers /\ F.last = Nth(s, Len(s)) /\ F.lines = Len(s)
      /\ \A i \in 1 .. Len(s) : F.prev[s[i]] = Nth(s, i - 1)
      /\ Ring(Onward(F), Backward(F), s) /\ {F.top, F.selection} \subseteq ToSet(s) \union {NULL}
  BY <1>3, GoodFacts DEF Good
<1>6. /\ r \in Seq(Items) /\ Distinct(r) /\ ToSet(r) = ToSet(s) \union {l} /\ Len(r) = Len(s) + 1
      /\ Nth(r, line) = l
  <2>1. r \in Seq(Items) /\ Len(r) = Len(s) + 1
    BY <1>2, InsertAtFacts
  <2>2. Distinct(r) /\ ToSet(r) = ToSet(s) \union {l}
    BY <1>2, InsertAtSet
  <2>3. Nth(r, line) = l
    <3>1. line \in Int /\ 0 <= line /\ line <= Len(s) + 2
      BY <1>2
    <3> QED
      BY <1>2, <3>1, NthInserted
  <2> QED
    BY <2>1, <2>2, <2>3
<1>7. p \in Pointers /\ n \in Pointers /\ l \in Pointers
  BY <1>2, NthFacts, ItemsFacts
<1> HIDE DEF F
<1>8. /\ I \in Browsers /\ I.first = F.first /\ I.last = F.last /\ I.next = F.next /\ I.prev = F.prev
      /\ I.lines = Len(s) /\ I.full_height = F.full_height
      /\ I.selection = F.selection /\ I.top \in {F.top, l}
  <2> HIDE DEF m
  <2> QED
    BY <1>5, <1>7 DEF inserting, Browsers
<1>9. q = p
  <2>1. CASE n = NULL
    <3>1. line = Len(s) + 1
      BY <1>2, <2>1, NthFacts
    <3> QED
      BY <1>2, <1>4, <1>5, <1>8, <2>1, <3>1
  <2>2. CASE n # NULL
    <3>1. line \in 1 .. Len(s)
      BY <1>2, <2>2, NthFacts
    <3>2. n = s[line]
      BY <1>2, <3>1, NthFacts
    <3> QED
      BY <1>4, <1>5, <1>8, <2>2, <3>1, <3>2
  <2> QED
    BY <2>1, <2>2
<1>10. R = [L EXCEPT !.cacheline = line, !.cache = l, !.lines = @ + 1, !.full_height = @ + h]
  BY <1>1, <1>4, <1>9
<1> HIDE DEF m, q, I, n, p, r, h
<1>11. Onward(I) = Onward(F) /\ Backward(I) = Backward(F)
  BY <1>8 DEF Onward, Backward
<1>12. Linked(K, I, p, l)
  BY <1>7, <1>8, LinkFacts
<1>13. Linked(L, K, l, n)
  BY <1>7, <1>12, LinkFacts, LinkedIn
<1> HIDE DEF K, L
<1>14. /\ L \in Browsers /\ L.lines = Len(s) /\ L.full_height = F.full_height
       /\ L.top \in {F.top, l} /\ L.selection = F.selection
       /\ Onward(L) = [[Onward(F) EXCEPT ![p] = l] EXCEPT ![l] = n]
       /\ Backward(L) = [[Backward(F) EXCEPT ![l] = p] EXCEPT ![n] = l]
  BY <1>8, <1>11, <1>12, <1>13 DEF Linked
<1>15. /\ R \in Browsers /\ R.lines = Len(s) + 1 /\ R.full_height = F.full_height + h
       /\ R.cacheline = line /\ R.cache = l /\ R.top = L.top /\ R.selection = L.selection
       /\ R.first = L.first /\ R.last = L.last /\ R.next = L.next /\ R.prev = L.prev
  <2>1. line \in Nat /\ L.lines + 1 \in Nat /\ L.full_height + h \in Int
    BY <1>0, <1>2, <1>14 DEF Browsers
  <2>2. L \in Browsers /\ L.lines = Len(s) /\ L.full_height = F.full_height
    BY <1>14
  <2> QED
    BY <1>7, <1>10, <2>1, <2>2 DEF Browsers
<1>16. Onward(R) = Onward(L) /\ Backward(R) = Backward(L)
  BY <1>15 DEF Onward, Backward
<1>17. Ring(Onward(R), Backward(R), r)
  <2>1. Ring([[Onward(F) EXCEPT ![p] = l] EXCEPT ![l] = n],
             [[Backward(F) EXCEPT ![l] = p] EXCEPT ![n] = l], r)
    BY <1>2, <1>5, RingTypes, RingInsert DEF p, n, r
  <2> QED
    BY <1>14, <1>16, <2>1
<1>18. {R.top, R.selection} \subseteq ToSet(r) \union {NULL}
  BY <1>5, <1>6, <1>14, <1>15
<1>19. R.cacheline \in 0 .. Len(r)
  BY <1>2, <1>6, <1>15
<1>20. Good(R, r)
  BY <1>6, <1>15, <1>17, <1>18, <1>19 DEF Good
<1> QED
  BY <1>3, <1>14, <1>15, <1>20 DEF r, h

\* Which of two items is named first does not matter for their exchange.
LEMMA ExchangedBack ==
  ASSUME NEW s \in Seq(Items), NEW i \in 1 .. Len(s), NEW j \in 1 .. Len(s)
  PROVE  Exchanged(s, i, j) = Exchanged(s, j, i)
<1>1. \A m \in 1 .. Len(s) : Exchanged(s, i, j)[m] = Exchanged(s, j, i)[m]
  BY DEF Exchanged
<1>2. DOMAIN s = 1 .. Len(s)
  OBVIOUS
<1>3. /\ Exchanged(s, i, j) = [m \in 1 .. Len(s) |-> Exchanged(s, i, j)[m]]
      /\ Exchanged(s, j, i) = [m \in 1 .. Len(s) |-> Exchanged(s, j, i)[m]]
  BY <1>2 DEF Exchanged
<1> QED
  BY <1>1, <1>3

\* Setting the cached line keeps the types.
LEMMA CacheType ==
  ASSUME NEW B \in Browsers, NEW l \in Pointers, NEW n \in Nat
  PROVE  [B EXCEPT !.cache = l, !.cacheline = n] \in Browsers
  BY DEF Browsers

\* swap(a, c) exchanges the two items, neighbours or not, in either order.
LEMMA SwapFacts ==
  ASSUME NEW B, NEW s, Good(B, s), NEW i \in 1 .. Len(s), NEW j \in 1 .. Len(s), i # j,
         NEW R, R = swap(B, s[i], s[j])
  PROVE  /\ Good(R, Exchanged(s, i, j)) /\ R.full_height = B.full_height
         /\ R.selection = IF B.selection = s[i] THEN s[j]
                          ELSE IF B.selection = s[j] THEN s[i] ELSE B.selection
<1> DEFINE a == s[i]
           c == s[j]
           S == swapping(B, a, c)
           Three(x, y) == Link(Link(Link(S, S.prev[x], y), y, x), x, S.next[y])
           Four == Link(Link(Link(Link(S, S.prev[a], c), c, S.next[a]), S.prev[c], a), a, S.next[c])
           Q == IF S.prev[c] = a THEN Three(a, c) ELSE IF S.prev[a] = c THEN Three(c, a) ELSE Four
           r == Exchanged(s, i, j)
<1>1. /\ B \in Browsers /\ s \in Seq(Items) /\ Distinct(s) /\ Len(s) \in Nat /\ B.lines = Len(s)
      /\ \A m \in 1 .. Len(s) : /\ s[m] \in Items /\ B.next[s[m]] = Nth(s, m + 1)
                                /\ B.prev[s[m]] = Nth(s, m - 1)
      /\ Ring(Onward(B), Backward(B), s) /\ {B.top, B.selection} \subseteq ToSet(s) \union {NULL}
  BY GoodFacts DEF Good
<1>2. a \in Pointers /\ c \in Pointers /\ a # c /\ a \in ToSet(s) /\ c \in ToSet(s)
  BY <1>1, NthFacts, ItemsFacts DEF Distinct
<1>3. R = [Q EXCEPT !.cache = NULL, !.cacheline = 0]
  BY <1>2 DEF swap
<1>4. /\ S \in Browsers /\ S.first = B.first /\ S.last = B.last /\ S.next = B.next /\ S.prev = B.prev
      /\ S.lines = B.lines /\ S.full_height = B.full_height
      /\ S.top \in {B.top, a, c} /\ S.selection \in {B.selection, a, c}
      /\ S.selection = IF B.selection = a THEN c ELSE IF B.selection = c THEN a ELSE B.selection
  BY <1>1, <1>2 DEF swapping, Browsers
<1>5. Onward(S) = Onward(B) /\ Backward(S) = Backward(B)
  BY <1>4 DEF Onward, Backward
<1>6. /\ S.prev[a] = Nth(s, i - 1) /\ S.next[a] = Nth(s, i + 1)
      /\ S.prev[c] = Nth(s, j - 1) /\ S.next[c] = Nth(s, j + 1)
  BY <1>1, <1>4
<1>7. (S.prev[c] = a <=> j = i + 1) /\ (S.prev[a] = c <=> i = j + 1)
  <2>1. a = Nth(s, i) /\ c = Nth(s, j)
    BY <1>1, NthFacts
  <2>0. /\ s \in Seq(Items) /\ Distinct(s) /\ i - 1 \in Int /\ j - 1 \in Int
        /\ i \in Int /\ 1 <= i /\ i <= Len(s) /\ j \in Int /\ 1 <= j /\ j <= Len(s)
    BY <1>1
  <2>5. \A m \in Int : m # i => Nth(s, i) # Nth(s, m)
    BY ONLY <2>0, NthSame
  <2>6. \A m \in Int : m # j => Nth(s, j) # Nth(s, m)
    BY ONLY <2>0, NthSame
  <2>2. j - 1 # i => Nth(s, i) # Nth(s, j - 1)
    BY ONLY <2>0, <2>5
  <2>3. i - 1 # j => Nth(s, j) # Nth(s, i - 1)
    BY ONLY <2>0, <2>6
  <2>4. (j - 1 = i <=> j = i + 1) /\ (i - 1 = j <=> i = j + 1)
    BY <1>1
  <2> QED
    BY <1>6, <2>1, <2>2, <2>3, <2>4
<1>8. \A m \in Int : Nth(s, m) \in Pointers
  BY <1>1, NthFacts
<1>9. i - 1 \in Int /\ i + 1 \in Int /\ j - 1 \in Int /\ j + 1 \in Int
  BY <1>1
<1> HIDE DEF S, a, c
\* Relinking two neighbours x and y, where y comes behind x.
<1>10. ASSUME NEW k \in 1 .. Len(s), k + 1 <= Len(s), NEW T, T = Three(s[k], s[k + 1])
       PROVE  /\ T \in Browsers /\ T.lines = S.lines /\ T.full_height = S.full_height
              /\ T.top = S.top /\ T.selection = S.selection
              /\ Ring(Onward(T), Backward(T), Exchanged(s, k, k + 1))
  <2> DEFINE x == s[k]
             y == s[k + 1]
             p == Nth(s, k - 1)
             n == Nth(s, k + 2)
             L1 == Link(S, p, y)
             L2 == Link(L1, y, x)
             L3 == Link(L2, x, n)
  <2>1. x \in Pointers /\ y \in Pointers /\ p \in Pointers /\ n \in Pointers
    BY <1>1, <1>8, <1>10, ItemsFacts
  <2>2. S.prev[x] = p /\ S.next[y] = n
    <3>1. k + 1 \in 1 .. Len(s) /\ (k + 1) + 1 = k + 2
      <4>1. Len(s) \in Nat
        BY <1>1
      <4> QED
        BY <4>1, <1>10
    <3>2. S.next[s[k + 1]] = Nth(s, (k + 1) + 1) /\ S.prev[s[k]] = Nth(s, k - 1)
      BY <1>1, <1>4, <3>1
    <3> QED
      BY <3>1, <3>2
  <2>3. T = L3
    BY <1>10, <2>2
  <2> HIDE DEF x, y, p, n
  <2>4. Linked(L1, S, p, y)
    BY <1>4, <2>1, LinkFacts
  <2>5. Linked(L2, L1, y, x)
    BY <2>1, <2>4, LinkFacts, LinkedIn
  <2>6. Linked(L3, L2, x, n)
    BY <2>1, <2>5, LinkFacts, LinkedIn
  <2> HIDE DEF L1, L2, L3
  <2>7. /\ T \in Browsers /\ T.lines = S.lines /\ T.full_height = S.full_height
        /\ T.top = S.top /\ T.selection = S.selection
        /\ Onward(T) = [[[Onward(B) EXCEPT ![p] = y] EXCEPT ![y] = x] EXCEPT ![x] = n]
        /\ Backward(T) = [[[Backward(B) EXCEPT ![y] = p] EXCEPT ![x] = y] EXCEPT ![n] = x]
    BY <1>5, <2>3, <2>4, <2>5, <2>6 DEF Linked
  <2>8. Ring([[[Onward(B) EXCEPT ![p] = y] EXCEPT ![y] = x] EXCEPT ![x] = n],
             [[[Backward(B) EXCEPT ![y] = p] EXCEPT ![x] = y] EXCEPT ![n] = x],
             Exchanged(s, k, k + 1))
    BY <1>1, <1>10, RingTypes, RingExchangeNeighbours DEF x, y, p, n
  <2> QED
    BY <2>7, <2>8
<1>11. /\ Q \in Browsers /\ Q.lines = S.lines /\ Q.full_height = S.full_height
       /\ Q.top = S.top /\ Q.selection = S.selection
       /\ Ring(Onward(Q), Backward(Q), r)
  <2>1. CASE j = i + 1
    <3>1. Q = Three(s[i], s[i + 1]) /\ i + 1 <= Len(s) /\ r = Exchanged(s, i, i + 1)
      BY <1>1, <1>7, <2>1 DEF a, c
    <3> HIDE DEF Three, Q, r
    <3> QED
      BY <1>10, <3>1
  <2>2. CASE i = j + 1
    <3>1. Q = Three(s[j], s[j + 1]) /\ j + 1 <= Len(s)
      BY <1>1, <1>7, <2>2 DEF a, c
    <3>2. r = Exchanged(s, j, j + 1)
      BY <1>1, <2>2, ExchangedBack
    <3> HIDE DEF Three, Q, r
    <3> QED
      BY <1>10, <3>1, <3>2
  <2>3. CASE j # i + 1 /\ i # j + 1
    <3> DEFINE pa == Nth(s, i - 1)
               na == Nth(s, i + 1)
               pc == Nth(s, j - 1)
               nc == Nth(s, j + 1)
               L1 == Link(S, pa, c)
               L2 == Link(L1, c, na)
               L3 == Link(L2, pc, a)
               L4 == Link(L3, a, nc)
    <3>1. pa \in Pointers /\ na \in Pointers /\ pc \in Pointers /\ nc \in Pointers
      BY <1>8, <1>9
    <3>2. Q = L4
      BY <1>6, <1>7, <2>3
    <3> HIDE DEF pa, na, pc, nc, Q
    <3>3. Linked(L1, S, pa, c)
      BY <1>2, <1>4, <3>1, LinkFacts
    <3>4. Linked(L2, L1, c, na)
      BY <1>2, <3>1, <3>3, LinkFacts, LinkedIn
    <3>5. Linked(L3, L2, pc, a)
      BY <1>2, <3>1, <3>4, LinkFacts, LinkedIn
    <3>6. Linked(L4, L3, a, nc)
      BY <1>2, <3>1, <3>5, LinkFacts, LinkedIn
    <3> HIDE DEF L1, L2, L3, L4
    <3>7. /\ Q \in Browsers /\ Q.lines = S.lines /\ Q.full_height = S.full_height
          /\ Q.top = S.top /\ Q.selection = S.selection
          /\ Onward(Q) = [[[[Onward(B) EXCEPT ![pa] = c] EXCEPT ![c] = na] EXCEPT ![pc] = a] EXCEPT ![a] = nc]
          /\ Backward(Q) = [[[[Backward(B) EXCEPT ![c] = pa] EXCEPT ![na] = c] EXCEPT ![a] = pc] EXCEPT ![nc] = a]
      BY <1>5, <3>2, <3>3, <3>4, <3>5, <3>6 DEF Linked
    <3>8. Ring([[[[Onward(B) EXCEPT ![pa] = c] EXCEPT ![c] = na] EXCEPT ![pc] = a] EXCEPT ![a] = nc],
               [[[[Backward(B) EXCEPT ![c] = pa] EXCEPT ![na] = c] EXCEPT ![a] = pc] EXCEPT ![nc] = a],
               r)
      BY <1>1, <2>3, RingTypes, RingExchangeApart DEF a, c, pa, na, pc, nc
    <3> QED
      BY <3>7, <3>8
  <2> QED
    BY <2>1, <2>2, <2>3
<1> HIDE DEF Q
<1>12. /\ r \in Seq(Items) /\ Len(r) = Len(s) /\ Distinct(r) /\ ToSet(r) = ToSet(s)
       /\ Nth(r, 0) = NULL
  <2>1. r \in Seq(Items) /\ Len(r) = Len(s) /\ Distinct(r) /\ ToSet(r) = ToSet(s)
    BY <1>1, NthExchanged
  <2> QED
    BY <2>1, NthFacts
<1> HIDE DEF r
<1>13. /\ R \in Browsers /\ R.lines = Len(r) /\ R.full_height = B.full_height
       /\ R.cacheline = 0 /\ R.cache = NULL /\ R.top = S.top /\ R.selection = S.selection
       /\ R.first = Q.first /\ R.last = Q.last /\ R.next = Q.next /\ R.prev = Q.prev
  <2>1. /\ Q \in Browsers /\ Q.lines = Len(r) /\ Q.full_height = B.full_height
        /\ Q.top = S.top /\ Q.selection = S.selection /\ NULL \in Pointers
    BY <1>1, <1>4, <1>11, <1>12, ItemsFacts
  <2>2. R \in Browsers
    <3> HIDE DEF Three, Four
    <3>1. [Q EXCEPT !.cache = NULL, !.cacheline = 0] \in Browsers
      <4>1. 0 \in Nat
        OBVIOUS
      <4> QED
        BY <2>1, <4>1, CacheType
    <3> QED
      BY <1>3, <3>1
  <2>3. /\ R.lines = Q.lines /\ R.full_height = Q.full_height
        /\ R.top = Q.top /\ R.selection = Q.selection
        /\ R.first = Q.first /\ R.last = Q.last /\ R.next = Q.next /\ R.prev = Q.prev
    BY <1>3, <2>1 DEF Browsers
  <2>4. R.cacheline = 0 /\ R.cache = NULL
    BY <1>3, <2>1 DEF Browsers
  <2> QED
    BY <2>1, <2>2, <2>3, <2>4
<1>14. Onward(R) = Onward(Q) /\ Backward(R) = Backward(Q)
  BY <1>13 DEF Onward, Backward
<1>15. {R.top, R.selection} \subseteq ToSet(r) \union {NULL}
  BY <1>1, <1>2, <1>4, <1>12, <1>13
<1>16. R.cacheline \in 0 .. Len(r) /\ R.cache = Nth(r, R.cacheline)
  BY <1>1, <1>12, <1>13
<1>17. Good(R, r)
  BY <1>11, <1>12, <1>13, <1>14, <1>15, <1>16 DEF Good
<1> QED
  BY <1>4, <1>13, <1>17 DEF r, a, c

\* free() of an item that is not in the list does not change the list.
LEMMA FreeFacts ==
  ASSUME NEW B, NEW s, Good(B, s), NEW l \in Items, l \notin ToSet(s)
  PROVE  /\ Good(Free(B, l), s) /\ Free(B, l).full_height = B.full_height
         /\ Free(B, l).selection = B.selection
<1> DEFINE C == Free(B, l)
<1>1. /\ B \in Browsers /\ s \in Seq(Items) /\ Len(s) \in Nat
      /\ Ring(Onward(B), Backward(B), s)
  BY GoodFacts DEF Good
<1>2. /\ C \in Browsers /\ C.first = B.first /\ C.last = B.last /\ C.lines = B.lines
      /\ C.full_height = B.full_height /\ C.cache = B.cache /\ C.cacheline = B.cacheline
      /\ C.top = B.top /\ C.selection = B.selection
      /\ C.next = [B.next EXCEPT ![l] = NULL] /\ C.prev = [B.prev EXCEPT ![l] = NULL]
  BY <1>1, ItemsFacts DEF Free, Browsers
<1> HIDE DEF C
<1>3. \A x \in Pointers : x # l => Onward(C)[x] = Onward(B)[x] /\ Backward(C)[x] = Backward(B)[x]
  <2>1. B.next \in [Items -> Pointers] /\ B.prev \in [Items -> Pointers]
    BY <1>1, FieldTypes
  <2> QED
    BY <1>2, <2>1, ItemsFacts DEF Onward, Backward
<1>4. \A i \in Int : Nth(s, i) \in Pointers /\ Nth(s, i) # l
  BY <1>1, NthFacts, ItemsFacts DEF Nth
<1>5. Ring(Onward(C), Backward(C), s)
  <2> SUFFICES ASSUME NEW i \in 0 .. Len(s)
               PROVE  /\ Onward(C)[Nth(s, i)] = Nth(s, i + 1)
                      /\ Backward(C)[Nth(s, i + 1)] = Nth(s, i)
    BY DEF Ring
  <2>1. i \in Int /\ i + 1 \in Int
    BY <1>1
  <2>2. Onward(B)[Nth(s, i)] = Nth(s, i + 1) /\ Backward(B)[Nth(s, i + 1)] = Nth(s, i)
    BY <1>1 DEF Ring
  <2> QED
    BY <1>3, <1>4, <2>1, <2>2
<1> QED
  BY <1>2, <1>5 DEF Good, C

\* text() of a longer text puts the new item in the place of the old one.
LEMMA ReplaceFacts ==
  ASSUME NEW F, NEW s, Good(F, s), NEW line \in 1 .. Len(s), F.cacheline = line,
         NEW n \in Items, n \notin ToSet(s), NEW R,
         R = Link(Link([replacing(F, s[line], n) EXCEPT !.cache = n], F.prev[s[line]], n),
                  n, F.next[s[line]])
  PROVE  /\ Good(R, [s EXCEPT ![line] = n]) /\ R.full_height = F.full_height
         /\ R.selection = IF F.selection = s[line] THEN n ELSE F.selection
<1> DEFINE l == s[line]
           A == replacing(F, l, n)
           I == [A EXCEPT !.cache = n]
           p == Nth(s, line - 1)
           q == Nth(s, line + 1)
           r == [s EXCEPT ![line] = n]
           K == Link(I, p, n)
           L == Link(K, n, q)
<1>1. /\ F \in Browsers /\ s \in Seq(Items) /\ Distinct(s) /\ Len(s) \in Nat /\ F.lines = Len(s)
      /\ l \in Items /\ F.next[l] = q /\ F.prev[l] = p
  BY GoodFacts
<1>2. Ring(Onward(F), Backward(F), s) /\ {F.top, F.selection} \subseteq ToSet(s) \union {NULL}
  BY DEF Good
<1>3. p \in Pointers /\ q \in Pointers /\ n \in Pointers
  <2>1. line - 1 \in Int /\ line + 1 \in Int
    BY <1>1
  <2> QED
    BY <1>1, <2>1, NthFacts, ItemsFacts
<1>4. R = L
  BY <1>1
<1>5. /\ r \in Seq(Items) /\ Len(r) = Len(s) /\ Distinct(r)
      /\ ToSet(r) = (ToSet(s) \ {l}) \union {n}
  <2>1. r \in Seq(Items) /\ Len(r) = Len(s)
    BY <1>1
  <2>2. Distinct(r)
    BY <1>1, NthReplaced
  <2>3. ToSet(r) = (ToSet(s) \ {l}) \union {n}
    BY <1>1, NthReplaced
  <2> QED
    BY <2>1, <2>2, <2>3
<1>6. Nth(r, line) = n
  BY <1>1 DEF Nth
<1> HIDE DEF l, p, q, r
<1>7. /\ A \in Browsers /\ A.first = F.first /\ A.last = F.last /\ A.next = F.next /\ A.prev = F.prev
      /\ A.lines = F.lines /\ A.full_height = F.full_height /\ A.cacheline = F.cacheline
      /\ A.top = (IF F.top = l THEN n ELSE F.top)
      /\ A.selection = (IF F.selection = l THEN n ELSE F.selection)
  BY <1>1, <1>3 DEF replacing, Browsers
<1> HIDE DEF A
<1>8. /\ I \in Browsers /\ I.first = F.first /\ I.last = F.last /\ I.next = F.next /\ I.prev = F.prev
      /\ I.lines = F.lines /\ I.full_height = F.full_height /\ I.cacheline = F.cacheline
      /\ I.cache = n /\ I.top = A.top /\ I.selection = A.selection
  BY <1>3, <1>7 DEF Browsers
<1> HIDE DEF I
<1>9. Onward(I) = Onward(F) /\ Backward(I) = Backward(F)
  BY <1>8 DEF Onward, Backward
<1>10. Linked(K, I, p, n)
  BY <1>3, <1>8, LinkFacts
<1>11. Linked(L, K, n, q)
  BY <1>3, <1>10, LinkFacts, LinkedIn
<1> HIDE DEF K, L
<1>12. /\ R \in Browsers /\ R.lines = F.lines /\ R.full_height = F.full_height
       /\ R.top = A.top /\ R.selection = A.selection /\ R.cache = n /\ R.cacheline = line
       /\ Onward(R) = [[Onward(F) EXCEPT ![p] = n] EXCEPT ![n] = q]
       /\ Backward(R) = [[Backward(F) EXCEPT ![n] = p] EXCEPT ![q] = n]
  BY <1>4, <1>8, <1>9, <1>10, <1>11 DEF Linked
<1>13. Ring(Onward(R), Backward(R), r)
  <2>1. Ring([[Onward(F) EXCEPT ![p] = n] EXCEPT ![n] = q],
             [[Backward(F) EXCEPT ![n] = p] EXCEPT ![q] = n], r)
    BY <1>1, <1>2, RingTypes, RingReplace DEF p, q, r
  <2> QED
    BY <1>12, <2>1
<1>14. {R.top, R.selection} \subseteq ToSet(r) \union {NULL}
  BY <1>2, <1>5, <1>7, <1>12
<1>15. R.cacheline \in 0 .. Len(r) /\ R.cache = Nth(r, R.cacheline)
  BY <1>1, <1>5, <1>6, <1>12
<1>16. Good(R, r)
  BY <1>1, <1>5, <1>12, <1>13, <1>14, <1>15 DEF Good
<1> QED
  BY <1>7, <1>12, <1>16 DEF r, l
-----------------------------------------------------------------------------
\* sort().  A function that is defined by recursion over the naturals exists, when
\* the step is a function.
Solution(f, D, c, g, n) ==
  /\ f \in [0 .. n -> D]
  /\ \A j \in 0 .. n : f[j] = IF j = 0 THEN c ELSE g[<<j, f[j - 1]>>]

\* A function that is defined by recursion up to n exists.
LEMMA RecExists ==
  ASSUME NEW D, NEW c \in D, NEW g \in [Nat \X D -> D], NEW n \in Nat
  PROVE  \E f : Solution(f, D, c, g, n)
<1> DEFINE Solves(f, m) == \A j \in 0 .. m : f[j] = IF j = 0 THEN c ELSE g[<<j, f[j - 1]>>]
           T == {m \in Nat : \E f \in [0 .. m -> D] : Solves(f, m)}
<1>1. 0 \in T
  <2> DEFINE f == [j \in 0 .. 0 |-> c]
  <2>1. f \in [0 .. 0 -> D] /\ Solves(f, 0)
    OBVIOUS
  <2> QED
    BY <2>1
<1>2. ASSUME NEW m \in Nat, m \in T PROVE m + 1 \in T
  <2>1. PICK f \in [0 .. m -> D] : Solves(f, m)
    BY <1>2
  <2> DEFINE h == [j \in 0 .. m + 1 |-> IF j = m + 1 THEN g[<<m + 1, f[m]>>] ELSE f[j]]
  <2>2. f[m] \in D /\ <<m + 1, f[m]>> \in Nat \X D
    OBVIOUS
  <2>3. g[<<m + 1, f[m]>>] \in D
    BY <2>2
  <2>4. h \in [0 .. m + 1 -> D]
    BY <2>3
  <2>5. \A j \in 0 .. m : h[j] = f[j]
    OBVIOUS
  <2>6. h[m + 1] = g[<<m + 1, h[m]>>]
    <3>1. m \in 0 .. m /\ m + 1 \in 0 .. m + 1
      OBVIOUS
    <3>2. h[m] = f[m]
      BY <2>5, <3>1
    <3>3. h[m + 1] = g[<<m + 1, f[m]>>]
      BY <3>1
    <3> QED
      BY <3>2, <3>3
  <2> HIDE DEF h
  <2>7. ASSUME NEW j \in 0 .. m + 1
        PROVE  h[j] = IF j = 0 THEN c ELSE g[<<j, h[j - 1]>>]
    <3>1. CASE j = m + 1
      BY <2>6, <3>1
    <3>2. CASE j = 0
      <4>1. 0 \in 0 .. m
        OBVIOUS
      <4>2. f[0] = c
        BY <2>1, <4>1
      <4> QED
        BY <2>5, <3>2, <4>1, <4>2
    <3>3. CASE j # m + 1 /\ j # 0
      <4>1. j \in 0 .. m /\ j - 1 \in 0 .. m
        BY <3>3
      <4> QED
        BY <2>1, <2>5, <3>3, <4>1
    <3> QED
      BY <3>1, <3>2, <3>3
  <2> QED
    BY <2>4, <2>7
<1> HIDE DEF T
<1>3. Nat \subseteq T
  BY <1>1, <1>2, NatInduct
<1> QED
  BY <1>3 DEF T, Solution

\* The browsers whose list is made of the items of S, and the states of a round:
\* the item to compare next has one before it.
Over(S, h) ==
  {B \in Browsers : B.full_height = h /\ \E r \in Seq(Items) : Good(B, r) /\ ToSet(r) = S}
Rounds(S, h) ==
  {a \in [B : Browsers, l : Pointers] :
     /\ a.B.full_height = h
     /\ \E r \in Seq(Items) :
          /\ Good(a.B, r) /\ ToSet(r) = S
          /\ a.l = NULL \/ \E m \in 2 .. Len(r) : a.l = r[m]}

\* C has the lines of B, of which those after the m-th are in their old place.
SameBehind(C, B, s, m) ==
  \E r \in Seq(Items) :
    /\ Good(C, r) /\ ToSet(r) = ToSet(s) /\ Len(r) = Len(s) /\ C.full_height = B.full_height
    /\ \A k \in m + 1 .. Len(s) : r[k] = s[k]

\* A comparison of sort() may exchange two neighbours and changes nothing behind them.
LEMMA ComparedFacts ==
  ASSUME NEW B, NEW s, Good(B, s), NEW m \in 2 .. Len(s), NEW descending
  PROVE  SameBehind(Compared(B, s[m], descending), B, s, m)
<1> DEFINE C == Compared(B, s[m], descending)
           r == Exchanged(s, m - 1, m)
<1>1. /\ s \in Seq(Items) /\ Len(s) \in Nat /\ Distinct(s)
      /\ \A k \in 1 .. Len(s) : B.prev[s[k]] = Nth(s, k - 1)
  BY GoodFacts
<1>2. m - 1 \in 1 .. Len(s) /\ m \in 1 .. Len(s) /\ m - 1 # m
  BY <1>1
<1>3. B.prev[s[m]] = s[m - 1]
  BY <1>1, <1>2, NthFacts
<1>4. C = swap(B, s[m - 1], s[m]) \/ C = B
  BY <1>3 DEF Compared
<1> HIDE DEF C
<1>5. CASE C = B
  BY <1>1, <1>5 DEF C, SameBehind
<1>6. CASE C = swap(B, s[m - 1], s[m])
  <2>1. Good(C, r) /\ C.full_height = B.full_height
    BY <1>2, <1>6, SwapFacts
  <2>2. r \in Seq(Items) /\ Len(r) = Len(s) /\ ToSet(r) = ToSet(s)
    BY <1>1, <1>2, NthExchanged
  <2>3. \A k \in m + 1 .. Len(s) : r[k] = s[k]
    BY <1>1, <1>2 DEF Exchanged
  <2> QED
    BY <2>1, <2>2, <2>3 DEF C, SameBehind
<1> QED
  BY <1>4, <1>5, <1>6

\* One comparison, and one step of a round, lead from such a state to another.
RoundStep(a, descending) ==
  IF a.l = NULL THEN a
  ELSE [B |-> Compared(a.B, a.l, descending), l |-> a.B.next[a.l]]

\* A step of a round leaves a list of the same items, and stands in it.
LEMMA RoundStepFacts ==
  ASSUME NEW S, NEW h, NEW descending, NEW a \in Rounds(S, h)
  PROVE  RoundStep(a, descending) \in Rounds(S, h)
<1>1. CASE a.l = NULL
  BY <1>1 DEF RoundStep
<1>2. CASE a.l # NULL
  <2> DEFINE C == Compared(a.B, a.l, descending)
             x == a.B.next[a.l]
             w == [B |-> C, l |-> x]
  <2>1. PICK s \in Seq(Items) : /\ Good(a.B, s) /\ ToSet(s) = S
                                /\ \E m \in 2 .. Len(s) : a.l = s[m]
    BY <1>2 DEF Rounds
  <2>2. PICK m \in 2 .. Len(s) : a.l = s[m]
    BY <2>1
  <2>3. a.B.full_height = h
    BY DEF Rounds
  <2>13. SameBehind(C, a.B, s, m)
    BY <2>1, <2>2, ComparedFacts
  <2>4. PICK r \in Seq(Items) :
           /\ Good(C, r) /\ ToSet(r) = ToSet(s) /\ Len(r) = Len(s)
           /\ C.full_height = a.B.full_height /\ \A k \in m + 1 .. Len(s) : r[k] = s[k]
    BY <2>13 DEF SameBehind
  <2>5. Good(C, r) /\ ToSet(r) = S /\ C.full_height = h
    BY <2>1, <2>2, <2>3, <2>4
  <2>6. x = Nth(s, m + 1) /\ Len(s) \in Nat
    <3>1. Len(s) \in Nat
      BY <2>1, GoodFacts
    <3>2. m \in 1 .. Len(s)
      BY <3>1
    <3> QED
      BY <2>1, <2>2, <3>1, <3>2, GoodFacts
  <2>7. x \in Pointers
    <3>1. m + 1 \in Int
      BY <2>6
    <3> QED
      BY <2>6, <3>1, NthFacts
  <2>8. x = NULL \/ \E k \in 2 .. Len(r) : x = r[k]
    <3>1. CASE m = Len(s)
      BY <2>6, <3>1, NthFacts
    <3>2. CASE m # Len(s)
      <4>1. m + 1 \in 2 .. Len(r) /\ m + 1 \in m + 1 .. Len(s) /\ m + 1 \in 1 .. Len(s)
        BY <2>4, <2>6, <3>2
      <4>2. x = s[m + 1]
        BY <2>6, <4>1, NthFacts
      <4>3. x = r[m + 1]
        BY <2>4, <4>1, <4>2
      <4> QED
        BY <4>1, <4>3
    <3> QED
      BY <3>1, <3>2
  <2>9. C \in Browsers
    BY <2>5, GoodFacts
  <2>10. RoundStep(a, descending) = w
    BY <1>2 DEF RoundStep
  <2> HIDE DEF C, x
  <2>11. w \in [B : Browsers, l : Pointers] /\ w.B = C /\ w.l = x
    BY <2>7, <2>9
  <2> HIDE DEF w
  <2>12. w \in Rounds(S, h)
    BY <2>5, <2>8, <2>11 DEF Rounds
  <2> QED
    BY <2>10, <2>12
<1> QED
  BY <1>1, <1>2

\* The states that a round of i comparisons goes through.
Rounding(at, B, i, descending) ==
  /\ at[0] = [B |-> B, l |-> B.next[B.first]]
  /\ \A j \in 1 .. i : at[j] = RoundStep(at[j - 1], descending)
  /\ \A j \in 0 .. i : at[j].l \in Pointers

\* They exist, leave a list of the same items, and the round ends in the last one.
LEMMA RoundExists ==
  ASSUME NEW S, NEW h, NEW descending, NEW B \in Over(S, h), B.first # NULL, NEW i \in Nat
  PROVE  \E at : /\ Rounding(at, B, i, descending) /\ Round(B, i, descending) = at[i].B
                 /\ at[i] \in Rounds(S, h)
<1> DEFINE D == Rounds(S, h)
           c == [B |-> B, l |-> B.next[B.first]]
           IsRound(f) == f = [j \in 0 .. i |-> IF j = 0 THEN c ELSE RoundStep(f[j - 1], descending)]
           at == CHOOSE f : IsRound(f)
           g == [q \in Nat \X D |-> RoundStep(q[2], descending)]
<1>1. Round(B, i, descending) = at[i].B
  BY DEF Round, RoundStep
<1>2. c \in D
  <2>1. PICK r \in Seq(Items) : Good(B, r) /\ ToSet(r) = S
    BY DEF Over
  <2>2. B \in Browsers /\ B.full_height = h
    BY DEF Over
  <2>3. Len(r) \in Nat /\ B.first = Nth(r, 1)
    BY <2>1, GoodFacts
  <2>4. 1 \in 1 .. Len(r) /\ B.first = r[1]
    BY <2>3, NthFacts
  <2>5. B.next[B.first] = Nth(r, 1 + 1)
    BY <2>1, <2>4, GoodFacts
  <2> DEFINE x == B.next[B.first]
  <2>6. x \in Pointers /\ (x = NULL \/ \E m \in 2 .. Len(r) : x = r[m])
    <3>1. CASE Len(r) = 1
      BY <2>5, <3>1, NthFacts, ItemsFacts
    <3>2. CASE Len(r) # 1
      <4>1. 2 \in 1 .. Len(r) /\ 2 \in 2 .. Len(r)
        <5> DEFINE n == Len(r)
        <5>1. n \in Nat /\ n >= 1 /\ n # 1
          BY <2>3, <2>4, <3>2
        <5> HIDE DEF n
        <5>2. 2 \in 1 .. n /\ 2 \in 2 .. n
          BY <5>1
        <5> QED
          BY <5>2 DEF n
      <4> QED
        BY <2>5, <4>1, NthFacts, ItemsFacts
    <3> QED
      BY <3>1, <3>2
  <2> HIDE DEF x
  <2>7. c = [B |-> B, l |-> x]
    BY DEF x
  <2>8. c \in [B : Browsers, l : Pointers] /\ c.B = B /\ c.l = x
    BY <2>2, <2>6, <2>7
  <2> HIDE DEF c
  <2> QED
    BY <2>1, <2>2, <2>6, <2>8 DEF Rounds
<1> HIDE DEF c, D
<1>3. \A a \in D : RoundStep(a, descending) \in D
  BY RoundStepFacts DEF D
<1>4. g \in [Nat \X D -> D]
  BY <1>3
<1>5. PICK f : Solution(f, D, c, g, i)
  <2> HIDE DEF g
  <2> QED
    BY <1>2, <1>4, RecExists
<1>14. /\ f \in [0 .. i -> D]
       /\ \A j \in 0 .. i : f[j] = IF j = 0 THEN c ELSE g[<<j, f[j - 1]>>]
  <2> HIDE DEF g
  <2> QED
    BY <1>5 DEF Solution
<1>6. IsRound(f)
  <2>1. ASSUME NEW j \in 0 .. i
        PROVE  f[j] = IF j = 0 THEN c ELSE RoundStep(f[j - 1], descending)
    <3>1. CASE j = 0
      BY <1>14, <3>1
    <3>2. CASE j # 0
      <4>1. j - 1 \in 0 .. i /\ j \in Nat
        BY <3>2
      <4>2. f[j - 1] \in D
        BY <1>14, <4>1
      <4>3. <<j, f[j - 1]>> \in Nat \X D
        BY <4>1, <4>2
      <4>4. g[<<j, f[j - 1]>>] = RoundStep(f[j - 1], descending)
        BY <4>3
      <4> QED
        BY <1>14, <3>2, <4>4
    <3> QED
      BY <3>1, <3>2
  <2>2. f = [j \in 0 .. i |-> f[j]]
    BY <1>14
  <2> QED
    BY <2>1, <2>2
<1> HIDE DEF g
<1>7. IsRound(at)
  <2> HIDE DEF IsRound
  <2> QED
    BY <1>6, Zenon DEF at
<1>8. \A j \in 0 .. i : at[j] = IF j = 0 THEN c ELSE RoundStep(at[j - 1], descending)
  BY <1>7
<1> HIDE DEF at, IsRound
<1> DEFINE T == {j \in Nat : j <= i => at[j] \in D}
<1>9. 0 \in T
  BY <1>2, <1>8
<1>10. ASSUME NEW j \in Nat, j \in T PROVE j + 1 \in T
  <2> SUFFICES ASSUME j + 1 <= i PROVE at[j + 1] \in D
    OBVIOUS
  <2>1. at[j] \in D
    BY <1>10
  <2>2. at[j + 1] = RoundStep(at[j], descending)
    <3>1. j + 1 \in 0 .. i /\ j + 1 # 0 /\ (j + 1) - 1 = j
      OBVIOUS
    <3> QED
      BY <1>8, <3>1
  <2> QED
    BY <1>3, <2>1, <2>2
<1> HIDE DEF T
<1>11. Nat \subseteq T
  BY <1>9, <1>10, NatInduct
<1>12. \A j \in 0 .. i : at[j] \in Rounds(S, h)
  BY <1>11 DEF T, D
<1>13. Rounding(at, B, i, descending)
  <2>1. \A j \in 0 .. i : at[j].l \in Pointers
    BY <1>12 DEF Rounds
  <2>2. at[0] = c
    BY <1>8
  <2>3. \A j \in 1 .. i : at[j] = RoundStep(at[j - 1], descending)
    BY <1>8
  <2> QED
    BY <2>1, <2>2, <2>3 DEF Rounding, c
<1> QED
  BY <1>1, <1>12, <1>13

\* A round of sort() leaves a list of the same items.
LEMMA RoundFacts ==
  ASSUME NEW S, NEW h, NEW descending, NEW B \in Over(S, h), B.first # NULL, NEW i \in Nat
  PROVE  Round(B, i, descending) \in Over(S, h)
<1>1. PICK at : Round(B, i, descending) = at[i].B /\ at[i] \in Rounds(S, h)
  BY RoundExists
<1>2. ASSUME NEW a \in Rounds(S, h) PROVE a.B \in Over(S, h)
  BY DEF Rounds, Over
<1> QED
  BY <1>1, <1>2

\* The browsers that n rounds of sort() lead through.
Sorting(after, B, n, descending) ==
  /\ after[0] = B
  /\ \A k \in 1 .. n : after[k] = Round(after[k - 1], n + 1 - k, descending)

\* They exist, hold lists of the same items, and sort() ends in the last one.
LEMMA SortExists ==
  ASSUME NEW B, NEW s, Good(B, s), NEW descending
  PROVE  /\ B.first = NULL => Len(s) = 0 /\ sort(B, descending) = B
         /\ B.first # NULL =>
              \E after : /\ Len(s) >= 1 /\ Sorting(after, B, Len(s) - 1, descending)
                         /\ \A k \in 0 .. Len(s) - 1 :
                              /\ after[k] \in Over(ToSet(s), B.full_height)
                              /\ after[k].first # NULL
                         /\ sort(B, descending) = after[Len(s) - 1]
<1> DEFINE D == Over(ToSet(s), B.full_height)
           n == Len(s) - 1
           IsSort(f) == f = [k \in 0 .. n |-> IF k = 0 THEN B ELSE Round(f[k - 1], n + 1 - k, descending)]
           after == CHOOSE f : IsSort(f)
           g == [q \in Nat \X D |->
                   IF q[1] \in 1 .. n THEN Round(q[2], n + 1 - q[1], descending) ELSE q[2]]
<1>1. /\ B \in Browsers /\ s \in Seq(Items) /\ Len(s) \in Nat /\ B.first = Nth(s, 1)
  BY GoodFacts
<1>2. B \in D
  BY <1>1 DEF Over
<1>3. Listed(B) = s
  BY ListedFacts
<1>4. sort(B, descending) = IF B.first = NULL THEN B ELSE after[n]
  BY <1>3 DEF sort
<1>5. CASE B.first = NULL
  <2>1. Len(s) = 0
    BY <1>1, <1>5, NthFacts
  <2> QED
    BY <1>4, <1>5, <2>1
<1>6. CASE B.first # NULL
  <2>1. n \in Nat /\ 1 \in 1 .. Len(s) /\ ToSet(s) # {}
    BY <1>1, <1>6, NthFacts
  <2> HIDE DEF n
  <2>2. ASSUME NEW C \in D PROVE C.first # NULL
    <3>1. PICK r \in Seq(Items) : Good(C, r) /\ ToSet(r) = ToSet(s)
      BY DEF Over
    <3>2. Len(r) \in Nat /\ C.first = Nth(r, 1)
      BY <3>1, GoodFacts
    <3>3. Len(r) # 0
      BY <2>1, <3>1 DEF ToSet
    <3>4. 1 \in 1 .. Len(r)
      BY <3>2, <3>3
    <3> QED
      BY <3>2, <3>4, NthFacts
  <2>3. \A C \in D : \A k \in 1 .. n : Round(C, n + 1 - k, descending) \in D
    <3>1. ASSUME NEW C \in D, NEW k \in 1 .. n PROVE Round(C, n + 1 - k, descending) \in D
      <4>1. n + 1 - k \in Nat
        BY <2>1
      <4>2. C.first # NULL
        BY <2>2
      <4> QED
        BY <4>1, <4>2, RoundFacts
    <3> QED
      BY <3>1
  <2> HIDE DEF D
  <2>4. g \in [Nat \X D -> D]
    BY <2>3
  <2>5. PICK f : Solution(f, D, B, g, n)
    <3> HIDE DEF g
    <3> QED
      BY <1>2, <2>1, <2>4, RecExists
  <2>6. /\ f \in [0 .. n -> D]
        /\ \A j \in 0 .. n : f[j] = IF j = 0 THEN B ELSE g[<<j, f[j - 1]>>]
    <3> HIDE DEF g
    <3> QED
      BY <2>5 DEF Solution
  <2>7. IsSort(f)
    <3>1. ASSUME NEW j \in 0 .. n
          PROVE  f[j] = IF j = 0 THEN B ELSE Round(f[j - 1], n + 1 - j, descending)
      <4>1. CASE j = 0
        BY <2>6, <4>1
      <4>2. CASE j # 0
        <5>1. j - 1 \in 0 .. n /\ j \in Nat /\ j \in 1 .. n
          BY <2>1, <4>2
        <5>2. f[j - 1] \in D
          BY <2>6, <5>1
        <5>3. <<j, f[j - 1]>> \in Nat \X D
          BY <5>1, <5>2
        <5>4. g[<<j, f[j - 1]>>] = Round(f[j - 1], n + 1 - j, descending)
          BY <5>1, <5>3
        <5> QED
          BY <2>6, <4>2, <5>4
      <4> QED
        BY <4>1, <4>2
    <3>2. f = [j \in 0 .. n |-> f[j]]
      BY <2>6
    <3> QED
      BY <3>1, <3>2
  <2> HIDE DEF g
  <2>8. IsSort(after)
    <3> HIDE DEF IsSort
    <3> QED
      BY <2>7, Zenon DEF after
  <2>9. \A j \in 0 .. n : after[j] = IF j = 0 THEN B ELSE Round(after[j - 1], n + 1 - j, descending)
    BY <2>8
  <2> HIDE DEF after, IsSort
  <2> DEFINE T == {j \in Nat : j <= n => after[j] \in D}
  <2>10. 0 \in T
    BY <1>2, <2>1, <2>9
  <2>11. ASSUME NEW j \in Nat, j \in T PROVE j + 1 \in T
    <3> SUFFICES ASSUME j + 1 <= n PROVE after[j + 1] \in D
      OBVIOUS
    <3>1. after[j] \in D
      BY <2>1, <2>11
    <3>2. j + 1 \in 0 .. n /\ j + 1 # 0 /\ (j + 1) - 1 = j /\ j + 1 \in 1 .. n
      BY <2>1
    <3>3. after[j + 1] = Round(after[j], n + 1 - (j + 1), descending)
      BY <2>9, <3>2
    <3> QED
      BY <2>3, <3>1, <3>2, <3>3
  <2> HIDE DEF T
  <2>12. Nat \subseteq T
    BY <2>10, <2>11, NatInduct
  <2>13. \A k \in 0 .. n : after[k] \in D /\ after[k].first # NULL
    BY <2>1, <2>2, <2>12 DEF T
  <2>14. Sorting(after, B, n, descending)
    BY <2>1, <2>9 DEF Sorting
  <2>15. sort(B, descending) = after[n]
    BY <1>4, <1>6
  <2>16. Len(s) >= 1
    BY <2>1
  <2> QED
    BY <1>6, <2>13, <2>14, <2>15, <2>16 DEF D, n
<1> QED
  BY <1>5, <1>6

\* sort() leaves a list of the same items.
LEMMA SortFacts ==
  ASSUME NEW B, NEW s, Good(B, s), NEW descending
  PROVE  sort(B, descending) \in Over(ToSet(s), B.full_height)
<1>1. B \in Browsers /\ s \in Seq(Items) /\ Len(s) \in Nat
  BY GoodFacts
<1>2. CASE B.first = NULL
  <2>1. sort(B, descending) = B
    BY <1>2, SortExists
  <2> QED
    BY <1>1, <2>1 DEF Over
<1>3. CASE B.first # NULL
  <2>1. PICK after : /\ Len(s) >= 1 /\ sort(B, descending) = after[Len(s) - 1]
                     /\ \A k \in 0 .. Len(s) - 1 : after[k] \in Over(ToSet(s), B.full_height)
    BY <1>3, SortExists
  <2>2. Len(s) - 1 \in 0 .. Len(s) - 1
    BY <1>1, <2>1
  <2> QED
    BY <2>1, <2>2
<1> QED
  BY <1>2, <1>3

\* update_top() and the other changes of the pointers that Fl_Browser_ keeps.
Pointing(B, t, e) == [B EXCEPT !.top = t, !.selection = e]

\* top_ and selection_ may be any items of the list.
LEMMA PointFacts ==
  ASSUME NEW B, NEW s, Good(B, s), NEW t \in ToSet(s) \union {NULL}, NEW e \in ToSet(s) \union {NULL},
         NEW C, C = Pointing(B, t, e)
  PROVE  Good(C, s) /\ C.full_height = B.full_height /\ C.selection = e
<1>1. /\ B \in Browsers /\ s \in Seq(Items)
      /\ B.cacheline \in 0 .. Len(s) /\ B.cache = Nth(s, B.cacheline)
  BY DEF Good
<1>2. t \in Pointers /\ e \in Pointers
  <2>1. ToSet(s) \subseteq Items
    BY <1>1 DEF ToSet
  <2> QED
    BY <2>1, ItemsFacts
<1>3. /\ C \in Browsers /\ C.cache = B.cache /\ C.cacheline = B.cacheline
      /\ C.first = B.first /\ C.last = B.last /\ C.next = B.next /\ C.prev = B.prev
      /\ C.lines = B.lines /\ C.top = t /\ C.selection = e
      /\ C.full_height = B.full_height
  BY <1>1, <1>2 DEF Browsers, Pointing
<1>4. Good(C, s)
  BY <1>1, <1>3, SameList
<1> QED
  BY <1>3, <1>4

\* update_top() makes an item of the list the top one.
LEMMA TopFacts ==
  ASSUME NEW B, NEW s, Good(B, s), NEW U \in update_top(B)
  PROVE  Good(U, s) /\ U.full_height = B.full_height /\ U.selection = B.selection
<1>1. Listed(B) = s /\ B \in Browsers
  BY ListedFacts, GoodFacts
<1>2. PICK l \in ToSet(s) \union {NULL} : U = [B EXCEPT !.top = l]
  BY <1>1 DEF update_top
<1>3. B.selection \in ToSet(s) \union {NULL}
  BY DEF Good
<1>4. U = Pointing(B, l, B.selection)
  BY <1>1, <1>2 DEF Browsers, Pointing
<1>5. Good(U, s)
  BY <1>3, <1>4, PointFacts
<1>6. U.full_height = B.full_height /\ U.selection = B.selection
  BY <1>1, <1>2 DEF Browsers
<1> QED
  BY <1>5, <1>6
-----------------------------------------------------------------------------
\* The operations keep the invariant.
LEMMA IsFacts ==
  ASSUME NEW s, Is(s)
  PROVE  /\ Good(b, s) /\ s \in Seq(Items) /\ Len(s) \in Nat /\ Distinct(s)
         /\ b \in Browsers /\ b.lines = Len(s) /\ Len(s) <= MaxLines
         /\ ToSet(s) = allocated /\ IsFiniteSet(allocated) /\ allocated \subseteq Items
         /\ bline \in [Items -> BLINE] /\ b.full_height \in Int
         /\ Spacing = 0 => b.full_height = Cardinality(Shown(bline, allocated))
         /\ IsFiniteSet(Shown(bline, allocated)) /\ Cardinality(Shown(bline, allocated)) \in Nat
<1>1. /\ Good(b, s) /\ ToSet(s) = allocated /\ b.lines <= MaxLines /\ bline \in [Items -> BLINE]
      /\ Spacing = 0 => b.full_height = Cardinality(Shown(bline, allocated))
  BY DEF Is
<1>2. s \in Seq(Items) /\ Len(s) \in Nat /\ Distinct(s) /\ b \in Browsers /\ b.lines = Len(s)
  BY <1>1, GoodFacts
<1>3. IsFiniteSet(allocated) /\ allocated \subseteq Items
  BY <1>1, <1>2, DistinctLen
<1>4. Shown(bline, allocated) \subseteq allocated
  BY DEF Shown
<1>5. IsFiniteSet(Shown(bline, allocated)) /\ Cardinality(Shown(bline, allocated)) \in Nat
  BY <1>3, <1>4, FS_Subset, FS_CardinalityType
<1>6. b.full_height \in Int
  BY <1>2, FieldTypes
<1> QED
  BY <1>1, <1>2, <1>3, <1>5, <1>6

\* What an operation has to establish of the list r that it leaves.
LEMMA Established ==
  ASSUME NEW r, Good(b', r), ToSet(r) = allocated', Len(r) <= MaxLines,
         bline' \in [Items -> BLINE],
         Spacing = 0 => b'.full_height = Cardinality(Shown(bline', allocated'))
  PROVE  IInv'
<1>1. r \in Seq(Items) /\ b'.lines = Len(r)
  BY GoodFacts
<1>2. Is(r)'
  BY <1>1 DEF Is
<1> QED
  BY <1>1, <1>2 DEF IInv

\* An operation that neither allocates nor changes an item.
LEMMA Quiet ==
  ASSUME NEW s, Is(s), NEW r, Good(b', r), ToSet(r) = ToSet(s),
         b'.full_height = b.full_height, UNCHANGED <<bline, allocated>>
  PROVE  IInv'
<1>1. /\ s \in Seq(Items) /\ Distinct(s) /\ Len(s) <= MaxLines /\ ToSet(s) = allocated
      /\ bline \in [Items -> BLINE]
      /\ Spacing = 0 => b.full_height = Cardinality(Shown(bline, allocated))
  BY IsFacts
<1>2. r \in Seq(Items) /\ Distinct(r)
  BY GoodFacts
<1>3. Len(r) = Len(s)
  BY <1>1, <1>2, DistinctLen
<1> QED
  BY <1>1, <1>3, Established

\* insert() and add() preserve the invariant, when the line is not behind the end.
LEMMA InsertStep ==
  ASSUME NEW s, Is(s), Beyond = 0, NEW line \in Int, NEW t \in Texts, NEW l \in Items, Insert(line, t, l)
  PROVE  IInv'
<1> DEFINE r == InsertAt(s, line, l)
<1>1. /\ Good(b, s) /\ s \in Seq(Items) /\ Len(s) \in Nat /\ Distinct(s) /\ b.lines = Len(s)
      /\ ToSet(s) = allocated /\ bline \in [Items -> BLINE]
      /\ Spacing = 0 => b.full_height = Cardinality(Shown(bline, allocated))
      /\ b.full_height \in Int /\ IsFiniteSet(Shown(bline, allocated)) /\ Cardinality(Shown(bline, allocated)) \in Nat
  BY IsFacts
<1>2. /\ b.lines < MaxLines /\ line \in 1 .. b.lines + 1 + Beyond /\ l \notin allocated
      /\ allocated' = allocated \union {l} /\ b' = insert(b, line, l, 1)
      /\ bline' = [bline EXCEPT ![l] = [text |-> t, length |-> t, hidden |-> FALSE]]
  BY DEF Insert
<1>3. line \in 1 .. Len(s) + 1
  BY <1>1, <1>2
<1>4. Good(b', r) /\ b'.full_height = b.full_height + (1 + Spacing)
  BY <1>1, <1>2, <1>3, InsertFacts
<1>5. ToSet(r) = allocated' /\ Len(r) = Len(s) + 1
  BY <1>1, <1>2, <1>3, InsertAtSet, InsertAtFacts
<1>6. Len(r) <= MaxLines
  BY <1>1, <1>2, <1>5, BrowserAssumption
<1>7. bline' \in [Items -> BLINE]
  BY <1>1, <1>2, BrowserAssumption DEF BLINE
<1>8. Shown(bline', allocated') = Shown(bline, allocated) \union {l} /\ l \notin Shown(bline, allocated)
  <2>1. \A x \in Items : bline'[x] = IF x = l THEN [text |-> t, length |-> t, hidden |-> FALSE] ELSE bline[x]
    BY <1>1, <1>2
  <2>2. allocated \subseteq Items
    BY IsFacts
  <2>3. ~bline'[l].hidden
    BY <2>1
  <2> QED
    BY <1>2, <2>1, <2>2, <2>3 DEF Shown
<1>9. Cardinality(Shown(bline', allocated')) = Cardinality(Shown(bline, allocated)) + 1
  BY <1>1, <1>8, FS_AddElement
<1>10. Spacing = 0 => b'.full_height = Cardinality(Shown(bline', allocated'))
  BY <1>1, <1>4, <1>9
<1> QED
  BY <1>4, <1>5, <1>6, <1>7, <1>10, Established

\* remove() preserves the invariant.
LEMMA RemoveStep ==
  ASSUME NEW s, Is(s), NEW line \in Int, RemoveLine(line)
  PROVE  IInv'
<1> DEFINE r == RemoveAt(s, line)
           l == s[line]
<1>1. /\ Good(b, s) /\ s \in Seq(Items) /\ Len(s) \in Nat /\ Distinct(s) /\ b.lines = Len(s)
      /\ ToSet(s) = allocated /\ bline \in [Items -> BLINE] /\ allocated \subseteq Items
      /\ (Spacing = 0 => b.full_height = Cardinality(Shown(bline, allocated))) /\ Len(s) <= MaxLines
      /\ b.full_height \in Int
      /\ IsFiniteSet(Shown(bline, allocated)) /\ Cardinality(Shown(bline, allocated)) \in Nat
  BY IsFacts
<1>2. line \in 1 .. Len(s)
  BY <1>1 DEF RemoveLine, Lines
<1>3. find_line(b, line).cache = l /\ l \in Items /\ l \in allocated
  <2>1. find_line(b, line).cache = l
    BY <1>1, <1>2, FindFacts
  <2> QED
    BY <1>1, <1>2, <2>1, NthFacts
<1>4. /\ \E shown \in displayed(b, l) : b' = Free(_remove(b, line, shown), l)
      /\ bline' = [bline EXCEPT ![l] = Blank] /\ allocated' = allocated \ {l}
  BY <1>3 DEF RemoveLine
<1>5. PICK shown : b' = Free(_remove(b, line, shown), l)
  BY <1>4
<1> HIDE DEF l
<1> DEFINE R == _remove(b, line, shown)
<1>6. Good(R, r) /\ R.full_height = b.full_height - (item_height(l) + Spacing)
  BY <1>1, <1>2, RemoveFacts DEF l
<1>7. /\ ToSet(s) = ToSet(r) \union {l} /\ l \notin ToSet(r) /\ Len(r) = Len(s) - 1
  BY <1>1, <1>2, RemoveAtSet, RemoveAtFacts DEF l
<1> HIDE DEF R, r
<1>8. Good(b', r) /\ b'.full_height = R.full_height
  BY <1>3, <1>5, <1>6, <1>7, FreeFacts DEF R
<1>9. ToSet(r) = allocated' /\ Len(r) <= MaxLines
  BY <1>1, <1>4, <1>7, BrowserAssumption
<1>10. bline' \in [Items -> BLINE]
  BY <1>1, <1>4 DEF BLINE, Blank
<1>11. Shown(bline', allocated') = Shown(bline, allocated) \ {l}
  <2>1. \A x \in Items : x # l => bline'[x] = bline[x]
    BY <1>1, <1>4
  <2> QED
    BY <1>1, <1>4, <2>1 DEF Shown
<1>12. item_height(l) = IF l \in Shown(bline, allocated) THEN 1 ELSE 0
  BY <1>1, <1>3 DEF item_height, Shown, BLINE
<1>13. Cardinality(Shown(bline', allocated'))
       = Cardinality(Shown(bline, allocated)) - item_height(l)
  <2> DEFINE S == Shown(bline, allocated)
  <2>1. Cardinality(S \ {l}) = IF l \in S THEN Cardinality(S) - 1 ELSE Cardinality(S)
    <3> HIDE DEF S
    <3> QED
      BY <1>1, FS_RemoveElement DEF S
  <2> QED
    BY <1>1, <1>11, <1>12, <2>1
<1>14. Spacing = 0 => b'.full_height = Cardinality(Shown(bline', allocated'))
  <2>1. item_height(l) \in Int
    BY <1>12
  <2> QED
    BY <1>1, <1>6, <1>8, <1>13, <2>1
<1> QED
  BY <1>8, <1>9, <1>10, <1>14, Established

\* move() preserves the invariant, when the line is not behind the end.
LEMMA MoveStep ==
  ASSUME NEW s, Is(s), Beyond = 0, NEW to \in Int, NEW from \in Int, Move(to, from)
  PROVE  IInv'
<1> DEFINE r == RemoveAt(s, from)
           l == s[from]
           q == InsertAt(r, to, l)
           h == item_height(l)
<1>1. /\ Good(b, s) /\ s \in Seq(Items) /\ Len(s) \in Nat /\ Distinct(s) /\ b.lines = Len(s)
      /\ b \in Browsers
  BY IsFacts
<1>2. from \in 1 .. Len(s) /\ to \in 1 .. Len(s)
  BY <1>1 DEF Move, Lines
<1>3. find_line(b, from).cache = l
  BY <1>1, <1>2, FindFacts
<1>4. PICK shown : b' = insert(_remove(b, from, shown), to, l, h)
  BY <1>3 DEF Move
<1>5. UNCHANGED <<bline, allocated>>
  BY DEF Move
<1> DEFINE R == _remove(b, from, shown)
<1>6. Good(R, r) /\ R.full_height = b.full_height - (h + Spacing)
  BY <1>1, <1>2, RemoveFacts
<1>7. ToSet(s) = ToSet(r) \union {l} /\ l \notin ToSet(r) /\ r \in Seq(Items) /\ Len(r) = Len(s) - 1
  BY <1>1, <1>2, RemoveAtSet, RemoveAtFacts
<1>8. h \in Int /\ l \in Items /\ b.full_height \in Int
  <2>1. h \in Int
    BY DEF item_height
  <2>2. b.full_height \in Int
    BY <1>1, FieldTypes
  <2> QED
    BY <1>1, <1>2, <2>1, <2>2
<1> HIDE DEF R, r, l, h
<1>9. to \in 1 .. Len(r) + 1
  BY <1>1, <1>2, <1>7
<1>10. Good(b', q) /\ b'.full_height = R.full_height + (h + Spacing)
  <2>1. b' = insert(R, to, l, h)
    BY <1>4 DEF R
  <2>2. Good(b', InsertAt(r, to, l))
    BY <1>6, <1>7, <1>8, <1>9, <2>1, InsertFacts
  <2>3. b'.full_height = R.full_height + (h + Spacing)
    BY <1>6, <1>7, <1>8, <1>9, <2>1, InsertFacts
  <2> QED
    BY <2>2, <2>3
<1>11. ToSet(q) = ToSet(s)
  BY <1>7, <1>8, <1>9, InsertAtSet
<1>12. b'.full_height = b.full_height
  BY <1>6, <1>8, <1>10, BrowserAssumption
<1> HIDE DEF q
<1> QED
  BY <1>5, <1>10, <1>11, <1>12, Quiet

\* text() preserves the invariant, also when it allocates a new item.
LEMMA TextStep ==
  ASSUME NEW s, Is(s), NEW line \in Int, NEW t \in Texts, NEW n \in Items, Text(line, t, n)
  PROVE  IInv'
<1> DEFINE F == find_line(b, line)
           l == s[line]
           S == Shown(bline, allocated)
<1>1. /\ Good(b, s) /\ s \in Seq(Items) /\ Len(s) \in Nat /\ Distinct(s) /\ b.lines = Len(s)
      /\ ToSet(s) = allocated /\ bline \in [Items -> BLINE] /\ allocated \subseteq Items
      /\ (Spacing = 0 => b.full_height = Cardinality(S)) /\ Len(s) <= MaxLines
      /\ b.full_height \in Int
      /\ IsFiniteSet(S) /\ Cardinality(S) \in Nat
  BY IsFacts
<1>2. line \in 1 .. Len(s) /\ n \notin allocated
  BY <1>1 DEF Text, Lines
<1>3. Good(F, s) /\ F.cache = l /\ F.cacheline = line /\ F.full_height = b.full_height
  BY <1>1, <1>2, FindFacts
<1>4. l \in Items /\ l \in allocated /\ l # n /\ t \in Nat
  BY <1>1, <1>2, NthFacts, BrowserAssumption
<1>5. CASE t <= bline[l].length
  <2>1. b' = F /\ bline' = [bline EXCEPT ![l].text = t] /\ UNCHANGED allocated
    BY <1>3, <1>5 DEF Text
  <2>2. bline' \in [Items -> BLINE] /\ \A x \in Items : bline'[x].hidden = bline[x].hidden
    BY <1>1, <1>4, <2>1 DEF BLINE
  <2>3. Shown(bline', allocated') = S
    BY <1>1, <2>1, <2>2 DEF Shown
  <2> HIDE DEF F, S
  <2> QED
    BY <1>1, <1>3, <2>1, <2>2, <2>3, Established
<1>6. CASE ~(t <= bline[l].length)
  <2> DEFINE R == Link(Link([replacing(F, l, n) EXCEPT !.cache = n], F.prev[l], n), n, F.next[l])
             r == [s EXCEPT ![line] = n]
             new == [bline[l] EXCEPT !.text = t, !.length = t]
  <2>1. /\ b' = Free(R, l) /\ allocated' = (allocated \ {l}) \union {n}
        /\ bline' = [bline EXCEPT ![n] = new, ![l] = Blank]
    BY <1>3, <1>6 DEF Text
  <2>2. Good(R, r) /\ R.full_height = F.full_height
    <3> HIDE DEF F
    <3> QED
      BY <1>1, <1>2, <1>3, ReplaceFacts
  <2>3. ToSet(r) = (ToSet(s) \ {l}) \union {n} /\ Len(r) = Len(s)
    <3>1. Len(r) = Len(s)
      BY <1>1
    <3>2. ToSet(r) = (ToSet(s) \ {l}) \union {n}
      BY <1>1, <1>2, NthReplaced
    <3> QED
      BY <3>1, <3>2
  <2> HIDE DEF F, R, r, l
  <2>4. Good(b', r) /\ b'.full_height = b.full_height
    <3>1. l \notin ToSet(r)
      BY <1>4, <2>3
    <3>2. Good(Free(R, l), r) /\ Free(R, l).full_height = R.full_height
      BY <1>4, <2>2, <3>1, FreeFacts
    <3> QED
      BY <1>3, <2>1, <2>2, <3>2
  <2>5. new \in BLINE /\ new.hidden = bline[l].hidden
    BY <1>1, <1>4 DEF BLINE
  <2> HIDE DEF new
  <2>6. /\ bline' \in [Items -> BLINE]
        /\ \A x \in Items : bline'[x] = IF x = l THEN Blank ELSE IF x = n THEN new ELSE bline[x]
    <3>1. Blank \in BLINE
      BY DEF Blank, BLINE
    <3> QED
      BY <1>1, <1>4, <2>1, <2>5, <3>1
  <2>7. Shown(bline', allocated') = IF l \in S THEN (S \ {l}) \union {n} ELSE S
    BY <1>1, <1>2, <1>4, <2>1, <2>5, <2>6 DEF Shown
  <2>8. n \notin S
    BY <1>2 DEF Shown
  <2> HIDE DEF S
  <2>9. Cardinality(Shown(bline', allocated')) = Cardinality(S)
    <3>1. CASE l \in S
      <4>1. IsFiniteSet(S \ {l}) /\ Cardinality(S \ {l}) = Cardinality(S) - 1
        BY <1>1, <3>1, FS_RemoveElement
      <4>2. n \notin S \ {l}
        BY <2>8
      <4>3. Cardinality((S \ {l}) \union {n}) = Cardinality(S \ {l}) + 1
        BY <4>1, <4>2, FS_AddElement
      <4> QED
        BY <1>1, <2>7, <3>1, <4>1, <4>3
    <3>2. CASE l \notin S
      BY <2>7, <3>2
    <3> QED
      BY <3>1, <3>2
  <2> QED
    BY <1>1, <2>1, <2>3, <2>4, <2>6, <2>9, Established
<1> QED
  BY <1>5, <1>6

\* The height may be any.
LEMMA HeightFacts ==
  ASSUME NEW B, NEW s, Good(B, s), NEW h \in Int, NEW C, C = [B EXCEPT !.full_height = h]
  PROVE  Good(C, s) /\ C.full_height = h /\ C.selection = B.selection
<1>1. /\ B \in Browsers /\ B.cacheline \in 0 .. Len(s) /\ B.cache = Nth(s, B.cacheline)
      /\ {B.top, B.selection} \subseteq ToSet(s) \union {NULL}
  BY DEF Good
<1>2. /\ C \in Browsers /\ C.cache = B.cache /\ C.cacheline = B.cacheline
      /\ C.first = B.first /\ C.last = B.last /\ C.next = B.next /\ C.prev = B.prev
      /\ C.lines = B.lines /\ C.top = B.top /\ C.selection = B.selection
      /\ C.full_height = h
  BY <1>1 DEF Browsers
<1>3. Good(C, s)
  BY <1>1, <1>2, SameList
<1> QED
  BY <1>2, <1>3

\* show() and hide() preserve the invariant.
LEMMA DisplayStep ==
  ASSUME NEW s, Is(s), NEW line \in Int, NEW val \in BOOLEAN, Display(line, val)
  PROVE  IInv'
<1> DEFINE F == find_line(b, line)
           l == s[line]
           S == Shown(bline, allocated)
<1>1. /\ Good(b, s) /\ s \in Seq(Items) /\ Len(s) \in Nat /\ Distinct(s) /\ b.lines = Len(s)
      /\ ToSet(s) = allocated /\ bline \in [Items -> BLINE] /\ allocated \subseteq Items
      /\ (Spacing = 0 => b.full_height = Cardinality(S)) /\ Len(s) <= MaxLines
      /\ b.full_height \in Int
      /\ IsFiniteSet(S) /\ Cardinality(S) \in Nat
  BY IsFacts
<1>2. line \in 1 .. Len(s) /\ allocated' = allocated
  BY <1>1 DEF Display, Lines
<1>3. Good(F, s) /\ F.cache = l /\ F.full_height = b.full_height
  BY <1>1, <1>2, FindFacts
<1>4. l \in Items /\ l \in allocated
  BY <1>1, <1>2, NthFacts
<1>5. CASE bline[l].hidden = ~val
  <2>1. b' = F /\ UNCHANGED <<bline, allocated>>
    BY <1>3, <1>5 DEF Display
  <2> HIDE DEF F
  <2> QED
    BY <1>3, <2>1, Quiet
<1>6. CASE ~(bline[l].hidden = ~val)
  <2> DEFINE h == IF val THEN F.full_height + (1 + Spacing) ELSE F.full_height - (1 + Spacing)
  <2>1. /\ b' = [F EXCEPT !.full_height = h]
        /\ bline' = [bline EXCEPT ![l].hidden = ~val]
    BY <1>3, <1>6 DEF Display
  <2>2. bline[l].hidden \in BOOLEAN
    BY <1>1, <1>4 DEF BLINE
  <2>3. bline[l].hidden <=> val
    BY <1>6, <2>2, Zenon
  <2>4. /\ bline' \in [Items -> BLINE] /\ bline'[l].hidden = ~val
        /\ \A x \in Items : x # l => bline'[x] = bline[x]
    BY <1>1, <1>4, <2>1 DEF BLINE
  <2>5. val => l \notin S /\ Shown(bline', allocated') = S \union {l}
    BY <1>1, <1>2, <1>4, <2>3, <2>4 DEF Shown
  <2>6. ~val => l \in S /\ Shown(bline', allocated') = S \ {l}
    BY <1>1, <1>2, <1>4, <2>3, <2>4 DEF Shown
  <2> HIDE DEF F, S
  <2>7. h \in Int /\ (Spacing = 0 => h = Cardinality(Shown(bline', allocated')))
    <3>1. CASE val
      <4>1. Cardinality(S \union {l}) = Cardinality(S) + 1
        BY <1>1, <2>5, <3>1, FS_AddElement
      <4>2. Shown(bline', allocated') = S \union {l}
        BY <2>5, <3>1
      <4>3. h = F.full_height + (1 + Spacing)
        BY <3>1
      <4>4. /\ Spacing = 0 => F.full_height = Cardinality(S)
            /\ Cardinality(S) \in Nat /\ F.full_height \in Int
        BY <1>1, <1>3
      <4> HIDE DEF h
      <4> QED
        BY <4>1, <4>2, <4>3, <4>4, BrowserAssumption
    <3>2. CASE ~val
      <4>1. Cardinality(S \ {l}) = Cardinality(S) - 1
        BY <1>1, <2>6, <3>2, FS_RemoveElement
      <4>2. Shown(bline', allocated') = S \ {l}
        BY <2>6, <3>2
      <4>3. h = F.full_height - (1 + Spacing)
        BY <3>2
      <4>4. /\ Spacing = 0 => F.full_height = Cardinality(S)
            /\ Cardinality(S) \in Nat /\ F.full_height \in Int
        BY <1>1, <1>3
      <4> HIDE DEF h
      <4> QED
        BY <4>1, <4>2, <4>3, <4>4, BrowserAssumption
    <3> QED
      BY <3>1, <3>2
  <2> HIDE DEF h
  <2>8. Good(b', s) /\ b'.full_height = h
    BY <1>3, <2>1, <2>7, HeightFacts
  <2> QED
    BY <1>1, <1>2, <2>4, <2>7, <2>8, Established
<1> QED
  BY <1>5, <1>6

\* swap() preserves the invariant.
LEMMA SwapStep ==
  ASSUME NEW s, Is(s), NEW i \in Int, NEW j \in Int, Swap(i, j)
  PROVE  IInv'
<1> DEFINE F == find_line(b, i)
           G == find_line(F, j)
<1>1. Good(b, s) /\ s \in Seq(Items) /\ Len(s) \in Nat /\ Distinct(s) /\ b.lines = Len(s)
  BY IsFacts
<1>2. i \in 1 .. Len(s) /\ j \in 1 .. Len(s)
  BY <1>1 DEF Swap, Lines
<1>3. Good(F, s) /\ F.cache = s[i] /\ F.full_height = b.full_height
  BY <1>1, <1>2, FindFacts
<1> HIDE DEF F
<1>4. Good(G, s) /\ G.cache = s[j] /\ G.full_height = b.full_height
  BY <1>2, <1>3, FindFacts
<1>5. b' = swap(G, F.cache, G.cache) /\ UNCHANGED <<bline, allocated>>
  BY DEF Swap, F
<1> HIDE DEF G
<1>6. CASE i = j
  <2>1. b' = G
    BY <1>3, <1>4, <1>5, <1>6 DEF swap
  <2> QED
    BY <1>4, <1>5, <2>1, Quiet
<1>7. CASE i # j
  <2> DEFINE r == Exchanged(s, i, j)
  <2>1. b' = swap(G, s[i], s[j])
    BY <1>3, <1>4, <1>5
  <2>2. Good(b', r) /\ b'.full_height = G.full_height
    BY <1>2, <1>4, <1>7, <2>1, SwapFacts
  <2>3. ToSet(r) = ToSet(s)
    BY <1>1, <1>2, <1>7, NthExchanged
  <2> HIDE DEF r
  <2> QED
    BY <1>4, <1>5, <2>2, <2>3, Quiet
<1> QED
  BY <1>6, <1>7

\* sort() preserves the invariant.
LEMMA SortStep ==
  ASSUME NEW s, Is(s), NEW descending, Sort(descending)
  PROVE  IInv'
<1>1. Good(b, s)
  BY IsFacts
<1>2. b' \in Over(ToSet(s), b.full_height) /\ UNCHANGED <<bline, allocated>>
  BY <1>1, SortFacts DEF Sort
<1>3. PICK r \in Seq(Items) : Good(b', r) /\ ToSet(r) = ToSet(s)
  BY <1>2 DEF Over
<1>4. b'.full_height = b.full_height
  BY <1>2 DEF Over
<1> QED
  BY <1>2, <1>3, <1>4, Quiet

\* select() preserves the invariant.
LEMMA SelectStep ==
  ASSUME NEW s, Is(s), NEW line \in Int, NEW val \in BOOLEAN, Select(line, val)
  PROVE  IInv'
<1> DEFINE F == find_line(b, line)
           l == s[line]
<1>1. Good(b, s) /\ s \in Seq(Items) /\ Len(s) \in Nat /\ b.lines = Len(s)
  BY IsFacts
<1>2. line \in 1 .. Len(s) /\ UNCHANGED <<bline, allocated>>
  BY <1>1 DEF Select, Lines
<1>3. Good(F, s) /\ F.cache = l /\ F.full_height = b.full_height
  BY <1>1, <1>2, FindFacts
<1>4. l \in ToSet(s)
  BY <1>1, <1>2, NthFacts
<1>5. \/ b' = F
      \/ \E U \in update_top(F) : b' = [U EXCEPT !.selection = l]
      \/ b' = [F EXCEPT !.selection = NULL]
  BY <1>3 DEF Select
<1> HIDE DEF F, l
<1>6. ASSUME NEW U, Good(U, s), U.full_height = b.full_height, NEW e \in ToSet(s) \union {NULL},
             b' = [U EXCEPT !.selection = e]
      PROVE  Good(b', s) /\ b'.full_height = b.full_height
  <2>1. U.top \in ToSet(s) \union {NULL} /\ U \in Browsers
    BY <1>6 DEF Good
  <2>2. b' = Pointing(U, U.top, e)
    BY <1>6, <2>1 DEF Pointing, Browsers
  <2> QED
    BY <1>6, <2>1, <2>2, PointFacts
<1>7. Good(b', s) /\ b'.full_height = b.full_height
  <2>1. CASE b' = F
    BY <1>3, <2>1
  <2>2. CASE b' = [F EXCEPT !.selection = NULL]
    BY <1>3, <1>6, <2>2
  <2>3. ASSUME NEW U \in update_top(F), b' = [U EXCEPT !.selection = l]
        PROVE  Good(b', s) /\ b'.full_height = b.full_height
    <3>1. Good(U, s) /\ U.full_height = b.full_height
      BY <1>3, TopFacts
    <3> QED
      BY <1>4, <1>6, <2>3, <3>1
  <2> QED
    BY <1>5, <2>1, <2>2, <2>3
<1> QED
  BY <1>2, <1>7, Quiet

\* deselect() preserves the invariant.
LEMMA DeselectStep ==
  ASSUME NEW s, Is(s), Deselect
  PROVE  IInv'
<1>1. Good(b, s) /\ b \in Browsers /\ b.top \in ToSet(s) \union {NULL}
  BY IsFacts DEF Good
<1>2. b' = Pointing(b, b.top, NULL) /\ UNCHANGED <<bline, allocated>>
  BY <1>1 DEF Deselect, Pointing, Browsers
<1>3. Good(b', s) /\ b'.full_height = b.full_height
  BY <1>1, <1>2, PointFacts
<1> QED
  BY <1>2, <1>3, Quiet

\* The lookups preserve the invariant, although each sets the cached line.
LEMMA LookupStep ==
  ASSUME NEW s, Is(s), NEW line \in Int, Lookup(line)
  PROVE  IInv'
<1>1. Good(b, s) /\ b.lines = Len(s)
  BY IsFacts
<1>2. line \in 1 .. Len(s) /\ b' = find_line(b, line) /\ UNCHANGED <<bline, allocated>>
  BY <1>1 DEF Lookup, Lines
<1>3. Good(b', s) /\ b'.full_height = b.full_height
  BY <1>1, <1>2, FindFacts
<1> QED
  BY <1>2, <1>3, Quiet

\* value() and topline() ask for the number of an item that is in the list.
LEMMA ValueStep ==
  ASSUME NEW s, Is(s), NEW l \in Items, Value(l)
  PROVE  IInv'
<1>1. Good(b, s) /\ s \in Seq(Items)
  BY IsFacts
<1>2. b' = lineno(b, l).B /\ UNCHANGED <<bline, allocated>> /\ l \in {b.selection, b.top}
  BY DEF Value
<1>3. l \in ToSet(s)
  BY <1>1, <1>2, ItemsFacts DEF Good
<1>4. PICK m \in 1 .. Len(s) : l = s[m]
  BY <1>1, <1>3, NthFacts
<1>5. Good(b', s) /\ b'.full_height = b.full_height
  BY <1>1, <1>2, <1>4, LinenoFacts
<1> QED
  BY <1>2, <1>5, Quiet

\* draw() preserves the invariant.
LEMMA DrawStep ==
  ASSUME NEW s, Is(s), Draw
  PROVE  IInv'
<1>1. Good(b, s)
  BY IsFacts
<1>2. b' \in update_top(b) /\ UNCHANGED <<bline, allocated>>
  BY DEF Draw
<1>3. Good(b', s) /\ b'.full_height = b.full_height
  BY <1>1, <1>2, TopFacts
<1> QED
  BY <1>2, <1>3, Quiet

\* textsize() preserves the invariant.
LEMMA TextsizeStep ==
  ASSUME NEW s, Is(s), Textsize
  PROVE  IInv'
<1> DEFINE C == new_list(b)
           n == Cardinality(Shown(bline, allocated))
           h == n + Spacing * Len(s)
<1>1. /\ Good(b, s) /\ b \in Browsers /\ ToSet(s) = allocated /\ n \in Nat
      /\ Len(s) \in Nat /\ Len(s) <= MaxLines /\ bline \in [Items -> BLINE]
  BY IsFacts
<1>2. Listed(b) = s
  BY <1>1, ListedFacts
<1>3. b' = [C EXCEPT !.full_height = h] /\ UNCHANGED <<bline, allocated>>
  BY <1>1, <1>2 DEF Textsize, Shown
<1>4. C = Pointing(b, NULL, NULL)
  BY <1>1 DEF new_list, Pointing
<1> HIDE DEF C, n
<1>5. Good(C, s)
  BY <1>1, <1>4, PointFacts
<1>6. h \in Int /\ (Spacing = 0 => h = n)
  BY <1>1, BrowserAssumption
<1> HIDE DEF h
<1>7. Good(b', s) /\ b'.full_height = h
  BY <1>3, <1>5, <1>6, HeightFacts
<1>8. Spacing = 0 => b'.full_height = Cardinality(Shown(bline', allocated'))
  BY <1>3, <1>6, <1>7 DEF n
<1> QED
  BY <1>1, <1>3, <1>7, <1>8, Established

\* A browser without a line.
Nothing ==
  [first |-> NULL, last |-> NULL, lines |-> 0, full_height |-> 0,
   next |-> [l \in Items |-> NULL], prev |-> [l \in Items |-> NULL],
   cache |-> NULL, cacheline |-> 0, top |-> NULL, selection |-> NULL]

\* Its list is the empty one.
LEMMA NothingFacts ==
  /\ Good(Nothing, <<>>) /\ ToSet(<<>>) = {} /\ Nothing.full_height = 0
  /\ \A bl : Cardinality(Shown(bl, {})) = 0
<1>1. <<>> \in Seq(Items) /\ Len(<<>>) = 0 /\ ToSet(<<>>) = {} /\ Distinct(<<>>)
  BY DEF ToSet, Distinct
<1>2. Nothing \in Browsers
  BY ItemsFacts DEF Nothing, Browsers
<1>3. Nth(<<>>, 0) = NULL /\ Nth(<<>>, 1) = NULL
  BY <1>1 DEF Nth
<1>4. Onward(Nothing)[NULL] = NULL /\ Backward(Nothing)[NULL] = NULL
  BY ItemsFacts DEF Onward, Backward, Nothing
<1>5. Ring(Onward(Nothing), Backward(Nothing), <<>>)
  <2> SUFFICES ASSUME NEW i \in 0 .. 0
               PROVE  /\ Onward(Nothing)[Nth(<<>>, i)] = Nth(<<>>, i + 1)
                      /\ Backward(Nothing)[Nth(<<>>, i + 1)] = Nth(<<>>, i)
    BY <1>1 DEF Ring
  <2>1. i = 0 /\ i + 1 = 1
    OBVIOUS
  <2> QED
    BY <1>3, <1>4, <2>1
<1>6. Good(Nothing, <<>>)
  BY <1>1, <1>2, <1>3, <1>5 DEF Good, Nothing
<1>7. \A bl : Shown(bl, {}) = {}
  BY DEF Shown
<1> QED
  BY <1>1, <1>6, <1>7, FS_EmptySet DEF Nothing

\* clear() preserves the invariant.
LEMMA ClearStep ==
  ASSUME NEW s, Is(s), Clear
  PROVE  IInv'
<1>1. /\ Good(b, s) /\ b \in Browsers /\ ToSet(s) = allocated
  BY IsFacts
<1>2. Listed(b) = s
  BY <1>1, ListedFacts
<1>3. b' = Nothing
  BY <1>1 DEF Clear, new_list, Nothing, Browsers
<1>4. allocated' = {}
  BY <1>1, <1>2 DEF Clear
<1>5. bline' \in [Items -> BLINE]
  BY DEF Clear, Blank, BLINE
<1>6. Len(<<>>) <= MaxLines
  BY BrowserAssumption
<1>7. Good(b', <<>>) /\ ToSet(<<>>) = {} /\ b'.full_height = 0
  BY <1>3, NothingFacts
<1>8. b'.full_height = Cardinality(Shown(bline', allocated'))
  BY <1>4, <1>7, NothingFacts
<1> QED
  BY <1>4, <1>5, <1>6, <1>7, <1>8, Established

\* The invariant holds initially.
LEMMA IInvInit == Init => IInv
<1> SUFFICES ASSUME Init
             PROVE  IInv
  OBVIOUS
<1>1. b = Nothing /\ allocated = {} /\ bline \in [Items -> BLINE]
  BY DEF Init, Nothing, Blank, BLINE
<1>2. Good(b, <<>>) /\ ToSet(<<>>) = {} /\ b.full_height = 0 /\ b.lines = 0
  BY <1>1, NothingFacts DEF Nothing
<1>3. Cardinality(Shown(bline, allocated)) = 0
  BY <1>1, NothingFacts
<1>4. Is(<<>>) /\ <<>> \in Seq(Items)
  BY <1>1, <1>2, <1>3, BrowserAssumption DEF Is
<1> QED
  BY <1>4 DEF IInv

\* Every operation preserves the invariant.
LEMMA IInvNext ==
  ASSUME IInv, Beyond = 0, [Next]_vars
  PROVE  IInv'
<1>1. PICK s \in Seq(Items) : Is(s)
  BY DEF IInv
<1>2. MaxLines \in Nat
  BY BrowserAssumption
<1>3. CASE UNCHANGED vars
  <2>1. UNCHANGED <<b, bline, allocated>>
    BY <1>3 DEF vars
  <2> QED
    BY <1>1, <2>1 DEF IInv, Is
<1>4. CASE Operation
  <2>1. ASSUME NEW t \in Texts, NEW l \in Items, NEW line \in 1 .. MaxLines + Beyond,
               Insert(line, t, l) \/ Text(line, t, l)
        PROVE  IInv'
    <3>1. line \in Int
      BY <1>2
    <3> QED
      BY <1>1, <2>1, <3>1, InsertStep, TextStep
  <2>2. ASSUME NEW i \in 1 .. MaxLines + Beyond, NEW j \in 1 .. MaxLines + Beyond,
               Move(i, j) \/ Swap(i, j)
        PROVE  IInv'
    <3>1. i \in Int /\ j \in Int
      BY <1>2
    <3> QED
      BY <1>1, <2>2, <3>1, MoveStep, SwapStep
  <2>3. ASSUME NEW line \in 1 .. MaxLines, RemoveLine(line) \/ Lookup(line)
        PROVE  IInv'
    <3>1. line \in Int
      BY <1>2
    <3> QED
      BY <1>1, <2>3, <3>1, RemoveStep, LookupStep
  <2>4. ASSUME NEW line \in 1 .. MaxLines, NEW val \in BOOLEAN, Display(line, val) \/ Select(line, val)
        PROVE  IInv'
    <3>1. line \in Int
      BY <1>2
    <3> QED
      BY <1>1, <2>4, <3>1, DisplayStep, SelectStep
  <2>5. ASSUME NEW descending \in BOOLEAN, Sort(descending)
        PROVE  IInv'
    BY <1>1, <2>5, SortStep
  <2>6. ASSUME NEW l \in Items, Value(l)
        PROVE  IInv'
    BY <1>1, <2>6, ValueStep
  <2>7. Deselect \/ Draw \/ Textsize \/ Clear => IInv'
    BY <1>1, DeselectStep, DrawStep, TextsizeStep, ClearStep
  <2> QED
    BY <1>4, <2>1, <2>2, <2>3, <2>4, <2>5, <2>6, <2>7 DEF Operation
<1> QED
  BY <1>3, <1>4 DEF Next
-----------------------------------------------------------------------------
\* In every behaviour of a browser that inserts no line behind the end, the
\* pointers close to a ring, and the cached line, the top one and the selected one
\* are on it.
THEOREM BrowserInvariant == Beyond = 0 /\ Spec => []IInv
<1> DEFINE J == Beyond = 0 /\ IInv
<1>1. Beyond = 0 /\ Init => J
  BY IInvInit
<1>2. J /\ [Next]_vars => J'
  BY IInvNext
<1>3. J => IInv
  OBVIOUS
<1> HIDE DEF J
<1> QED
  BY <1>1, <1>2, <1>3, PTL DEF Spec

\* The invariant says that the list is intact.
LEMMA ListIsIntact ==
  ASSUME IInv
  PROVE  ListIntact
<1>1. PICK s \in Seq(Items) : Is(s)
  BY DEF IInv
<1>2. /\ Good(b, s) /\ Len(s) \in Nat /\ Distinct(s) /\ b \in Browsers /\ b.lines = Len(s)
      /\ Len(s) <= MaxLines /\ ToSet(s) = allocated /\ allocated \subseteq Items
  BY <1>1, IsFacts
<1>3. Listed(b) = s
  BY <1>2, ListedFacts
<1>4. /\ b.last = Nth(s, Len(s)) /\ b.cache = Nth(s, b.cacheline) /\ b.cacheline \in 0 .. Len(s)
      /\ \A i \in 1 .. Len(s) : b.prev[s[i]] = Nth(s, i - 1)
  BY <1>2, GoodFacts
<1>5. TypeOK
  BY <1>2, BrowserAssumption DEF TypeOK, Browsers, Pointers
<1>6. Len(s) = Cardinality(allocated)
  BY <1>2, DistinctLen
<1>7. b.last = IF s = <<>> THEN NULL ELSE Last(s)
  <2>1. CASE s = <<>>
    BY <1>2, <1>4, <2>1 DEF Nth
  <2>2. CASE s # <<>>
    <3>1. Len(s) \in 1 .. Len(s)
      BY <1>2, <2>2
    <3> QED
      BY <1>4, <2>2, <3>1 DEF Nth, Last
  <2> QED
    BY <2>1, <2>2
<1>8. \A n \in DOMAIN s : b.prev[s[n]] = IF n = 1 THEN NULL ELSE s[n - 1]
  <2> SUFFICES ASSUME NEW n \in 1 .. Len(s)
               PROVE  b.prev[s[n]] = IF n = 1 THEN NULL ELSE s[n - 1]
    OBVIOUS
  <2>1. Nth(s, n - 1) = IF n = 1 THEN NULL ELSE s[n - 1]
    BY <1>2 DEF Nth
  <2> QED
    BY <1>4, <2>1
<1>9. {b.top, b.selection, b.cache} \subseteq allocated \union {NULL}
  <2>1. b.top \in allocated \union {NULL} /\ b.selection \in allocated \union {NULL}
    BY <1>2 DEF Good
  <2>2. b.cache \in allocated \union {NULL}
    BY <1>2, <1>4, NthFacts DEF Nth
  <2> QED
    BY <2>1, <2>2
<1> QED
  BY <1>2, <1>3, <1>5, <1>6, <1>7, <1>8, <1>9 DEF ListIntact

\* No item is lost, freed twice or used after free(), whatever a browser of any
\* size did, as long as it inserted no line behind the end.
THEOREM ListStaysIntact == Beyond = 0 /\ Spec => []ListIntact
<1>1. IInv => ListIntact
  BY ListIsIntact
<1> QED
  BY <1>1, BrowserInvariant, PTL

\* full_height() is the height of the lines shown, whatever a browser of any size
\* did, as long as it inserted no line behind the end and has no linespacing().
THEOREM HeightStaysRight == Beyond = 0 /\ Spacing = 0 /\ Spec => []HeightShown
<1>1. Spacing = 0 /\ IInv => HeightShown
  <2> SUFFICES ASSUME Spacing = 0, IInv
               PROVE  HeightShown
    OBVIOUS
  <2>1. PICK s \in Seq(Items) : Is(s)
    BY DEF IInv
  <2>2. /\ b.full_height = Cardinality(Shown(bline, allocated))
        /\ Cardinality(Shown(bline, allocated)) \in Nat
    BY <2>1, IsFacts
  <2>3. (1 + Spacing) * Cardinality(Shown(bline, allocated)) = Cardinality(Shown(bline, allocated))
    BY <2>2
  <2> QED
    BY <2>2, <2>3 DEF HeightShown, Shown
<1> DEFINE J == Beyond = 0 /\ Spacing = 0 /\ IInv
<1>2. Beyond = 0 /\ Spacing = 0 /\ Init => J
  BY IInvInit
<1>3. J /\ [Next]_vars => J'
  BY IInvNext
<1>4. J => HeightShown
  BY <1>1
<1> HIDE DEF J
<1> QED
  BY <1>2, <1>3, <1>4, PTL DEF Spec

\* find_line() and lineno() are right for every line of a browser of any size.
THEOREM LinesFound == Beyond = 0 /\ Spec => []FindsLines
<1>1. IInv => FindsLines
  <2> SUFFICES ASSUME IInv
               PROVE  FindsLines
    OBVIOUS
  <2>1. PICK s \in Seq(Items) : Is(s)
    BY DEF IInv
  <2>2. Good(b, s) /\ Listed(b) = s
    BY <2>1, IsFacts, ListedFacts
  <2>3. ASSUME NEW n \in 1 .. Len(s)
        PROVE  find_line(b, n).cache = s[n] /\ lineno(b, s[n]).n = n
    BY <2>2, FindFacts, LinenoFacts
  <2> QED
    BY <2>2, <2>3 DEF FindsLines
<1> QED
  BY <1>1, BrowserInvariant, PTL
-----------------------------------------------------------------------------
(***************************************************************************)
(* The rows of BrowserRows.  What each operation does to the sequence of   *)
(* items is known from above; sort() needs that its rounds order the       *)
(* items and leave equal ones in their order.                              *)
(***************************************************************************)

\* The items by what sort() orders them by.
Order(descending) == [x \in Items |-> IF descending THEN - bline[x].text ELSE bline[x].text]

\* The items of r that are equal are in the order that they have in s; those behind
\* the n-th are in their final place; the n-th is the biggest of the first n.
Stable(r, s, key) ==
  \A i, j, k, m \in 1 .. Len(s) :
    r[i] = s[k] /\ r[j] = s[m] /\ i < j /\ key[r[i]] = key[r[j]] => k < m
Settled(r, n, key) ==
  \A i, j \in 1 .. Len(r) : i < j /\ n < j => key[r[i]] <= key[r[j]]
Biggest(r, n, key) == \A i \in 1 .. n : key[r[i]] <= key[r[n]]

\* The items of a list with two of them exchanged.
LEMMA ExchangedAt ==
  ASSUME NEW r \in Seq(Items), NEW i \in 1 .. Len(r), NEW j \in 1 .. Len(r), i # j,
         NEW q, q = Exchanged(r, i, j)
  PROVE  /\ Len(q) = Len(r) /\ q[i] = r[j] /\ q[j] = r[i]
         /\ \A k \in 1 .. Len(r) : k # i /\ k # j => q[k] = r[k]
  BY DEF Exchanged

\* Exchanging two neighbours in the wrong order keeps what is sorted already.
LEMMA ExchangeSorts ==
  ASSUME NEW s \in Seq(Items), NEW r \in Seq(Items), Len(r) = Len(s), NEW key \in [Items -> Int],
         NEW m \in 2 .. Len(r), NEW n \in Nat, m <= n,
         Stable(r, s, key), Settled(r, n, key), Biggest(r, m - 1, key),
         key[r[m - 1]] > key[r[m]], NEW q, q = Exchanged(r, m - 1, m)
  PROVE  Stable(q, s, key) /\ Settled(q, n, key) /\ Biggest(q, m, key)
<1> DEFINE N == Len(r)
           Old(i) == IF i = m - 1 THEN m ELSE IF i = m THEN m - 1 ELSE i
<1>1. /\ N \in Nat /\ m \in 2 .. N /\ \A i \in 1 .. N : r[i] \in Items /\ key[r[i]] \in Int
  OBVIOUS
<1>2. m - 1 \in 1 .. N /\ m \in 1 .. N /\ m - 1 # m
  BY <1>1
<1>10. /\ Len(q) = N
       /\ \A i \in 1 .. N : q[i] = IF i = m - 1 THEN r[m] ELSE IF i = m THEN r[m - 1] ELSE r[i]
  <2> DEFINE k == m - 1
  <2>1. k \in 1 .. Len(r) /\ m \in 1 .. Len(r) /\ k # m
    BY <1>2
  <2> HIDE DEF k
  <2>2. q = Exchanged(r, k, m)
    BY DEF k
  <2>3. /\ Len(q) = Len(r) /\ q[k] = r[m] /\ q[m] = r[k]
        /\ \A i \in 1 .. Len(r) : i # k /\ i # m => q[i] = r[i]
    BY <2>1, <2>2, ExchangedAt
  <2> QED
    BY <2>3 DEF k
<1> HIDE DEF N
<1>3. Len(q) = N /\ \A i \in 1 .. N : q[i] = r[Old(i)] /\ Old(i) \in 1 .. N
  BY <1>2, <1>10
<1>4. \A i, j \in 1 .. N : i < j => Old(i) < Old(j) \/ (i = m - 1 /\ j = m)
  BY <1>1, <1>2
<1>5. \A i, j \in 1 .. N : i < j /\ n < j => Old(i) < j /\ Old(j) = j
  BY <1>1, <1>2
<1>6. q[m - 1] = r[m] /\ q[m] = r[m - 1]
  BY <1>2, <1>10
<1>7. Stable(q, s, key)
  <2> SUFFICES ASSUME NEW i \in 1 .. N, NEW j \in 1 .. N, NEW k \in 1 .. N, NEW l \in 1 .. N,
                      q[i] = s[k], q[j] = s[l], i < j, key[q[i]] = key[q[j]]
               PROVE  k < l
    BY DEF Stable, N
  <2>1. Old(i) < Old(j)
    <3>1. ~(i = m - 1 /\ j = m)
      BY <1>1, <1>2, <1>6
    <3> QED
      BY <1>4, <3>1
  <2>2. q[i] = r[Old(i)] /\ q[j] = r[Old(j)] /\ Old(i) \in 1 .. N /\ Old(j) \in 1 .. N
    BY <1>3
  <2> HIDE DEF Old
  <2> QED
    BY <2>1, <2>2 DEF Stable, N
<1>8. Settled(q, n, key)
  <2> SUFFICES ASSUME NEW i \in 1 .. N, NEW j \in 1 .. N, i < j, n < j
               PROVE  key[q[i]] <= key[q[j]]
    BY <1>3 DEF Settled
  <2>1. q[i] = r[Old(i)] /\ q[j] = r[j] /\ Old(i) \in 1 .. N /\ Old(i) < j
    BY <1>3, <1>5
  <2> HIDE DEF Old
  <2> QED
    BY <2>1 DEF Settled, N
<1>9. Biggest(q, m, key)
  <2> SUFFICES ASSUME NEW i \in 1 .. m
               PROVE  key[q[i]] <= key[q[m]]
    BY DEF Biggest
  <2>1. i \in 1 .. N
    BY <1>1
  <2>2. i = m - 1 \/ i = m \/ (i \in 1 .. m - 1 /\ q[i] = r[i])
    BY <1>1, <1>3, <2>1
  <2> HIDE DEF Old
  <2> DEFINE x == key[r[m]]
             y == key[r[m - 1]]
  <2>3. x \in Int /\ y \in Int /\ x < y
    BY <1>1, <1>2
  <2>4. key[q[m - 1]] = x /\ key[q[m]] = y
    BY <1>6
  <2> HIDE DEF x, y
  <2>5. CASE i = m - 1
    BY <2>3, <2>4, <2>5
  <2>6. CASE i = m
    BY <2>3, <2>4, <2>6
  <2>7. CASE i \in 1 .. m - 1 /\ q[i] = r[i]
    BY <1>6, <2>7 DEF Biggest
  <2> QED
    BY <2>2, <2>5, <2>6, <2>7
<1> QED
  BY <1>7, <1>8, <1>9

\* A comparison of neighbours in the right order finds the biggest, too.
LEMMA KeepSorts ==
  ASSUME NEW r \in Seq(Items), NEW key \in [Items -> Int], NEW m \in 2 .. Len(r),
         Biggest(r, m - 1, key), key[r[m - 1]] <= key[r[m]]
  PROVE  Biggest(r, m, key)
<1>1. \A i \in 1 .. Len(r) : key[r[i]] \in Int
  OBVIOUS
<1>2. Len(r) \in Nat /\ m - 1 \in 1 .. Len(r) /\ m \in 1 .. Len(r) /\ 1 .. m \subseteq 1 .. Len(r)
  OBVIOUS
<1> SUFFICES ASSUME NEW i \in 1 .. m
             PROVE  key[r[i]] <= key[r[m]]
  BY DEF Biggest
<1>3. CASE i = m
  BY <1>1, <1>2, <1>3
<1>4. CASE i # m
  <2>1. i \in 1 .. m - 1
    BY <1>2, <1>4
  <2>2. key[r[i]] <= key[r[m - 1]]
    BY <2>1 DEF Biggest
  <2> QED
    BY <1>1, <1>2, <2>2
<1> QED
  BY <1>3, <1>4

\* The biggest of the first is settled at the end of the round.
LEMMA SettleSorts ==
  ASSUME NEW r \in Seq(Items), NEW key \in [Items -> Int], NEW n \in Nat,
         Settled(r, n + 1, key), Biggest(r, n + 1, key)
  PROVE  Settled(r, n, key)
<1> SUFFICES ASSUME NEW i \in 1 .. Len(r), NEW j \in 1 .. Len(r), i < j, n < j
             PROVE  key[r[i]] <= key[r[j]]
  BY DEF Settled
<1>1. CASE j = n + 1
  BY <1>1 DEF Biggest
<1>2. CASE j # n + 1
  BY <1>2 DEF Settled
<1> QED
  BY <1>1, <1>2

\* swap() leaves the selection where it is: it is then another item.
LEMMA SwapStays ==
  ASSUME NEW B, NEW s, Good(B, s), NEW i \in 1 .. Len(s), NEW j \in 1 .. Len(s), i # j,
         NEW R, R = swap(B, s[i], s[j]), NEW v \in Int, Nth(s, v) = B.selection
  PROVE  Nth(Exchanged(s, i, j), v) = R.selection
<1>1. s \in Seq(Items) /\ Distinct(s) /\ Len(s) \in Nat
  BY GoodFacts
<1>2. R.selection = IF B.selection = s[i] THEN s[j] ELSE IF B.selection = s[j] THEN s[i] ELSE B.selection
  BY SwapFacts
<1>3. s[i] = Nth(s, i) /\ s[j] = Nth(s, j)
  BY <1>1, NthFacts
<1>6. \A m \in Int : Nth(Exchanged(s, i, j), m) =
                      IF m = i THEN s[j] ELSE IF m = j THEN s[i] ELSE Nth(s, m)
  BY <1>1, NthExchanged
<1>4. Nth(Exchanged(s, i, j), v) = IF v = i THEN s[j] ELSE IF v = j THEN s[i] ELSE Nth(s, v)
  BY <1>6
<1>5. (v # i => Nth(s, i) # Nth(s, v)) /\ (v # j => Nth(s, j) # Nth(s, v))
  BY <1>1, NthSame
<1> QED
  BY <1>2, <1>3, <1>4, <1>5

\* What a comparison of sort() does.
LEMMA ComparedSorts ==
  ASSUME NEW B, NEW r, Good(B, r), NEW m \in 2 .. Len(r), NEW descending \in BOOLEAN,
         bline \in [Items -> BLINE], NEW key, key = Order(descending)
  PROVE  \/ key[r[m - 1]] <= key[r[m]] /\ Compared(B, r[m], descending) = B
         \/ /\ key[r[m - 1]] > key[r[m]]
            /\ Compared(B, r[m], descending) = swap(B, r[m - 1], r[m])
<1>1. /\ r \in Seq(Items) /\ Len(r) \in Nat
      /\ \A k \in 1 .. Len(r) : r[k] \in Items /\ B.prev[r[k]] = Nth(r, k - 1)
  BY GoodFacts
<1>2. m - 1 \in 1 .. Len(r) /\ m \in 1 .. Len(r)
  BY <1>1
<1> DEFINE x == r[m - 1]
           y == r[m]
<1>3. B.prev[y] = x /\ x \in Items /\ y \in Items
  BY <1>1, <1>2, NthFacts
<1> HIDE DEF x, y
<1>4. /\ bline[x].text \in Nat /\ bline[y].text \in Nat
      /\ key[x] = (IF descending THEN - bline[x].text ELSE bline[x].text)
      /\ key[y] = (IF descending THEN - bline[y].text ELSE bline[y].text)
  BY <1>3 DEF Order, BLINE
<1>5. Compared(B, y, descending) =
        IF key[x] > key[y] THEN swap(B, x, y) ELSE B
  <2>1. (IF descending THEN bline[x].text < bline[y].text ELSE bline[x].text > bline[y].text)
        <=> key[x] > key[y]
    BY <1>4
  <2> QED
    BY <1>3, <2>1 DEF Compared
<1>6. key[x] <= key[y] \/ key[x] > key[y]
  BY <1>4
<1>7. key[x] <= key[y] => ~(key[x] > key[y])
  BY <1>4
<1> QED
  BY <1>5, <1>6, <1>7 DEF x, y

\* The list of C is r, a rearrangement of s that keeps equal items in their order,
\* settled behind the n-th line, with the selection on line v.
Arranged(C, r, s, v, n, key) ==
  /\ Good(C, r) /\ Len(r) = Len(s) /\ ToSet(r) = ToSet(s) /\ Nth(r, v) = C.selection
  /\ Stable(r, s, key) /\ Settled(r, n, key)

\* The state of a round of i comparisons after j of them.
Bubbled(a, s, v, i, j, key) ==
  \E r \in Seq(Items) :
    Arranged(a.B, r, s, v, i + 1, key) /\ a.l = Nth(r, j + 2) /\ Biggest(r, j + 1, key)

\* A comparison takes the biggest item one line further.
LEMMA BubbleStep ==
  ASSUME NEW s \in Seq(Items), NEW v \in Int, NEW i \in Nat, NEW j \in Nat, j < i, i + 1 <= Len(s),
         NEW descending \in BOOLEAN, bline \in [Items -> BLINE], NEW key, key = Order(descending),
         NEW a, Bubbled(a, s, v, i, j, key)
  PROVE  Bubbled(RoundStep(a, descending), s, v, i, j + 1, key)
<1>1. PICK r \in Seq(Items) :
        Arranged(a.B, r, s, v, i + 1, key) /\ a.l = Nth(r, j + 2) /\ Biggest(r, j + 1, key)
  BY DEF Bubbled
<1> DEFINE m == j + 2
           C == Compared(a.B, a.l, descending)
           x == a.B.next[a.l]
           w == RoundStep(a, descending)
<1>2. /\ Good(a.B, r) /\ Len(r) = Len(s) /\ ToSet(r) = ToSet(s) /\ Nth(r, v) = a.B.selection
      /\ Stable(r, s, key) /\ Settled(r, i + 1, key)
  BY <1>1 DEF Arranged
<1>3. /\ Distinct(r) /\ Len(r) \in Nat
      /\ \A k \in 1 .. Len(r) : r[k] \in Items /\ a.B.next[r[k]] = Nth(r, k + 1)
  BY <1>2, GoodFacts
<1>4. /\ m \in 2 .. Len(r) /\ m \in 1 .. Len(r) /\ m - 1 \in 1 .. Len(r) /\ m - 1 # m
      /\ m - 1 = j + 1 /\ i + 1 \in Nat /\ m <= i + 1 /\ m + 1 = (j + 1) + 2 /\ m = (j + 1) + 1
      /\ m + 1 \in Int /\ m + 1 # m /\ m + 1 # m - 1
  BY <1>2, <1>3
<1>5. key \in [Items -> Int]
  BY DEF Order, BLINE
<1>6. a.l = r[m] /\ r[m] # NULL
  BY <1>1, <1>4, NthFacts
<1>7. w = [B |-> C, l |-> x]
  BY <1>6 DEF RoundStep
<1>8. x = Nth(r, m + 1)
  BY <1>3, <1>4, <1>6
<1>9. C = Compared(a.B, r[m], descending)
  BY <1>6
<1> HIDE DEF C, x, w, m
<1>10. w.B = C /\ w.l = x
  BY <1>7
<1>11. Biggest(r, m - 1, key)
  BY <1>1, <1>4
<1>12. CASE key[r[m - 1]] <= key[r[m]] /\ C = a.B
  <2>1. Biggest(r, m, key)
    BY <1>4, <1>5, <1>11, <1>12, KeepSorts
  <2>2. Arranged(w.B, r, s, v, i + 1, key)
    BY <1>1, <1>10, <1>12
  <2>3. w.l = Nth(r, (j + 1) + 2) /\ Biggest(r, (j + 1) + 1, key)
    BY <1>4, <1>8, <1>10, <2>1
  <2> QED
    BY <2>2, <2>3 DEF Bubbled, w
<1>13. CASE key[r[m - 1]] > key[r[m]] /\ C = swap(a.B, r[m - 1], r[m])
  <2> DEFINE q == Exchanged(r, m - 1, m)
  <2>1. Good(C, q)
    BY <1>2, <1>4, <1>13, SwapFacts
  <2>9. r \in Seq(Items) /\ Distinct(r) /\ m - 1 \in 1 .. Len(r) /\ m \in 1 .. Len(r) /\ m - 1 # m
    BY <1>3, <1>4
  <2>2. q \in Seq(Items) /\ Len(q) = Len(r) /\ ToSet(q) = ToSet(r)
    BY <2>9, NthExchanged
  <2>3. Nth(q, v) = C.selection
    BY <1>2, <1>4, <1>13, SwapStays
  <2>4. Stable(q, s, key) /\ Settled(q, i + 1, key) /\ Biggest(q, m, key)
    BY <1>2, <1>4, <1>5, <1>11, <1>13, ExchangeSorts
  <2>5. \A k \in Int : Nth(q, k) = IF k = m - 1 THEN r[m] ELSE IF k = m THEN r[m - 1] ELSE Nth(r, k)
    BY <2>9, NthExchanged
  <2>6. Nth(q, m + 1) = Nth(r, m + 1)
    BY <1>4, <2>5
  <2> HIDE DEF q
  <2>7. Arranged(w.B, q, s, v, i + 1, key)
    BY <1>2, <1>10, <2>1, <2>2, <2>3, <2>4 DEF Arranged
  <2>8. w.l = Nth(q, (j + 1) + 2) /\ Biggest(q, (j + 1) + 1, key)
    BY <1>4, <1>8, <1>10, <2>4, <2>6
  <2> QED
    BY <2>2, <2>7, <2>8 DEF Bubbled, w
<1>14. \/ key[r[m - 1]] <= key[r[m]] /\ C = a.B
       \/ key[r[m - 1]] > key[r[m]] /\ C = swap(a.B, r[m - 1], r[m])
  BY <1>2, <1>4, <1>9, ComparedSorts
<1> QED
  BY <1>12, <1>13, <1>14

\* A round settles one more line.
LEMMA RoundSorts ==
  ASSUME NEW s \in Seq(Items), NEW v \in Int, NEW i \in Nat, i + 1 <= Len(s),
         NEW descending \in BOOLEAN, bline \in [Items -> BLINE], NEW key, key = Order(descending),
         NEW B, NEW r, Arranged(B, r, s, v, i + 1, key), B.first # NULL
  PROVE  \E q \in Seq(Items) : Arranged(Round(B, i, descending), q, s, v, i, key)
<1>1. Good(B, r) /\ ToSet(r) = ToSet(s) /\ Len(r) = Len(s)
  BY DEF Arranged
<1>2. /\ B \in Browsers /\ r \in Seq(Items) /\ Len(r) \in Nat /\ B.first = Nth(r, 1)
      /\ \A k \in 1 .. Len(r) : B.next[r[k]] = Nth(r, k + 1)
  BY <1>1, GoodFacts
<1>3. B \in Over(ToSet(s), B.full_height)
  BY <1>1, <1>2 DEF Over
<1>4. PICK at : Rounding(at, B, i, descending) /\ Round(B, i, descending) = at[i].B
  BY <1>3, RoundExists
<1>5. key \in [Items -> Int]
  BY DEF Order, BLINE
<1>6. Bubbled(at[0], s, v, i, 0, key)
  <2>1. at[0] = [B |-> B, l |-> B.next[B.first]]
    BY <1>4 DEF Rounding
  <2>2. 1 \in 1 .. Len(r) /\ B.first = r[1]
    BY <1>2, NthFacts
  <2>3. B.next[B.first] = Nth(r, 1 + 1)
    BY <1>2, <2>2
  <2>4. at[0].B = B /\ at[0].l = Nth(r, 0 + 2)
    BY <2>1, <2>3
  <2>5. Biggest(r, 0 + 1, key)
    <3>1. key[r[1]] \in Int
      BY <1>2, <1>5, <2>2
    <3> QED
      BY <3>1 DEF Biggest
  <2>6. Arranged(at[0].B, r, s, v, i + 1, key)
    BY <2>4
  <2> QED
    BY <1>2, <2>4, <2>5, <2>6 DEF Bubbled
<1> DEFINE T == {j \in Nat : j <= i => Bubbled(at[j], s, v, i, j, key)}
<1>7. 0 \in T
  BY <1>6
<1>8. ASSUME NEW j \in Nat, j \in T PROVE j + 1 \in T
  <2> SUFFICES ASSUME j + 1 <= i PROVE Bubbled(at[j + 1], s, v, i, j + 1, key)
    OBVIOUS
  <2>1. Bubbled(at[j], s, v, i, j, key) /\ j < i
    BY <1>8
  <2>2. j + 1 \in 1 .. i /\ (j + 1) - 1 = j
    OBVIOUS
  <2>3. at[j + 1] = RoundStep(at[j], descending)
    BY <1>4, <2>2 DEF Rounding
  <2> QED
    BY <2>1, <2>3, BubbleStep
<1> HIDE DEF T
<1>9. Nat \subseteq T
  BY <1>7, <1>8, NatInduct
<1>10. Bubbled(at[i], s, v, i, i, key)
  BY <1>9 DEF T
<1>11. PICK q \in Seq(Items) : Arranged(at[i].B, q, s, v, i + 1, key) /\ Biggest(q, i + 1, key)
  BY <1>10 DEF Bubbled
<1>12. Settled(q, i, key)
  BY <1>5, <1>11, SettleSorts DEF Arranged
<1>13. Arranged(at[i].B, q, s, v, i, key)
  BY <1>11, <1>12 DEF Arranged
<1> QED
  BY <1>4, <1>13

\* sort() orders the items, leaves equal ones in their order and the selection on
\* its line.
LEMMA SortSorts ==
  ASSUME NEW B, NEW s, Good(B, s), NEW v \in Int, Nth(s, v) = B.selection,
         NEW descending \in BOOLEAN, bline \in [Items -> BLINE], NEW key, key = Order(descending)
  PROVE  \E r \in Seq(Items) : Arranged(sort(B, descending), r, s, v, 1, key)
<1>1. s \in Seq(Items) /\ Len(s) \in Nat /\ Distinct(s)
  BY GoodFacts
<1>2. Stable(s, s, key)
  BY <1>1 DEF Stable, Distinct
<1>3. Settled(s, Len(s), key)
  BY <1>1 DEF Settled
<1>4. Arranged(B, s, s, v, Len(s), key)
  BY <1>2, <1>3 DEF Arranged
<1>5. CASE B.first = NULL
  <2>1. Len(s) = 0 /\ sort(B, descending) = B
    BY <1>5, SortExists
  <2>2. Settled(s, 1, key)
    BY <2>1 DEF Settled
  <2>3. Arranged(B, s, s, v, 1, key)
    BY <1>4, <2>2 DEF Arranged
  <2> QED
    BY <1>1, <2>1, <2>3
<1>6. CASE B.first # NULL
  <2> DEFINE n == Len(s) - 1
  <2>1. PICK after : /\ Len(s) >= 1 /\ Sorting(after, B, n, descending)
                     /\ \A k \in 0 .. n : after[k].first # NULL
                     /\ sort(B, descending) = after[n]
    BY <1>6, SortExists
  <2>2. n \in Nat /\ Len(s) = n + 1 /\ n + 1 - 0 = n + 1 /\ n + 1 - n = 1
    BY <1>1, <2>1
  <2> HIDE DEF n
  <2> DEFINE Holds(k) == \E r \in Seq(Items) : Arranged(after[k], r, s, v, n + 1 - k, key)
             T == {k \in Nat : k <= n => Holds(k)}
  <2>3. Holds(0)
    BY <1>1, <1>4, <2>1, <2>2 DEF Sorting
  <2>4. ASSUME NEW k \in Nat, k + 1 <= n, Holds(k) PROVE Holds(k + 1)
    <3> DEFINE i == n + 1 - (k + 1)
    <3>1. i \in Nat /\ i + 1 = n + 1 - k /\ i + 1 <= Len(s) /\ k + 1 \in 1 .. n /\ (k + 1) - 1 = k
          /\ k \in 0 .. n
      BY <2>2, <2>4
    <3>2. PICK r \in Seq(Items) : Arranged(after[k], r, s, v, n + 1 - k, key)
      BY <2>4
    <3>3. Arranged(after[k], r, s, v, i + 1, key) /\ after[k].first # NULL
      BY <2>1, <3>1, <3>2
    <3>4. after[k + 1] = Round(after[k], i, descending)
      BY <2>1, <3>1 DEF Sorting
    <3> HIDE DEF i
    <3>5. \E q \in Seq(Items) : Arranged(Round(after[k], i, descending), q, s, v, i, key)
      BY <1>1, <3>1, <3>3, RoundSorts
    <3> QED
      BY <3>4, <3>5 DEF i
  <2> HIDE DEF Holds
  <2>5. 0 \in T
    BY <2>3
  <2>6. ASSUME NEW k \in Nat, k \in T PROVE k + 1 \in T
    <3>1. k + 1 <= n => k <= n
      BY <2>2
    <3> QED
      BY <2>4, <2>6, <3>1
  <2> HIDE DEF T
  <2>7. Nat \subseteq T
    BY <2>5, <2>6, NatInduct
  <2>8. Holds(n)
    BY <2>2, <2>7 DEF T
  <2> QED
    BY <2>1, <2>2, <2>8 DEF Holds
<1> QED
  BY <1>5, <1>6

\* rows and value are read off the list of items.
Row(bl, l) == [text |-> bl[l].text, hidden |-> bl[l].hidden]
RowsOf(r, bl) == [n \in 1 .. Len(r) |-> Row(bl, r[n])]
Reads(B, bl, rw, vl) ==
  LET L == Listed(B)
  IN  /\ rw = [n \in DOMAIN L |-> [text |-> bl[L[n]].text, hidden |-> bl[L[n]].hidden]]
      /\ vl = SelectInSeq(L, LAMBDA l : l = B.selection)

\* value() is the line of the selected item.
LEMMA ReadsFacts ==
  ASSUME NEW B, NEW s, Good(B, s), NEW bl, NEW rw, NEW vl, Reads(B, bl, rw, vl)
  PROVE  /\ rw = RowsOf(s, bl) /\ vl \in 0 .. Len(s) /\ Nth(s, vl) = B.selection
         /\ \A v \in 0 .. Len(s) : Nth(s, v) = B.selection => v = vl
<1> DEFINE I == {i \in 1 .. Len(s) : s[i] = B.selection}
<1>1. /\ s \in Seq(Items) /\ Len(s) \in Nat /\ Distinct(s) /\ Listed(B) = s
      /\ B.selection \in ToSet(s) \union {NULL}
  BY GoodFacts, ListedFacts DEF Good
<1>2. rw = RowsOf(s, bl)
  BY <1>1 DEF Reads, RowsOf, Row
<1>3. vl = IF I # {} THEN Min(I) ELSE 0
  BY <1>1 DEF Reads, SelectInSeq
<1>4. CASE B.selection = NULL
  <2>1. I = {}
    BY <1>1, <1>4, NthFacts
  <2>2. vl = 0
    BY <1>3, <2>1
  <2>3. \A v \in 1 .. Len(s) : Nth(s, v) # NULL
    BY <1>1, NthFacts
  <2> QED
    BY <1>1, <1>2, <1>4, <2>2, <2>3, NthFacts
<1>5. CASE B.selection # NULL
  <2>1. PICK i \in 1 .. Len(s) : B.selection = s[i]
    BY <1>1, <1>5, NthFacts
  <2>2. I = {i}
    BY <1>1, <2>1 DEF Distinct
  <2>3. vl = i
    BY <1>3, <2>2 DEF Min
  <2>4. B.selection = Nth(s, i)
    BY <1>1, <2>1, NthFacts
  <2>5. ASSUME NEW v \in 0 .. Len(s), Nth(s, v) = B.selection PROVE v = i
    <3>1. i \in Int /\ v \in Int /\ 1 <= i /\ i <= Len(s)
      BY <1>1
    <3> QED
      BY <1>1, <2>4, <2>5, <3>1, NthSame
  <2>6. i \in 0 .. Len(s)
    BY <1>1
  <2> QED
    BY <1>2, <2>3, <2>4, <2>5, <2>6
<1> QED
  BY <1>4, <1>5

\* The rows and the value that an operation leaves.
LEMMA RowsAre ==
  ASSUME NEW r, Good(b', r), NEW v \in 0 .. Len(r), Nth(r, v) = b'.selection,
         Reads(b, bline, rows, value)'
  PROVE  rows' = RowsOf(r, bline') /\ value' = v
<1>1. Reads(b', bline', rows', value')
  OBVIOUS
<1> QED
  BY <1>1, ReadsFacts

\* A row is as the abstract specification has it.
ROW == [text : Nat, hidden : BOOLEAN]

\* The rows are a sequence as long as the list.
LEMMA RowsFacts ==
  ASSUME NEW r \in Seq(Items), NEW bl \in [Items -> BLINE]
  PROVE  /\ RowsOf(r, bl) \in Seq(ROW) /\ Len(RowsOf(r, bl)) = Len(r) /\ Len(r) \in Nat
         /\ DOMAIN RowsOf(r, bl) = 1 .. Len(r)
         /\ \A n \in 1 .. Len(r) : RowsOf(r, bl)[n] = Row(bl, r[n]) /\ r[n] \in Items
<1>1. Len(r) \in Nat /\ \A n \in 1 .. Len(r) : r[n] \in Items
  OBVIOUS
<1>2. \A l \in Items : Row(bl, l) \in ROW
  BY DEF Row, ROW, BLINE
<1> QED
  BY <1>1, <1>2 DEF RowsOf

\* The rows are told by their texts and by what is hidden.
LEMMA RowsEqual ==
  ASSUME NEW r \in Seq(Items), NEW bl \in [Items -> BLINE], NEW w \in Seq(ROW), Len(w) = Len(r),
         \A n \in 1 .. Len(r) : w[n] = Row(bl, r[n])
  PROVE  RowsOf(r, bl) = w
<1>1. /\ RowsOf(r, bl) \in Seq(ROW) /\ Len(RowsOf(r, bl)) = Len(r) /\ Len(r) \in Nat
      /\ \A n \in 1 .. Len(r) : RowsOf(r, bl)[n] = Row(bl, r[n])
  BY RowsFacts
<1> HIDE DEF ROW
<1> QED
  BY <1>1

\* What can be read off the list before an operation.
LEMMA RowsBefore ==
  ASSUME NEW s, Is(s), Reads(b, bline, rows, value)
  PROVE  /\ rows = RowsOf(s, bline) /\ value \in 0 .. Len(s) /\ Nth(s, value) = b.selection
         /\ rows \in Seq(ROW) /\ Len(rows) = Len(s) /\ DOMAIN rows = 1 .. Len(s)
         /\ \A n \in 1 .. Len(s) : rows[n] = Row(bline, s[n]) /\ s[n] \in Items
<1>1. Good(b, s) /\ s \in Seq(Items) /\ bline \in [Items -> BLINE]
  BY IsFacts
<1>2. rows = RowsOf(s, bline) /\ value \in 0 .. Len(s) /\ Nth(s, value) = b.selection
  BY <1>1, ReadsFacts
<1> QED
  BY <1>1, <1>2, RowsFacts

\* An operation that leaves the list, the items and the selection.
LEMMA RowsStay ==
  ASSUME NEW s, Is(s), Reads(b, bline, rows, value), Reads(b, bline, rows, value)',
         Good(b', s), b'.selection = b.selection, bline' = bline
  PROVE  UNCHANGED Rows!vars
<1>1. rows = RowsOf(s, bline) /\ value \in 0 .. Len(s) /\ Nth(s, value) = b.selection
  BY RowsBefore
<1>2. rows' = RowsOf(s, bline') /\ value' = value
  BY <1>1, RowsAre
<1> QED
  BY <1>1, <1>2 DEF Rows!vars

\* An operation that leaves the list and the items selects a line or none.
LEMMA RowsSelect ==
  ASSUME NEW s, Is(s), Reads(b, bline, rows, value), Reads(b, bline, rows, value)',
         Good(b', s), bline' = bline, NEW v \in 0 .. Len(s), Nth(s, v) = b'.selection
  PROVE  Rows!Next
<1>1. rows = RowsOf(s, bline) /\ Len(rows) = Len(s)
  BY RowsBefore
<1>2. rows' = RowsOf(s, bline') /\ value' = v
  BY RowsAre
<1>3. Rows!Select(v) /\ v \in 0 .. Len(rows)
  BY <1>1, <1>2 DEF Rows!Select
<1> QED
  BY <1>3 DEF Rows!Next

\* text(line) and the like, value(), topline() and draw() are no step of the rows.
LEMMA LookupRows ==
  ASSUME NEW s, Is(s), Reads(b, bline, rows, value), Reads(b, bline, rows, value)',
         \/ \E line \in Int : Lookup(line)
         \/ \E l \in Items : Value(l)
         \/ Draw
  PROVE  UNCHANGED Rows!vars
<1>1. Good(b, s) /\ b.lines = Len(s) /\ s \in Seq(Items)
  BY IsFacts
<1>2. ASSUME NEW line \in Int, Lookup(line) PROVE UNCHANGED Rows!vars
  <2>1. line \in 1 .. Len(s) /\ b' = find_line(b, line) /\ bline' = bline
    BY <1>1, <1>2 DEF Lookup, Lines
  <2>2. Good(b', s) /\ b'.selection = b.selection
    BY <1>1, <2>1, FindFacts
  <2> QED
    BY <2>1, <2>2, RowsStay
<1>3. ASSUME NEW l \in Items, Value(l) PROVE UNCHANGED Rows!vars
  <2>1. b' = lineno(b, l).B /\ bline' = bline /\ l \in {b.selection, b.top}
    BY <1>3 DEF Value
  <2>2. l \in ToSet(s)
    BY <1>1, <2>1, ItemsFacts DEF Good
  <2>3. PICK m \in 1 .. Len(s) : l = s[m]
    BY <1>1, <2>2, NthFacts
  <2>4. Good(b', s) /\ b'.selection = b.selection
    BY <1>1, <2>1, <2>3, LinenoFacts
  <2> QED
    BY <2>1, <2>4, RowsStay
<1>4. ASSUME Draw PROVE UNCHANGED Rows!vars
  <2>1. b' \in update_top(b) /\ bline' = bline
    BY <1>4 DEF Draw
  <2>2. Good(b', s) /\ b'.selection = b.selection
    BY <1>1, <2>1, TopFacts
  <2> QED
    BY <2>1, <2>2, RowsStay
<1> QED
  BY <1>2, <1>3, <1>4

\* deselect() and textsize() leave no line selected, clear() leaves no line.
LEMMA ClearRows ==
  ASSUME NEW s, Is(s), Reads(b, bline, rows, value), Reads(b, bline, rows, value)',
         Deselect \/ Textsize \/ Clear
  PROVE  Rows!Next
<1>1. Good(b, s) /\ b \in Browsers /\ s \in Seq(Items) /\ b.top \in ToSet(s) \union {NULL}
  BY IsFacts DEF Good
<1>2. 0 \in 0 .. Len(s) /\ Nth(s, 0) = NULL
  BY <1>1, NthFacts
<1>3. CASE Deselect
  <2>1. b' = Pointing(b, b.top, NULL) /\ bline' = bline
    BY <1>1, <1>3 DEF Deselect, Pointing, Browsers
  <2>2. Good(b', s) /\ b'.selection = NULL
    BY <1>1, <2>1, PointFacts
  <2> QED
    BY <1>2, <2>1, <2>2, RowsSelect
<1>4. CASE Textsize
  <2> DEFINE C == new_list(b)
             h == Cardinality(Shown(bline, allocated)) + Spacing * Len(s)
  <2>1. b' = [C EXCEPT !.full_height = h] /\ bline' = bline /\ h \in Int
    <3>1. /\ Listed(b) = s /\ ToSet(s) = allocated /\ Len(s) \in Nat
          /\ Cardinality(Shown(bline, allocated)) \in Nat
      BY <1>1, ListedFacts, IsFacts
    <3>2. h \in Int
      BY <3>1, BrowserAssumption
    <3> QED
      BY <1>4, <3>1, <3>2 DEF Textsize, Shown
  <2>2. C = Pointing(b, NULL, NULL)
    BY <1>1 DEF new_list, Pointing
  <2> HIDE DEF C, h
  <2>3. Good(C, s) /\ C.selection = NULL
    <3>1. Good(C, s)
      BY <1>1, <2>2, PointFacts
    <3>2. C.selection = NULL
      BY <1>1, <2>2 DEF Pointing, Browsers
    <3> QED
      BY <3>1, <3>2
  <2>4. Good(b', s) /\ b'.selection = NULL
    BY <2>1, <2>3, HeightFacts
  <2> QED
    BY <1>2, <2>1, <2>4, RowsSelect
<1>5. CASE Clear
  <2>1. b' = Nothing
    BY <1>1, <1>5 DEF Clear, new_list, Nothing, Browsers
  <2>2. Good(b', <<>>) /\ b'.selection = NULL
    BY <2>1, NothingFacts DEF Nothing
  <2>3. <<>> \in Seq(Items) /\ Len(<<>>) = 0 /\ 0 \in 0 .. Len(<<>>) /\ Nth(<<>>, 0) = NULL
    BY DEF Nth
  <2>4. rows' = RowsOf(<<>>, bline') /\ value' = 0
    BY <2>2, <2>3, RowsAre
  <2>5. RowsOf(<<>>, bline') = <<>>
    BY <2>3 DEF RowsOf
  <2> QED
    BY <2>4, <2>5 DEF Rows!Next, Rows!Clear
<1> QED
  BY <1>3, <1>4, <1>5

\* select() selects the line, or leaves none selected, or changes nothing.
LEMMA SelectRows ==
  ASSUME NEW s, Is(s), Reads(b, bline, rows, value), Reads(b, bline, rows, value)',
         NEW line \in Int, NEW val \in BOOLEAN, Select(line, val)
  PROVE  Rows!Next \/ UNCHANGED Rows!vars
<1> DEFINE F == find_line(b, line)
           l == s[line]
<1>1. Good(b, s) /\ s \in Seq(Items) /\ Len(s) \in Nat /\ b.lines = Len(s)
  BY IsFacts
<1>2. line \in 1 .. Len(s) /\ bline' = bline
  BY <1>1 DEF Select, Lines
<1>3. Good(F, s) /\ F.cache = l /\ F.selection = b.selection
  BY <1>1, <1>2, FindFacts
<1>4. l \in ToSet(s) /\ Nth(s, line) = l /\ Nth(s, 0) = NULL
  BY <1>1, <1>2, NthFacts
<1>5. \/ b' = F
      \/ \E U \in update_top(F) : b' = [U EXCEPT !.selection = l]
      \/ b' = [F EXCEPT !.selection = NULL]
  BY <1>3 DEF Select
<1> HIDE DEF F, l
<1>6. ASSUME NEW U, Good(U, s), NEW e \in ToSet(s) \union {NULL}, b' = [U EXCEPT !.selection = e],
             NEW v \in 0 .. Len(s), Nth(s, v) = e
      PROVE  Rows!Next
  <2>1. U.top \in ToSet(s) \union {NULL} /\ U \in Browsers
    BY <1>6 DEF Good
  <2>2. b' = Pointing(U, U.top, e)
    BY <1>6, <2>1 DEF Pointing, Browsers
  <2>3. Good(b', s) /\ b'.selection = e
    BY <1>6, <2>1, <2>2, PointFacts
  <2> QED
    BY <1>2, <1>6, <2>3, RowsSelect
<1>7. CASE b' = F
  BY <1>2, <1>3, <1>7, RowsStay
<1>8. CASE b' = [F EXCEPT !.selection = NULL]
  <2>1. 0 \in 0 .. Len(s)
    BY <1>1
  <2> QED
    BY <1>3, <1>4, <1>6, <1>8, <2>1
<1>9. ASSUME NEW U \in update_top(F), b' = [U EXCEPT !.selection = l]
      PROVE  Rows!Next
  <2>1. Good(U, s)
    BY <1>3, TopFacts
  <2>2. line \in 0 .. Len(s)
    BY <1>1, <1>2
  <2> QED
    BY <1>4, <1>6, <1>9, <2>1, <2>2
<1> QED
  BY <1>5, <1>7, <1>8, <1>9

\* The rows of a list with an item more.
LEMMA RowsInserted ==
  ASSUME NEW s \in Seq(Items), NEW bl \in [Items -> BLINE], NEW k \in 1 .. Len(s) + 1, NEW l \in Items,
         NEW w \in Seq(ROW), Len(w) = Len(s), \A n \in 1 .. Len(s) : w[n] = Row(bl, s[n])
  PROVE  RowsOf(InsertAt(s, k, l), bl) = InsertAt(w, k, Row(bl, l))
<1> DEFINE r == InsertAt(s, k, l)
           e == Row(bl, l)
           q == InsertAt(w, k, e)
<1>1. /\ r \in Seq(Items) /\ Len(r) = Len(s) + 1 /\ Len(s) \in Nat
      /\ \A i \in 1 .. Len(s) + 1 : r[i] = IF i < k THEN s[i] ELSE IF i = k THEN l ELSE s[i - 1]
  BY InsertAtFacts
<1>2. e \in ROW
  BY DEF Row, ROW, BLINE
<1> HIDE DEF e, ROW
<1>3. /\ q \in Seq(ROW) /\ Len(q) = Len(s) + 1
      /\ \A i \in 1 .. Len(s) + 1 : q[i] = IF i < k THEN w[i] ELSE IF i = k THEN e ELSE w[i - 1]
  <2>1. \A p \in 1 .. Len(w) + 1 :
          /\ InsertAt(w, p, e) \in Seq(ROW) /\ Len(InsertAt(w, p, e)) = Len(w) + 1
          /\ \A i \in 1 .. Len(w) + 1 :
               InsertAt(w, p, e)[i] = IF i < p THEN w[i] ELSE IF i = p THEN e ELSE w[i - 1]
    BY <1>2, InsertAtFacts
  <2> QED
    BY <2>1
<1> HIDE DEF r, q
<1>4. ASSUME NEW n \in 1 .. Len(s) + 1 PROVE q[n] = Row(bl, r[n])
  <2>1. CASE n < k
    <3>1. n \in 1 .. Len(s)
      BY <1>1, <2>1
    <3> QED
      BY <1>1, <1>3, <2>1, <3>1
  <2>2. CASE n = k
    BY <1>1, <1>3, <2>2 DEF e
  <2>3. CASE n > k
    <3>1. n - 1 \in 1 .. Len(s) /\ ~(n < k) /\ n # k
      BY <1>1, <2>3
    <3> QED
      BY <1>1, <1>3, <3>1
  <2> QED
    BY <1>1, <2>1, <2>2, <2>3
<1>5. RowsOf(r, bl) = q
  BY <1>1, <1>3, <1>4, RowsEqual
<1> QED
  BY <1>5 DEF r, q, e

\* The rows of a list with an item less.
LEMMA RowsRemoved ==
  ASSUME NEW s \in Seq(Items), NEW bl \in [Items -> BLINE], NEW k \in 1 .. Len(s),
         NEW w \in Seq(ROW), Len(w) = Len(s), \A n \in 1 .. Len(s) : w[n] = Row(bl, s[n])
  PROVE  /\ RowsOf(RemoveAt(s, k), bl) = RemoveAt(w, k)
         /\ RemoveAt(w, k) \in Seq(ROW) /\ Len(RemoveAt(w, k)) = Len(RemoveAt(s, k))
         /\ \A n \in 1 .. Len(RemoveAt(s, k)) : RemoveAt(w, k)[n] = Row(bl, RemoveAt(s, k)[n])
<1> DEFINE r == RemoveAt(s, k)
           q == RemoveAt(w, k)
<1>1. /\ r \in Seq(Items) /\ Len(r) = Len(s) - 1 /\ Len(s) \in Nat
      /\ \A i \in 1 .. Len(s) - 1 : r[i] = IF i < k THEN s[i] ELSE s[i + 1]
  <2> HIDE DEF r
  <2>1. Len(s) \in Nat
    OBVIOUS
  <2> QED
    BY <2>1, RemoveAtFacts, Zenon DEF r
<1> HIDE DEF ROW
<1>2. /\ q \in Seq(ROW) /\ Len(q) = Len(s) - 1
      /\ \A i \in 1 .. Len(s) - 1 : q[i] = IF i < k THEN w[i] ELSE w[i + 1]
  <2>1. k \in 1 .. Len(w)
    OBVIOUS
  <2>2. /\ q \in Seq(ROW) /\ Len(q) = Len(w) - 1
        /\ \A i \in 1 .. Len(w) - 1 : q[i] = IF i < k THEN w[i] ELSE w[i + 1]
    BY <2>1, RemoveAtFacts
  <2> QED
    BY <2>2
<1> HIDE DEF r, q
<1>3. ASSUME NEW n \in 1 .. Len(s) - 1 PROVE q[n] = Row(bl, r[n])
  <2>1. n \in 1 .. Len(s) /\ n + 1 \in 1 .. Len(s)
    BY <1>1
  <2> QED
    BY <1>1, <1>2, <2>1
<1>4. RowsOf(r, bl) = q
  BY <1>1, <1>2, <1>3, RowsEqual
<1> QED
  BY <1>1, <1>2, <1>3, <1>4 DEF r, q

\* A line is found under its number after one was put in above it or below.
LEMMA NthWith ==
  ASSUME NEW s \in Seq(Items), NEW k \in 1 .. Len(s) + 1, NEW l \in Items, NEW n \in 0 .. Len(s),
         NEW v, v = Rows!With(k, n)
  PROVE  v \in 0 .. Len(InsertAt(s, k, l)) /\ Nth(InsertAt(s, k, l), v) = Nth(s, n)
<1> DEFINE r == InsertAt(s, k, l)
<1>1. /\ Len(r) = Len(s) + 1 /\ Len(s) \in Nat
      /\ \A i \in Int : 0 <= i /\ i <= Len(s) + 2 =>
            Nth(r, i) = IF i < k THEN Nth(s, i) ELSE IF i = k THEN l ELSE Nth(s, i - 1)
  BY NthInserted
<1>2. v = IF n # 0 /\ n >= k THEN n + 1 ELSE n
  BY DEF Rows!With
<1> HIDE DEF r
<1>3. CASE n # 0 /\ n >= k
  <2>1. v = n + 1 /\ v \in Int /\ 0 <= v /\ v <= Len(s) + 1 /\ ~(v < k) /\ v # k /\ v - 1 = n
    BY <1>1, <1>2, <1>3
  <2> QED
    BY <1>1, <2>1 DEF r
<1>4. CASE ~(n # 0 /\ n >= k)
  <2>1. v = n /\ v \in Int /\ 0 <= v /\ v <= Len(s) /\ v < k
    BY <1>1, <1>2, <1>4
  <2> QED
    BY <1>1, <2>1 DEF r
<1> QED
  BY <1>3, <1>4

\* A line is found under its number after one was taken out, unless that was the one.
LEMMA NthWithout ==
  ASSUME NEW s \in Seq(Items), Distinct(s), NEW k \in 1 .. Len(s), NEW n \in 0 .. Len(s),
         NEW v, v = Rows!Without(k, n)
  PROVE  /\ v \in 0 .. Len(RemoveAt(s, k))
         /\ Nth(RemoveAt(s, k), v) = IF Nth(s, n) = s[k] THEN NULL ELSE Nth(s, n)
<1> DEFINE r == RemoveAt(s, k)
<1>1. /\ Len(r) = Len(s) - 1 /\ Len(s) \in Nat
      /\ \A i \in Int : 0 <= i /\ i <= Len(s) => Nth(r, i) = IF i < k THEN Nth(s, i) ELSE Nth(s, i + 1)
  BY NthRemoved
<1>2. v = IF n = k THEN 0 ELSE IF n > k THEN n - 1 ELSE n
  BY DEF Rows!Without
<1>3. Nth(s, k) = s[k] /\ Nth(s, 0) = NULL
  BY NthFacts
<1>4. n # k => Nth(s, k) # Nth(s, n)
  <2>1. k \in Int /\ n \in Int /\ 1 <= k /\ k <= Len(s)
    BY <1>1
  <2> QED
    BY <2>1, NthSame
<1> HIDE DEF r
<1>5. CASE n = k
  <2>1. v = 0 /\ v \in Int /\ 0 <= v /\ v <= Len(s) /\ v < k /\ v <= Len(r)
    BY <1>1, <1>2, <1>5
  <2> QED
    BY <1>1, <1>3, <1>5, <2>1 DEF r
<1>6. CASE n > k
  <2>1. v = n - 1 /\ v \in Int /\ 0 <= v /\ v <= Len(r) /\ v <= Len(s) /\ ~(v < k) /\ v + 1 = n /\ n # k
    BY <1>1, <1>2, <1>6
  <2> QED
    BY <1>1, <1>3, <1>4, <2>1 DEF r
<1>7. CASE n < k
  <2>1. v = n /\ v \in Int /\ 0 <= v /\ v <= Len(r) /\ v <= Len(s) /\ v < k /\ n # k
    BY <1>1, <1>2, <1>7
  <2> QED
    BY <1>1, <1>3, <1>4, <2>1 DEF r
<1> QED
  BY <1>1, <1>5, <1>6, <1>7

\* insert() and add() insert a row.
LEMMA InsertRows ==
  ASSUME NEW s, Is(s), Reads(b, bline, rows, value), Reads(b, bline, rows, value)', Beyond = 0,
         NEW line \in Int, NEW t \in Texts, NEW l \in Items, Insert(line, t, l)
  PROVE  Rows!Next
<1> DEFINE r == InsertAt(s, line, l)
           v == Rows!With(line, value)
           new == [text |-> t, length |-> t, hidden |-> FALSE]
<1>1. /\ Good(b, s) /\ s \in Seq(Items) /\ Len(s) \in Nat /\ b.lines = Len(s)
      /\ ToSet(s) = allocated /\ bline \in [Items -> BLINE]
  BY IsFacts
<1>2. /\ line \in 1 .. b.lines + 1 + Beyond /\ l \notin allocated
      /\ b' = insert(b, line, l, 1) /\ bline' = [bline EXCEPT ![l] = new]
  BY DEF Insert
<1>3. line \in 1 .. Len(s) + 1
  BY <1>1, <1>2
<1>4. Good(b', r) /\ b'.selection = b.selection
  BY <1>1, <1>2, <1>3, InsertFacts
<1>5. /\ value \in 0 .. Len(s) /\ Nth(s, value) = b.selection
      /\ rows \in Seq(ROW) /\ Len(rows) = Len(s)
      /\ \A n \in 1 .. Len(s) : rows[n] = Row(bline, s[n])
  BY RowsBefore
<1>6. v \in 0 .. Len(r) /\ Nth(r, v) = b'.selection
  BY <1>1, <1>3, <1>4, <1>5, NthWith
<1>7. rows' = RowsOf(r, bline') /\ value' = v
  <2> HIDE DEF r, v
  <2> QED
    BY <1>4, <1>6, RowsAre
<1>8. t \in Nat
  BY BrowserAssumption
<1>9. /\ bline' \in [Items -> BLINE] /\ bline'[l] = new
      /\ \A x \in Items : x # l => bline'[x] = bline[x]
  BY <1>1, <1>2, <1>8 DEF BLINE
<1>10. \A n \in 1 .. Len(s) : rows[n] = Row(bline', s[n])
  <2>1. \A n \in 1 .. Len(s) : s[n] \in Items /\ s[n] # l
    BY <1>1, <1>2, NthFacts
  <2> QED
    BY <1>5, <1>9, <2>1 DEF Row
<1>11. Row(bline', l) = [text |-> t, hidden |-> FALSE]
  BY <1>9 DEF Row
<1>12. RowsOf(r, bline') = InsertAt(rows, line, Row(bline', l))
  BY <1>1, <1>3, <1>5, <1>9, <1>10, RowsInserted
<1>13. rows' = InsertAt(rows, line, [text |-> t, hidden |-> FALSE])
  BY <1>7, <1>11, <1>12
<1>14. Rows!Insert(line, t)
  BY <1>7, <1>13 DEF Rows!Insert, Rows!InsertAt, InsertAt
<1>15. line \in 1 .. Len(rows) + 1
  BY <1>3, <1>5
<1> QED
  BY <1>14, <1>15 DEF Rows!Next

\* remove() removes the row.
LEMMA RemoveRows ==
  ASSUME NEW s, Is(s), Reads(b, bline, rows, value), Reads(b, bline, rows, value)',
         NEW line \in Int, RemoveLine(line)
  PROVE  Rows!Next
<1> DEFINE r == RemoveAt(s, line)
           l == s[line]
           v == Rows!Without(line, value)
<1>1. /\ Good(b, s) /\ s \in Seq(Items) /\ Len(s) \in Nat /\ Distinct(s) /\ b.lines = Len(s)
      /\ bline \in [Items -> BLINE]
  BY IsFacts
<1>2. line \in 1 .. Len(s)
  BY <1>1 DEF RemoveLine, Lines
<1>3. find_line(b, line).cache = l /\ l \in Items
  <2>1. find_line(b, line).cache = l
    BY <1>1, <1>2, FindFacts
  <2> QED
    BY <1>1, <1>2, <2>1
<1>4. PICK shown : b' = Free(_remove(b, line, shown), l)
  BY <1>3 DEF RemoveLine
<1>5. bline' = [bline EXCEPT ![l] = Blank]
  BY <1>3 DEF RemoveLine
<1>6. /\ value \in 0 .. Len(s) /\ Nth(s, value) = b.selection
      /\ rows \in Seq(ROW) /\ Len(rows) = Len(s) /\ DOMAIN rows = 1 .. Len(s)
      /\ \A n \in 1 .. Len(s) : rows[n] = Row(bline, s[n])
  BY RowsBefore
<1>7. v \in 0 .. Len(r) /\ Nth(r, v) = IF b.selection = l THEN NULL ELSE b.selection
  BY <1>1, <1>2, <1>6, NthWithout
<1> DEFINE R == _remove(b, line, shown)
<1>8. Good(R, r) /\ R.selection = IF b.selection = l THEN NULL ELSE b.selection
  BY <1>1, <1>2, RemoveFacts
<1>9. l \notin ToSet(r) /\ r \in Seq(Items) /\ Len(r) = Len(s) - 1
  BY <1>1, <1>2, RemoveAtSet, RemoveAtFacts
<1>10. /\ RowsOf(r, bline) = RemoveAt(rows, line) /\ RemoveAt(rows, line) \in Seq(ROW)
       /\ Len(RemoveAt(rows, line)) = Len(r)
       /\ \A n \in 1 .. Len(r) : RemoveAt(rows, line)[n] = Row(bline, r[n])
  <2>1. /\ s \in Seq(Items) /\ bline \in [Items -> BLINE] /\ line \in 1 .. Len(s)
        /\ rows \in Seq(ROW) /\ Len(rows) = Len(s)
    BY <1>1, <1>2, <1>6
  <2>2. \A n \in 1 .. Len(s) : rows[n] = Row(bline, s[n])
    BY <1>6
  <2> QED
    BY <2>1, <2>2, RowsRemoved
<1> HIDE DEF R, r, l, v
<1>11. Good(b', r) /\ b'.selection = R.selection
  BY <1>3, <1>4, <1>8, <1>9, FreeFacts DEF R
<1>12. Nth(r, v) = b'.selection
  BY <1>7, <1>8, <1>11
<1>13. rows' = RowsOf(r, bline') /\ value' = v
  BY <1>7, <1>11, <1>12, RowsAre
<1>14. bline' \in [Items -> BLINE] /\ \A x \in Items : x # l => bline'[x] = bline[x]
  BY <1>1, <1>5 DEF BLINE, Blank
<1>15. \A n \in 1 .. Len(r) : RemoveAt(rows, line)[n] = Row(bline', r[n])
  <2>1. \A n \in 1 .. Len(r) : r[n] \in Items /\ r[n] # l
    BY <1>9, NthFacts
  <2> QED
    BY <1>10, <1>14, <2>1 DEF Row
<1>16. RowsOf(r, bline') = RemoveAt(rows, line)
  BY <1>9, <1>10, <1>14, <1>15, RowsEqual
<1>17. Rows!RemoveLine(line)
  BY <1>13, <1>16 DEF Rows!RemoveLine, Rows!RemoveAt, RemoveAt, v
<1> QED
  BY <1>2, <1>6, <1>17 DEF Rows!Next

\* move() moves the row.
LEMMA MoveRows ==
  ASSUME NEW s, Is(s), Reads(b, bline, rows, value), Reads(b, bline, rows, value)', Beyond = 0,
         NEW to \in Int, NEW from \in Int, Move(to, from)
  PROVE  Rows!Next
<1> DEFINE r == RemoveAt(s, from)
           l == s[from]
           q == InsertAt(r, to, l)
           h == item_height(l)
           u == Rows!Without(from, value)
           v == Rows!With(to, u)
           w == RemoveAt(rows, from)
<1>1. /\ Good(b, s) /\ s \in Seq(Items) /\ Len(s) \in Nat /\ Distinct(s) /\ b.lines = Len(s)
      /\ bline \in [Items -> BLINE]
  BY IsFacts
<1>2. from \in 1 .. Len(s) /\ to \in 1 .. Len(s)
  BY <1>1 DEF Move, Lines
<1>3. find_line(b, from).cache = l
  BY <1>1, <1>2, FindFacts
<1>4. PICK shown : b' = insert(_remove(b, from, shown), to, l, h)
  BY <1>3 DEF Move
<1>5. bline' = bline
  BY DEF Move
<1>6. /\ value \in 0 .. Len(s) /\ Nth(s, value) = b.selection
      /\ rows \in Seq(ROW) /\ Len(rows) = Len(s) /\ DOMAIN rows = 1 .. Len(s)
      /\ \A n \in 1 .. Len(s) : rows[n] = Row(bline, s[n])
  BY RowsBefore
<1>7. u \in 0 .. Len(r) /\ Nth(r, u) = IF b.selection = l THEN NULL ELSE b.selection
  BY <1>1, <1>2, <1>6, NthWithout
<1> DEFINE R == _remove(b, from, shown)
<1>8. Good(R, r) /\ R.selection = IF b.selection = l THEN NULL ELSE b.selection
  BY <1>1, <1>2, RemoveFacts
<1>9. l \notin ToSet(r) /\ r \in Seq(Items) /\ Len(r) = Len(s) - 1 /\ h \in Int /\ l \in Items
  <2>1. l \notin ToSet(r) /\ r \in Seq(Items) /\ Len(r) = Len(s) - 1
    BY <1>1, <1>2, RemoveAtSet, RemoveAtFacts
  <2>2. h \in Int
    BY DEF item_height
  <2> QED
    BY <1>1, <1>2, <2>1, <2>2
<1>10. /\ RowsOf(r, bline) = w /\ w \in Seq(ROW) /\ Len(w) = Len(r)
       /\ \A n \in 1 .. Len(r) : w[n] = Row(bline, r[n])
  <2>1. /\ s \in Seq(Items) /\ bline \in [Items -> BLINE] /\ from \in 1 .. Len(s)
        /\ rows \in Seq(ROW) /\ Len(rows) = Len(s)
    BY <1>1, <1>2, <1>6
  <2>2. \A n \in 1 .. Len(s) : rows[n] = Row(bline, s[n])
    BY <1>6
  <2> QED
    BY <2>1, <2>2, RowsRemoved
<1>11. rows[from] = Row(bline, l)
  BY <1>2, <1>6
<1> HIDE DEF R, r, l, h, u, w
<1>12. to \in 1 .. Len(r) + 1
  BY <1>1, <1>2, <1>9
<1>13. v \in 0 .. Len(q) /\ Nth(q, v) = Nth(r, u)
  <2>1. v = Rows!With(to, u)
    OBVIOUS
  <2>2. u \in 0 .. Len(r) /\ r \in Seq(Items) /\ l \in Items
    BY <1>7, <1>9
  <2> HIDE DEF v
  <2> QED
    BY <1>12, <2>1, <2>2, NthWith
<1>14. RowsOf(q, bline) = InsertAt(w, to, Row(bline, l))
  BY <1>1, <1>9, <1>10, <1>12, RowsInserted
<1>15. Good(b', q) /\ b'.selection = R.selection
  <2>1. b' = insert(R, to, l, h)
    BY <1>4 DEF R
  <2>2. Good(b', InsertAt(r, to, l))
    BY <1>8, <1>9, <1>12, <2>1, InsertFacts
  <2>3. b'.selection = R.selection
    BY <1>8, <1>9, <1>12, <2>1, InsertFacts
  <2> QED
    BY <2>2, <2>3
<1> HIDE DEF q, v
<1>16. rows' = RowsOf(q, bline') /\ value' = v
  <2>1. Nth(q, v) = b'.selection
    BY <1>7, <1>8, <1>13, <1>15
  <2> QED
    BY <1>13, <1>15, <2>1, RowsAre
<1>17. rows' = InsertAt(RemoveAt(rows, from), to, rows[from])
  BY <1>5, <1>11, <1>14, <1>16 DEF w
<1>18. Rows!Move(to, from)
  BY <1>16, <1>17 DEF Rows!Move, Rows!InsertAt, Rows!RemoveAt, InsertAt, RemoveAt, u, v
<1> QED
  BY <1>2, <1>6, <1>18 DEF Rows!Next

\* The rows of a list of which one item was replaced or changed.
LEMMA RowsReplaced ==
  ASSUME NEW s, Is(s), Reads(b, bline, rows, value), NEW bl \in [Items -> BLINE],
         NEW r \in Seq(Items), Len(r) = Len(s), NEW line \in 1 .. Len(s),
         \A m \in 1 .. Len(s) : m # line => Row(bl, r[m]) = Row(bline, s[m])
  PROVE  RowsOf(r, bl) = [rows EXCEPT ![line] = Row(bl, r[line])]
<1> DEFINE e == Row(bl, r[line])
           w == [rows EXCEPT ![line] = e]
<1>1. e \in ROW
  <2>1. r[line] \in Items
    OBVIOUS
  <2> QED
    BY <2>1 DEF Row, ROW, BLINE
<1>2. /\ rows \in Seq(ROW) /\ Len(rows) = Len(s)
      /\ \A n \in 1 .. Len(s) : rows[n] = Row(bline, s[n])
  BY RowsBefore
<1> HIDE DEF ROW, e
<1>3. /\ w \in Seq(ROW) /\ Len(w) = Len(s)
      /\ \A n \in 1 .. Len(s) : w[n] = IF n = line THEN e ELSE rows[n]
  BY <1>1, <1>2
<1> HIDE DEF w
<1>4. \A n \in 1 .. Len(r) : w[n] = Row(bl, r[n])
  BY <1>2, <1>3 DEF e
<1>5. RowsOf(r, bl) = w
  BY <1>3, <1>4, RowsEqual
<1> QED
  BY <1>5 DEF w, e

\* text() sets the text of the row, also when it allocates a new item.
LEMMA TextRows ==
  ASSUME NEW s, Is(s), Reads(b, bline, rows, value), Reads(b, bline, rows, value)',
         NEW line \in Int, NEW t \in Texts, NEW n \in Items, Text(line, t, n)
  PROVE  Rows!Next
<1> DEFINE F == find_line(b, line)
           l == s[line]
<1>1. /\ Good(b, s) /\ s \in Seq(Items) /\ Len(s) \in Nat /\ Distinct(s) /\ b.lines = Len(s)
      /\ ToSet(s) = allocated /\ bline \in [Items -> BLINE]
  BY IsFacts
<1>2. line \in 1 .. Len(s) /\ n \notin allocated
  BY <1>1 DEF Text, Lines
<1>3. Good(F, s) /\ F.cache = l /\ F.cacheline = line /\ F.selection = b.selection
  BY <1>1, <1>2, FindFacts
<1>4. l \in Items /\ l \in allocated /\ l # n /\ t \in Nat /\ Nth(s, line) = l
  BY <1>1, <1>2, NthFacts, BrowserAssumption
<1>5. /\ value \in 0 .. Len(s) /\ Nth(s, value) = b.selection
      /\ DOMAIN rows = 1 .. Len(s) /\ rows[line] = Row(bline, l)
  BY <1>2, RowsBefore
<1>6. \A m \in 1 .. Len(s) : s[m] \in Items /\ s[m] # n /\ (m # line => s[m] # l)
  BY <1>1, <1>2, NthFacts DEF Distinct
<1>7. ASSUME rows' = [rows EXCEPT ![line] = [text |-> t, hidden |-> bline[l].hidden]], value' = value
      PROVE  Rows!Next
  <2>1. [rows[line] EXCEPT !.text = t] = [text |-> t, hidden |-> bline[l].hidden]
    BY <1>5 DEF Row
  <2>2. Rows!SetText(line, t)
    BY <1>7, <2>1 DEF Rows!SetText
  <2>3. line \in DOMAIN rows
    BY <1>2, <1>5
  <2> QED
    BY <2>2, <2>3 DEF Rows!Next
<1>8. CASE t <= bline[l].length
  <2>1. b' = F /\ bline' = [bline EXCEPT ![l].text = t]
    BY <1>3, <1>8 DEF Text
  <2>2. /\ bline' \in [Items -> BLINE] /\ \A x \in Items : x # l => bline'[x] = bline[x]
        /\ bline'[l].text = t /\ bline'[l].hidden = bline[l].hidden
    BY <1>1, <1>4, <2>1 DEF BLINE
  <2> HIDE DEF F
  <2>3. rows' = RowsOf(s, bline') /\ value' = value
    BY <1>3, <1>5, <2>1, RowsAre
  <2> HIDE DEF l
  <2>4. \A m \in 1 .. Len(s) : m # line => Row(bline', s[m]) = Row(bline, s[m])
    BY <1>6, <2>2 DEF Row
  <2>5. RowsOf(s, bline') = [rows EXCEPT ![line] = Row(bline', s[line])]
    BY <1>1, <1>2, <2>2, <2>4, RowsReplaced
  <2>6. Row(bline', s[line]) = [text |-> t, hidden |-> bline[l].hidden]
    BY <2>2 DEF Row, l
  <2> QED
    BY <1>7, <2>3, <2>5, <2>6
<1>9. CASE ~(t <= bline[l].length)
  <2> DEFINE R == Link(Link([replacing(F, l, n) EXCEPT !.cache = n], F.prev[l], n), n, F.next[l])
             r == [s EXCEPT ![line] = n]
             new == [bline[l] EXCEPT !.text = t, !.length = t]
  <2>1. b' = Free(R, l) /\ bline' = [bline EXCEPT ![n] = new, ![l] = Blank]
    BY <1>3, <1>9 DEF Text
  <2>2. Good(R, r) /\ R.selection = IF F.selection = l THEN n ELSE F.selection
    <3> HIDE DEF F
    <3> QED
      BY <1>1, <1>2, <1>3, ReplaceFacts
  <2>3. /\ r \in Seq(Items) /\ Len(r) = Len(s)
        /\ \A m \in 1 .. Len(s) : r[m] = IF m = line THEN n ELSE s[m]
    BY <1>1, <1>2
  <2>4. /\ ToSet(r) = (ToSet(s) \ {l}) \union {n}
        /\ \A m \in Int : Nth(r, m) = IF m = line THEN n ELSE Nth(s, m)
    <3>1. ToSet(r) = (ToSet(s) \ {l}) \union {n}
      BY <1>1, <1>2, NthReplaced
    <3>2. \A m \in Int : Nth(r, m) = IF m = line THEN n ELSE Nth(s, m)
      BY <1>1, <1>2, NthReplaced
    <3> QED
      BY <3>1, <3>2
  <2> HIDE DEF F, R, r, l
  <2>5. Good(b', r) /\ b'.selection = R.selection
    <3>1. l \notin ToSet(r)
      BY <1>4, <2>4
    <3>2. Good(Free(R, l), r) /\ Free(R, l).selection = R.selection
      BY <1>4, <2>2, <3>1, FreeFacts
    <3> QED
      BY <2>1, <3>2
  <2>6. Nth(r, value) = b'.selection
    <3>1. value \in Int /\ line \in Int /\ 1 <= line /\ line <= Len(s)
      BY <1>1, <1>2, <1>5
    <3>2. value # line => Nth(s, line) # Nth(s, value)
      BY <1>1, <3>1, NthSame
    <3>3. Nth(r, value) = IF value = line THEN n ELSE Nth(s, value)
      BY <2>4, <3>1
    <3> QED
      BY <1>3, <1>4, <1>5, <2>2, <2>5, <3>2, <3>3
  <2>7. rows' = RowsOf(r, bline') /\ value' = value
    BY <1>5, <2>3, <2>5, <2>6, RowsAre
  <2>8. new \in BLINE /\ new.text = t /\ new.hidden = bline[l].hidden /\ Blank \in BLINE
    BY <1>1, <1>4 DEF BLINE, Blank
  <2> HIDE DEF new
  <2>9. /\ bline' \in [Items -> BLINE] /\ bline'[n] = new
        /\ \A x \in Items : x # l /\ x # n => bline'[x] = bline[x]
    BY <1>1, <1>4, <2>1, <2>8
  <2>10. \A m \in 1 .. Len(s) : m # line => Row(bline', r[m]) = Row(bline, s[m])
    BY <1>6, <2>3, <2>9 DEF Row
  <2>11. RowsOf(r, bline') = [rows EXCEPT ![line] = Row(bline', r[line])]
    <3>1. r \in Seq(Items) /\ Len(r) = Len(s) /\ bline' \in [Items -> BLINE]
      BY <2>3, <2>9
    <3> QED
      BY <1>2, <2>10, <3>1, RowsReplaced
  <2>12. Row(bline', r[line]) = [text |-> t, hidden |-> bline[l].hidden]
    BY <1>2, <2>3, <2>8, <2>9 DEF Row
  <2> QED
    BY <1>7, <2>7, <2>11, <2>12
<1> QED
  BY <1>8, <1>9

\* show() and hide() show or hide the row.
LEMMA DisplayRows ==
  ASSUME NEW s, Is(s), Reads(b, bline, rows, value), Reads(b, bline, rows, value)',
         NEW line \in Int, NEW val \in BOOLEAN, Display(line, val)
  PROVE  Rows!Next \/ UNCHANGED Rows!vars
<1> DEFINE F == find_line(b, line)
           l == s[line]
<1>1. /\ Good(b, s) /\ s \in Seq(Items) /\ Len(s) \in Nat /\ Distinct(s) /\ b.lines = Len(s)
      /\ bline \in [Items -> BLINE]
  BY IsFacts
<1>2. line \in 1 .. Len(s)
  BY <1>1 DEF Display, Lines
<1>3. Good(F, s) /\ F.cache = l /\ F.selection = b.selection
  BY <1>1, <1>2, FindFacts
<1>4. l \in Items /\ \A m \in 1 .. Len(s) : s[m] \in Items /\ (m # line => s[m] # l)
  BY <1>1, <1>2, NthFacts DEF Distinct
<1>5. CASE bline[l].hidden = ~val
  <2>1. b' = F /\ bline' = bline
    BY <1>3, <1>5 DEF Display
  <2> HIDE DEF F
  <2> QED
    BY <1>3, <2>1, RowsStay
<1>6. CASE ~(bline[l].hidden = ~val)
  <2> DEFINE h == IF val THEN F.full_height + (1 + Spacing) ELSE F.full_height - (1 + Spacing)
  <2>1. b' = [F EXCEPT !.full_height = h] /\ bline' = [bline EXCEPT ![l].hidden = ~val]
    BY <1>3, <1>6 DEF Display
  <2>2. h \in Int
    <3>1. F.full_height \in Int
      BY <1>3, GoodFacts, FieldTypes
    <3> QED
      BY <3>1, BrowserAssumption
  <2> HIDE DEF F, h
  <2>3. Good(b', s) /\ b'.selection = b.selection
    BY <1>3, <2>1, <2>2, HeightFacts
  <2>4. /\ value \in 0 .. Len(s) /\ Nth(s, value) = b.selection
        /\ DOMAIN rows = 1 .. Len(s) /\ rows[line] = Row(bline, l)
    BY <1>2, RowsBefore
  <2>5. rows' = RowsOf(s, bline') /\ value' = value
    BY <2>3, <2>4, RowsAre
  <2>6. /\ bline' \in [Items -> BLINE] /\ \A x \in Items : x # l => bline'[x] = bline[x]
        /\ bline'[l].text = bline[l].text /\ bline'[l].hidden = ~val
    BY <1>1, <1>4, <2>1 DEF BLINE
  <2> HIDE DEF l
  <2>7. \A m \in 1 .. Len(s) : m # line => Row(bline', s[m]) = Row(bline, s[m])
    BY <1>4, <2>6 DEF Row
  <2>8. RowsOf(s, bline') = [rows EXCEPT ![line] = Row(bline', s[line])]
    BY <1>1, <1>2, <2>6, <2>7, RowsReplaced
  <2>9. Row(bline', s[line]) = [rows[line] EXCEPT !.hidden = ~val]
    BY <2>4, <2>6 DEF Row, l
  <2>10. Rows!Hide(line, ~val)
    BY <2>5, <2>8, <2>9 DEF Rows!Hide
  <2>11. line \in DOMAIN rows
    BY <1>2, <2>4
  <2>12. (~val) \in BOOLEAN
    OBVIOUS
  <2> QED
    BY <2>10, <2>11, <2>12 DEF Rows!Next
<1> QED
  BY <1>5, <1>6

\* swap() exchanges the rows.
LEMMA SwapRows ==
  ASSUME NEW s, Is(s), Reads(b, bline, rows, value), Reads(b, bline, rows, value)',
         NEW i \in Int, NEW j \in Int, Swap(i, j)
  PROVE  Rows!Next \/ UNCHANGED Rows!vars
<1> DEFINE F == find_line(b, i)
           G == find_line(F, j)
<1>1. /\ Good(b, s) /\ s \in Seq(Items) /\ Len(s) \in Nat /\ Distinct(s) /\ b.lines = Len(s)
      /\ bline \in [Items -> BLINE]
  BY IsFacts
<1>2. i \in 1 .. Len(s) /\ j \in 1 .. Len(s)
  BY <1>1 DEF Swap, Lines
<1>3. Good(F, s) /\ F.cache = s[i] /\ F.selection = b.selection
  BY <1>1, <1>2, FindFacts
<1> HIDE DEF F
<1>4. Good(G, s) /\ G.cache = s[j] /\ G.selection = b.selection
  BY <1>2, <1>3, FindFacts
<1>5. b' = swap(G, F.cache, G.cache) /\ bline' = bline
  BY DEF Swap, F
<1> HIDE DEF G
<1>6. CASE i = j
  <2>1. b' = G
    BY <1>3, <1>4, <1>5, <1>6 DEF swap
  <2> QED
    BY <1>4, <1>5, <2>1, RowsStay
<1>7. CASE i # j
  <2> DEFINE r == Exchanged(s, i, j)
             w == [rows EXCEPT ![i] = rows[j], ![j] = rows[i]]
  <2>1. b' = swap(G, s[i], s[j])
    BY <1>3, <1>4, <1>5
  <2>2. Good(b', r)
    BY <1>2, <1>4, <1>7, <2>1, SwapFacts
  <2>3. /\ value \in 0 .. Len(s) /\ Nth(s, value) = b.selection
        /\ rows \in Seq(ROW) /\ Len(rows) = Len(s) /\ DOMAIN rows = 1 .. Len(s)
        /\ \A n \in 1 .. Len(s) : rows[n] = Row(bline, s[n])
    BY RowsBefore
  <2>4. Nth(r, value) = b'.selection
    <3>1. value \in Int /\ Nth(s, value) = G.selection
      BY <1>1, <1>4, <2>3
    <3> QED
      BY <1>2, <1>4, <1>7, <2>1, <3>1, SwapStays
  <2>5. /\ r \in Seq(Items) /\ Len(r) = Len(s)
        /\ \A m \in 1 .. Len(s) : r[m] = IF m = i THEN s[j] ELSE IF m = j THEN s[i] ELSE s[m]
    BY <1>1, <1>2, <1>7 DEF Exchanged
  <2> HIDE DEF r, ROW
  <2>6. rows' = RowsOf(r, bline) /\ value' = value
    BY <1>5, <2>2, <2>3, <2>4, <2>5, RowsAre
  <2>7. /\ w \in Seq(ROW) /\ Len(w) = Len(s)
        /\ \A m \in 1 .. Len(s) : w[m] = IF m = i THEN rows[j] ELSE IF m = j THEN rows[i] ELSE rows[m]
    BY <1>1, <1>2, <1>7, <2>3
  <2> HIDE DEF w
  <2>8. \A m \in 1 .. Len(r) : w[m] = Row(bline, r[m])
    BY <1>2, <2>3, <2>5, <2>7
  <2>9. RowsOf(r, bline) = w
    BY <1>1, <2>5, <2>7, <2>8, RowsEqual
  <2>10. Rows!Swap(i, j)
    BY <2>6, <2>9 DEF Rows!Swap, w
  <2> QED
    BY <1>2, <2>3, <2>10 DEF Rows!Next
<1> QED
  BY <1>6, <1>7

\* p numbers the lines such that T[i] are the lines before i.
Numbers(p, T, N) ==
  /\ p \in [1 .. N -> 1 .. N] /\ \A i \in 1 .. N : \E n \in 1 .. N : i = p[n]
  /\ T \in [1 .. N -> SUBSET (1 .. N)] /\ \A m, n \in 1 .. N : p[m] \in T[p[n]] <=> m < n

\* The place of a line in an order is told by the number of lines before it.
LEMMA Ranking ==
  ASSUME NEW N \in Nat, NEW p, NEW T, Numbers(p, T, N)
  PROVE  \A n, i \in 1 .. N : 1 + Cardinality(T[i]) = n <=> i = p[n]
<1> USE DEF Numbers
<1>1. \A m, n \in 1 .. N : p[m] = p[n] => m = n
  <2> SUFFICES ASSUME NEW m \in 1 .. N, NEW n \in 1 .. N, p[m] = p[n], m < n
               PROVE  FALSE
    OBVIOUS
  <2>1. p[m] \in T[p[n]] /\ ~(p[n] \in T[p[n]])
    OBVIOUS
  <2> QED
    BY <2>1
<1>2. ASSUME NEW n \in 1 .. N PROVE Cardinality(T[p[n]]) = n - 1
  <2> DEFINE f == [m \in 1 .. n - 1 |-> p[m]]
             S == T[p[n]]
  <2>1. n - 1 \in Nat /\ \A m \in 1 .. n - 1 : m \in 1 .. N /\ m < n
    OBVIOUS
  <2>2. S \subseteq 1 .. N
    OBVIOUS
  <2>3. f \in [1 .. n - 1 -> S]
    BY <2>1
  <2>4. \A m, k \in 1 .. n - 1 : f[m] = f[k] => m = k
    BY <1>1, <2>1
  <2>5. \A i \in S : \E m \in 1 .. n - 1 : f[m] = i
    <3> SUFFICES ASSUME NEW i \in S
                 PROVE  \E m \in 1 .. n - 1 : f[m] = i
      OBVIOUS
    <3>1. PICK m \in 1 .. N : i = p[m]
      BY <2>2
    <3>2. m < n
      BY <3>1
    <3>3. m \in 1 .. n - 1
      BY <3>2
    <3> QED
      BY <3>1, <3>3
  <2> HIDE DEF f, S
  <2>6. ExistsBijection(1 .. n - 1, S)
    BY <2>3, <2>4, <2>5 DEF ExistsBijection, Bijection, Injection, IsInjective, Surjection
  <2>7. Cardinality(S) = n - 1
    BY <2>1, <2>6, FS_CountingElements
  <2> QED
    BY <2>7 DEF S
<1> SUFFICES ASSUME NEW n \in 1 .. N, NEW i \in 1 .. N
             PROVE  1 + Cardinality(T[i]) = n <=> i = p[n]
  OBVIOUS
<1>3. PICK m \in 1 .. N : i = p[m]
  OBVIOUS
<1>4. Cardinality(T[i]) = m - 1
  BY <1>2, <1>3
<1>5. 1 + Cardinality(T[i]) = m
  BY <1>4
<1> QED
  BY <1>1, <1>3, <1>5

\* The lines in the order of sort(): i is before j.
Precedes(s, key, i, j) == key[s[i]] < key[s[j]] \/ (key[s[i]] = key[s[j]] /\ i < j)

\* The n-th item of r is the one of s that has n - 1 lines before it in that order.
Places(p, s, r, key) ==
  /\ p \in [1 .. Len(s) -> 1 .. Len(s)] /\ \A n \in 1 .. Len(s) : s[p[n]] = r[n]
  /\ \A n, i \in 1 .. Len(s) :
       1 + Cardinality({j \in 1 .. Len(s) : Precedes(s, key, j, i)}) = n <=> i = p[n]

\* A rearrangement that is settled and stable puts every line at its place in it.
LEMMA Placed ==
  ASSUME NEW s \in Seq(Items), Distinct(s), NEW r \in Seq(Items), Len(r) = Len(s), ToSet(r) = ToSet(s),
         NEW key \in [Items -> Int], Stable(r, s, key), Settled(r, 1, key)
  PROVE  \E p : Places(p, s, r, key)
<1> DEFINE N == Len(s)
           p == [n \in 1 .. N |-> CHOOSE k \in 1 .. N : s[k] = r[n]]
           T == [i \in 1 .. N |-> {j \in 1 .. N : Precedes(s, key, j, i)}]
<1>1. /\ N \in Nat /\ \A n \in 1 .. N : s[n] \in Items /\ r[n] \in Items
      /\ \A n \in 1 .. N : key[s[n]] \in Int
  OBVIOUS
<1>2. /\ \A n \in 1 .. N : s[n] \in ToSet(s) /\ r[n] \in ToSet(s)
      /\ \A x \in ToSet(s) : (\E k \in 1 .. N : x = s[k]) /\ (\E n \in 1 .. N : x = r[n])
  BY NthFacts
<1>3. /\ \A n \in 1 .. N : \E k \in 1 .. N : s[k] = r[n]
      /\ \A k \in 1 .. N : \E n \in 1 .. N : s[k] = r[n]
  BY <1>2
<1>4. \A n \in 1 .. N : p[n] \in 1 .. N /\ s[p[n]] = r[n]
  BY <1>3
<1>5. p \in [1 .. N -> 1 .. N]
  BY <1>4
<1> HIDE DEF p
<1>6. \A m, n \in 1 .. N : m < n => Precedes(s, key, p[m], p[n])
  <2> SUFFICES ASSUME NEW m \in 1 .. N, NEW n \in 1 .. N, m < n
               PROVE  Precedes(s, key, p[m], p[n])
    OBVIOUS
  <2>1. 1 < n
    BY <1>1
  <2>2. key[r[m]] <= key[r[n]]
    BY <2>1 DEF Settled
  <2>3. key[r[m]] = key[r[n]] => p[m] < p[n]
    BY <1>4 DEF Stable
  <2>4. /\ p[m] \in 1 .. N /\ s[p[m]] = r[m] /\ p[n] \in 1 .. N /\ s[p[n]] = r[n]
        /\ key[r[m]] \in Int /\ key[r[n]] \in Int
    BY <1>1, <1>4
  <2> QED
    BY <2>2, <2>3, <2>4 DEF Precedes
<1>7. \A i, j \in 1 .. N : Precedes(s, key, i, j) => ~Precedes(s, key, j, i)
  BY <1>1 DEF Precedes
<1>8. \A m, n \in 1 .. N : p[m] \in T[p[n]] <=> m < n
  <2> SUFFICES ASSUME NEW m \in 1 .. N, NEW n \in 1 .. N
               PROVE  p[m] \in T[p[n]] <=> m < n
    OBVIOUS
  <2>1. p[m] \in T[p[n]] <=> Precedes(s, key, p[m], p[n])
    BY <1>4
  <2>2. m < n \/ m = n \/ n < m
    BY <1>1
  <2> QED
    BY <1>1, <1>4, <1>6, <1>7, <2>1, <2>2
<1>9. \A i \in 1 .. N : \E n \in 1 .. N : i = p[n]
  <2> SUFFICES ASSUME NEW i \in 1 .. N
               PROVE  \E n \in 1 .. N : i = p[n]
    OBVIOUS
  <2>1. PICK n \in 1 .. N : s[i] = r[n]
    BY <1>3
  <2>2. i = p[n]
    BY <1>4, <2>1 DEF Distinct
  <2> QED
    BY <2>1, <2>2
<1>10. T \in [1 .. N -> SUBSET (1 .. N)]
  OBVIOUS
<1> HIDE DEF T
<1>11. \A n, i \in 1 .. N : 1 + Cardinality(T[i]) = n <=> i = p[n]
  <2>1. N \in Nat
    BY <1>1
  <2>2. Numbers(p, T, N)
    BY <1>5, <1>8, <1>9, <1>10 DEF Numbers
  <2> HIDE DEF N
  <2> QED
    BY <2>1, <2>2, Ranking
<1>12. \A i \in 1 .. N : T[i] = {j \in 1 .. N : Precedes(s, key, j, i)}
  BY DEF T
<1>13. \A n, i \in 1 .. N :
         1 + Cardinality({j \in 1 .. N : Precedes(s, key, j, i)}) = n <=> i = p[n]
  BY <1>11, <1>12
<1>14. Places(p, s, r, key)
  BY <1>4, <1>5, <1>13 DEF Places
<1> QED
  BY <1>14

\* The rows are counted as everything else is.
LEMMA RowsCardinality == \A S : Rows!Cardinality(S) = Cardinality(S)
  BY DEF Rows!Cardinality, Cardinality

\* sort() sorts the rows, in either direction.
LEMMA SortRows ==
  ASSUME NEW s, Is(s), Reads(b, bline, rows, value), Reads(b, bline, rows, value)',
         NEW descending \in BOOLEAN, Sort(descending)
  PROVE  Rows!Next
<1> DEFINE key == Order(descending)
           N == Len(s)
           Before(i, j) == \/ rows[i].text = rows[j].text /\ i < j
                           \/ IF descending THEN rows[i].text > rows[j].text
                                            ELSE rows[i].text < rows[j].text
           Rank(i) == 1 + Rows!Cardinality({j \in DOMAIN rows : Before(j, i)})
<1>1. /\ Good(b, s) /\ s \in Seq(Items) /\ N \in Nat /\ Distinct(s) /\ bline \in [Items -> BLINE]
  BY IsFacts
<1>2. /\ value \in 0 .. N /\ Nth(s, value) = b.selection
      /\ DOMAIN rows = 1 .. N
      /\ \A n \in 1 .. N : rows[n] = Row(bline, s[n]) /\ s[n] \in Items
  BY RowsBefore
<1>3. b' = sort(b, descending) /\ bline' = bline
  BY DEF Sort
<1>4. key \in [Items -> Int]
  <2>1. \A x \in Items : bline[x].text \in Nat
    BY <1>1 DEF BLINE
  <2> QED
    BY <2>1 DEF Order
<1> HIDE DEF key
<1>5. PICK r \in Seq(Items) : Arranged(b', r, s, value, 1, key)
  <2>1. value \in Int /\ key = Order(descending)
    BY <1>1, <1>2 DEF key
  <2> HIDE DEF N
  <2> QED
    BY <1>1, <1>2, <1>3, <2>1, SortSorts
<1>6. /\ Good(b', r) /\ Len(r) = N /\ ToSet(r) = ToSet(s) /\ Nth(r, value) = b'.selection
      /\ Stable(r, s, key) /\ Settled(r, 1, key)
  BY <1>5 DEF Arranged
<1>7. rows' = RowsOf(r, bline) /\ value' = value
  BY <1>2, <1>3, <1>6, RowsAre
<1>8. PICK p : Places(p, s, r, key)
  BY <1>1, <1>4, <1>6, Placed
<1>9. /\ p \in [1 .. N -> 1 .. N] /\ \A n \in 1 .. N : s[p[n]] = r[n]
      /\ \A n, i \in 1 .. N :
           1 + Cardinality({j \in 1 .. N : Precedes(s, key, j, i)}) = n <=> i = p[n]
  BY <1>8 DEF Places
<1>10. \A i, j \in 1 .. N : Precedes(s, key, j, i) <=> Before(j, i)
  <2> SUFFICES ASSUME NEW i \in 1 .. N, NEW j \in 1 .. N
               PROVE  Precedes(s, key, j, i) <=> Before(j, i)
    OBVIOUS
  <2> DEFINE x == bline[s[i]].text
             y == bline[s[j]].text
  <2>1. rows[i].text = x /\ rows[j].text = y
    BY <1>2 DEF Row
  <2>2. x \in Nat /\ y \in Nat
    BY <1>1, <1>2 DEF BLINE
  <2>3. /\ key[s[i]] = (IF descending THEN - x ELSE x)
        /\ key[s[j]] = (IF descending THEN - y ELSE y)
    BY <1>2 DEF key, Order
  <2> HIDE DEF x, y
  <2>4. CASE descending
    BY <2>1, <2>2, <2>3, <2>4 DEF Precedes
  <2>5. CASE ~descending
    BY <2>1, <2>2, <2>3, <2>5 DEF Precedes
  <2> QED
    BY <2>4, <2>5
<1> HIDE DEF Before
<1>11. \A i \in 1 .. N : {j \in 1 .. N : Precedes(s, key, j, i)} = {j \in DOMAIN rows : Before(j, i)}
  BY <1>2, <1>10
<1>12. \A n, i \in 1 .. N : Rank(i) = n <=> i = p[n]
  BY <1>9, <1>11, RowsCardinality
<1> HIDE DEF Rank
<1>13. ASSUME NEW n \in 1 .. N
       PROVE  rows[CHOOSE i \in DOMAIN rows : Rank(i) = n] = Row(bline, r[n])
  <2>1. p[n] \in DOMAIN rows /\ Rank(p[n]) = n
    BY <1>2, <1>9, <1>12
  <2>2. (CHOOSE i \in DOMAIN rows : Rank(i) = n) = p[n]
    BY <1>2, <1>12, <2>1
  <2>3. rows[p[n]] = Row(bline, r[n])
    BY <1>2, <1>9, <2>1
  <2> QED
    BY <2>2, <2>3
<1>14. rows' = [n \in DOMAIN rows |-> rows[CHOOSE i \in DOMAIN rows : Rank(i) = n]]
  <2>1. rows' = [n \in 1 .. N |-> Row(bline, r[n])]
    BY <1>6, <1>7 DEF RowsOf
  <2> QED
    BY <1>2, <1>13, <2>1
<1>15. Rows!Sort(descending)
  BY <1>7, <1>14 DEF Rows!Sort, Rank, Before
<1> QED
  BY <1>15 DEF Rows!Next
-----------------------------------------------------------------------------
\* Every operation is an operation on the rows, or leaves them.
LEMMA RowsNext ==
  ASSUME IInv, Beyond = 0, Reads(b, bline, rows, value), [Next]_vars
  PROVE  [Rows!Next]_(Rows!vars) /\ Reads(b, bline, rows, value)'
<1>1. PICK s \in Seq(Items) : Is(s)
  BY DEF IInv
<1>2. MaxLines \in Nat
  BY BrowserAssumption
<1>3. CASE UNCHANGED vars
  <2>1. UNCHANGED Rows!vars
    BY <1>3 DEF vars, Rows!vars
  <2>2. b' = b /\ bline' = bline /\ rows' = rows /\ value' = value
    BY <1>3 DEF vars
  <2>3. Reads(b', bline', rows', value')
    BY <2>2
  <2> QED
    BY <2>1, <2>3
<1>4. CASE Next
  <2>1. Reads(b, bline, rows, value)'
    <3>1. Reads(b', bline', rows', value')
      BY <1>4 DEF Next, Reads
    <3> QED
      BY <3>1
  <2>2. ASSUME NEW t \in Texts, NEW l \in Items, NEW line \in 1 .. MaxLines + Beyond,
               Insert(line, t, l) \/ Text(line, t, l)
        PROVE  Rows!Next
    <3>1. line \in Int
      BY <1>2
    <3> QED
      BY <1>1, <2>1, <2>2, <3>1, InsertRows, TextRows
  <2>3. ASSUME NEW i \in 1 .. MaxLines + Beyond, NEW j \in 1 .. MaxLines + Beyond,
               Move(i, j) \/ Swap(i, j)
        PROVE  Rows!Next \/ UNCHANGED Rows!vars
    <3>1. i \in Int /\ j \in Int
      BY <1>2
    <3> QED
      BY <1>1, <2>1, <2>3, <3>1, MoveRows, SwapRows
  <2>4. ASSUME NEW line \in 1 .. MaxLines, RemoveLine(line) \/ Lookup(line)
        PROVE  Rows!Next \/ UNCHANGED Rows!vars
    <3>1. line \in Int
      BY <1>2
    <3> QED
      BY <1>1, <2>1, <2>4, <3>1, RemoveRows, LookupRows
  <2>5. ASSUME NEW line \in 1 .. MaxLines, NEW val \in BOOLEAN, Display(line, val) \/ Select(line, val)
        PROVE  Rows!Next \/ UNCHANGED Rows!vars
    <3>1. line \in Int
      BY <1>2
    <3> QED
      BY <1>1, <2>1, <2>5, <3>1, DisplayRows, SelectRows
  <2>6. ASSUME NEW descending \in BOOLEAN, Sort(descending)
        PROVE  Rows!Next
    BY <1>1, <2>1, <2>6, SortRows
  <2>7. ASSUME NEW l \in Items, Value(l)
        PROVE  UNCHANGED Rows!vars
    BY <1>1, <2>1, <2>7, LookupRows
  <2>8. Deselect \/ Textsize \/ Clear => Rows!Next
    BY <1>1, <2>1, ClearRows
  <2>9. Draw => UNCHANGED Rows!vars
    BY <1>1, <2>1, LookupRows
  <2>10. Operation
    BY <1>4 DEF Next
  <2>11. Rows!Next \/ UNCHANGED Rows!vars
    BY <2>2, <2>3, <2>4, <2>5, <2>6, <2>7, <2>8, <2>9, <2>10 DEF Operation
  <2> QED
    BY <2>1, <2>11
<1> QED
  BY <1>3, <1>4

\* At the start there is no row, and none is selected.
LEMMA RowsInit == Init => Rows!Init /\ Reads(b, bline, rows, value)
<1> SUFFICES ASSUME Init
             PROVE  Rows!Init /\ Reads(b, bline, rows, value)
  OBVIOUS
<1>1. b = Nothing /\ rows = <<>> /\ value = 0
  BY DEF Init, Nothing
<1>2. Good(b, <<>>)
  BY <1>1, NothingFacts
<1>3. Listed(b) = <<>>
  BY <1>2, ListedFacts
<1>4. DOMAIN <<>> = {} /\ Len(<<>>) = 0
  OBVIOUS
<1>5. SelectInSeq(<<>>, LAMBDA l : l = b.selection) = 0
  BY <1>4 DEF SelectInSeq
<1>6. Reads(b, bline, rows, value)
  BY <1>1, <1>3, <1>4, <1>5 DEF Reads
<1> QED
  BY <1>1, <1>6 DEF Rows!Init

\* In every behaviour of a browser that inserts no line behind the end, the list of
\* items, found through the cached line and relinked by every operation, is the
\* sequence of rows that the program asked for, sorted when it asked for that, and
\* value() is the number of the row that was selected.
THEOREM RowsRefined == Beyond = 0 /\ Spec => RowsSpec
<1> DEFINE J == Beyond = 0 /\ IInv /\ Reads(b, bline, rows, value)
<1>1. Beyond = 0 /\ Init => J /\ Rows!Init
  BY IInvInit, RowsInit
<1>2. J /\ [Next]_vars => J' /\ [Rows!Next]_(Rows!vars)
  BY IInvNext, RowsNext
<1> HIDE DEF J
<1> QED
  BY <1>1, <1>2, PTL DEF Spec, RowsSpec, Rows!Spec
=============================================================================
