-------------------------- MODULE FlEntriesProofs ---------------------------
(***************************************************************************)
(* Proofs about the callbacks that Fl::wait() runs, for any number of them *)
(* and any nesting of event loops.  The two specifications have the shape  *)
(* of their entries in common (FlEntries) and no state.                    *)
(*                                                                         *)
(* FlChecks: the list of checks and the free list stay lists and share no  *)
(* entry, and a pass of run_checks() calls every check once.               *)
(*                                                                         *)
(* FlIdle: the pointers of the idle callbacks stay one closed ring and one *)
(* free list, whichever entry a callback adds or removes.                  *)
(***************************************************************************)
EXTENDS FlChecks, FlIdle, SequenceLemmas, FiniteSetTheorems

Frames == [phase : {"checks", "callback", "events"},
           todo : SUBSET Entries, called : SUBSET Entries]

\* C is the list at p and F the free list at f; together they hold the m entries
\* that were allocated, each once.
Lists(next, p, f, m, C, F) ==
  /\ C \in Seq(Entries) /\ F \in Seq(Entries)
  /\ Chain(next, C, p, 0) /\ Chain(next, F, f, 0)
  /\ Distinct(C) /\ Distinct(F) /\ ToSet(C) \intersect ToSet(F) = {}
  /\ ToSet(C) \union ToSet(F) = 1 .. m /\ Len(C) + Len(F) = m

\* The pointer q is to the j-th entry of C, or null behind the last.
At(C, q, j) == j \in 1 .. Len(C) + 1 /\ q = IF j = Len(C) + 1 THEN 0 ELSE C[j]

Rest(C, j) == {C[i] : i \in j .. Len(C)}

Passing(frame) == frame.phase # "events"
Outer(st, d)   == \E e \in d + 1 .. Len(st) : Passing(st[e])

\* The innermost pass has yet to call only what next_check will meet, and will
\* meet nothing that it called.  A pass inside another one began when next_check
\* was at the first check: the outer one then had called nothing that is still in
\* the list, and will start again from the first check.
PassOK(frame, outer, C, j) ==
  /\ ~Passing(frame) => frame.todo = {} /\ frame.called = {}
  /\ frame.todo \subseteq ToSet(C) /\ frame.called \subseteq ToSet(C)
  /\ Passing(frame) /\ outer => frame.called = {}
  /\ Passing(frame) /\ ~outer =>
       frame.todo \subseteq Rest(C, j) /\ frame.called \intersect Rest(C, j) = {}
Passes(st, C, j) == \A d \in 1 .. Len(st) : PassOK(st[d], Outer(st, d), C, j)

Types ==
  /\ nxt \in [Entries -> Entries \union {0}] /\ handler \in [Entries -> Handlers]
  /\ allocated \in 0 .. MaxEntries
  /\ stack \in Seq(Frames) /\ Len(stack) <= MaxDepth

IInv ==
  /\ Types
  /\ \E C, F \in Seq(Entries) : \E j \in 1 .. Len(C) + 1 :
       /\ Lists(nxt, first_check, free_check, allocated, C, F)
       /\ At(C, next_check, j) /\ Passes(stack, C, j)
-----------------------------------------------------------------------------
LEMMA EntriesFacts == 0 \notin Entries /\ Entries \subseteq Nat /\ MaxEntries \in Nat
  BY EntriesAssumption DEF Entries

\* The pointer to the j-th entry.
LEMMA ListAt ==
  ASSUME NEW C \in Seq(Entries), NEW p, NEW next, Chain(next, C, p, 0), Len(C) <= MaxEntries
  PROVE  Kept(Follow(next, p, MaxEntries), Entries) = C
  BY EntriesFacts, ChainList

LEMMA ListsFacts ==
  ASSUME NEW next, NEW p, NEW f, NEW m \in 0 .. MaxEntries, NEW C, NEW F, Lists(next, p, f, m, C, F)
  PROVE  /\ C \in Seq(Entries) /\ F \in Seq(Entries) /\ Len(C) \in Nat /\ Len(F) \in Nat
         /\ Len(C) <= MaxEntries /\ Len(F) <= MaxEntries
         /\ Kept(Follow(next, p, MaxEntries), Entries) = C
         /\ Kept(Follow(next, f, MaxEntries), Entries) = F
<1>1. /\ C \in Seq(Entries) /\ F \in Seq(Entries) /\ Len(C) \in Nat /\ Len(F) \in Nat
      /\ Len(C) + Len(F) = m /\ Chain(next, C, p, 0) /\ Chain(next, F, f, 0)
  BY DEF Lists
<1>2. Len(C) <= MaxEntries /\ Len(F) <= MaxEntries
  BY <1>1, EntriesFacts
<1> QED
  BY <1>1, <1>2, ListAt

LEMMA RestFacts ==
  ASSUME NEW C \in Seq(Entries), NEW j \in 1 .. Len(C) + 1
  PROVE  /\ Rest(C, 1) = ToSet(C) /\ Rest(C, Len(C) + 1) = {} /\ Rest(C, j) \subseteq ToSet(C)
         /\ Rest(C, j) = ToSet(SubSeq(C, j, Len(C)))
<1>1. Len(C) \in Nat
  OBVIOUS
<1>2. ToSet(C) = {C[i] : i \in 1 .. Len(C)}
  BY DEF ToSet
<1>3. Rest(C, Len(C) + 1) = {}
  BY <1>1 DEF Rest
<1>4. Rest(C, j) = ToSet(SubSeq(C, j, Len(C)))
  BY Split DEF Rest
<1>5. Rest(C, j) \subseteq ToSet(C)
  BY <1>1, <1>2 DEF Rest
<1> QED
  BY <1>2, <1>3, <1>4, <1>5 DEF Rest

\* next_check is the first check exactly when it is the first entry.
LEMMA AtFirst ==
  ASSUME NEW next, NEW p, NEW f, NEW m, NEW C, NEW F, Lists(next, p, f, m, C, F),
         NEW q, NEW j, At(C, q, j)
  PROVE  q = p <=> j = 1
<1>1. C \in Seq(Entries) /\ Len(C) \in Nat /\ Distinct(C) /\ Chain(next, C, p, 0)
  BY DEF Lists
<1>2. p = IF C = <<>> THEN 0 ELSE C[1]
  BY <1>1 DEF Chain
<1>3. j \in 1 .. Len(C) + 1 /\ q = IF j = Len(C) + 1 THEN 0 ELSE C[j]
  BY DEF At
<1>4. CASE C = <<>>
  BY <1>1, <1>2, <1>3, <1>4
<1>5. CASE C # <<>>
  <2>1. Len(C) # 0 /\ 1 \in 1 .. Len(C) /\ C[1] \in Entries /\ C[1] # 0
    BY <1>1, <1>5, EntriesFacts
  <2>2. CASE j = Len(C) + 1
    BY <1>1, <1>2, <1>3, <1>5, <2>1, <2>2
  <2>3. CASE j # Len(C) + 1
    <3>1. j \in 1 .. Len(C)
      BY <1>1, <1>3, <2>3
    <3> QED
      BY <1>1, <1>2, <1>3, <1>5, <2>1, <2>3, <3>1 DEF Distinct
  <2> QED
    BY <2>2, <2>3
<1> QED
  BY <1>4, <1>5

LEMMA IInvInit == Init => IInv
<1> SUFFICES ASSUME Init PROVE IInv
  OBVIOUS
<1>1. MaxEntries \in Nat /\ MaxDepth \in Nat
  BY EntriesAssumption
<1>2. <<>> \in Seq(Entries) /\ Len(<<>>) = 0 /\ ToSet(<<>>) = {}
  BY DEF ToSet
<1>3. Lists(nxt, 0, 0, 0, <<>>, <<>>)
  <2>1. Chain(nxt, <<>>, 0, 0) /\ Distinct(<<>>)
    BY <1>2 DEF Chain, Distinct
  <2>2. 1 .. 0 = {}
    OBVIOUS
  <2> QED
    BY <1>2, <2>1, <2>2 DEF Lists
<1>4. At(<<>>, 0, 1) /\ 1 \in 1 .. Len(<<>>) + 1
  BY <1>2 DEF At
<1>5. stack = <<>> /\ stack \in Seq(Frames) /\ Len(stack) = 0
  BY DEF Init, NoEntries
<1>6. Passes(stack, <<>>, 1)
  BY <1>5 DEF Passes
<1>7. handler \in [Entries -> Handlers]
  BY EntriesAssumption DEF Init, NoEntries
<1>8. Types
  BY <1>1, <1>5, <1>7 DEF Init, NoEntries, Types
<1> QED
  BY <1>2, <1>3, <1>4, <1>6, <1>8 DEF Init, NoEntries, IInv
-----------------------------------------------------------------------------
(* The passes under way *)

\* The list grew or shrank behind or before next_check.
LEMMA PassesKept ==
  ASSUME NEW st, NEW C, NEW j, NEW D, NEW k, Passes(st, C, j),
         ToSet(C) \subseteq ToSet(D), Rest(C, j) \subseteq Rest(D, k),
         Rest(D, k) \intersect ToSet(C) \subseteq Rest(C, j)
  PROVE  Passes(st, D, k)
<1> SUFFICES ASSUME NEW d \in 1 .. Len(st)
             PROVE  PassOK(st[d], Outer(st, d), D, k)
  BY DEF Passes
<1>1. PassOK(st[d], Outer(st, d), C, j)
  BY DEF Passes
<1> QED
  BY <1>1 DEF PassOK

\* A call of Fl::wait() that runs no checks, and its end.
LEMMA PassesQuiet ==
  ASSUME NEW st \in Seq(Frames), NEW C, NEW j, NEW fr \in Frames, ~Passing(fr),
         fr.todo = {}, fr.called = {}, Passes(st, C, j)
  PROVE  Passes(Append(st, fr), C, j)
<1> DEFINE n == Len(st)
           t == Append(st, fr)
<1>1. n \in Nat /\ Len(t) = n + 1 /\ t[n + 1] = fr /\ \A d \in 1 .. n : t[d] = st[d]
  OBVIOUS
<1> HIDE DEF t
<1>2. ASSUME NEW d \in 1 .. n
      PROVE  PassOK(t[d], Outer(t, d), C, j)
  <2>1. Outer(t, d) <=> Outer(st, d)
    <3>1. ASSUME NEW e \in d + 1 .. n + 1, Passing(t[e])
          PROVE  e \in d + 1 .. n /\ Passing(st[e])
      BY <1>1, <3>1
    <3>2. ASSUME NEW e \in d + 1 .. n, Passing(st[e])
          PROVE  e \in d + 1 .. n + 1 /\ Passing(t[e])
      BY <1>1, <3>2
    <3> QED
      BY <1>1, <3>1, <3>2 DEF Outer
  <2>2. PassOK(st[d], Outer(st, d), C, j)
    BY DEF Passes
  <2> QED
    BY <1>1, <2>1, <2>2 DEF PassOK
<1>3. PassOK(t[n + 1], Outer(t, n + 1), C, j)
  BY <1>1 DEF PassOK
<1> QED
  BY <1>1, <1>2, <1>3 DEF Passes, t

LEMMA PassesPopped ==
  ASSUME NEW st \in Seq(Frames), st # <<>>, NEW C, NEW j, ~Passing(st[Len(st)]), Passes(st, C, j)
  PROVE  Passes(Front(st), C, j)
<1> DEFINE n == Len(st)
           t == Front(st)
<1>1. n \in Nat \ {0} /\ Len(t) = n - 1 /\ \A d \in 1 .. n - 1 : t[d] = st[d]
  BY FrontLast
<1> HIDE DEF t
<1>2. ASSUME NEW d \in 1 .. n - 1
      PROVE  PassOK(t[d], Outer(t, d), C, j)
  <2>1. Outer(t, d) <=> Outer(st, d)
    <3>1. ASSUME NEW e \in d + 1 .. n - 1, Passing(t[e])
          PROVE  e \in d + 1 .. n /\ Passing(st[e])
      BY <1>1, <3>1
    <3>2. ASSUME NEW e \in d + 1 .. n, Passing(st[e])
          PROVE  e \in d + 1 .. n - 1 /\ Passing(t[e])
      BY <1>1, <3>2
    <3> QED
      BY <1>1, <3>1, <3>2 DEF Outer
  <2>2. PassOK(st[d], Outer(st, d), C, j)
    BY <1>1 DEF Passes
  <2> QED
    BY <1>1, <2>1, <2>2 DEF PassOK
<1> QED
  BY <1>1, <1>2 DEF Passes, t

\* A pass begins at the first check.
LEMMA PassesBegun ==
  ASSUME NEW st \in Seq(Frames), NEW C \in Seq(Entries), NEW fr \in Frames, Passing(fr),
         fr.todo = ToSet(C), fr.called = {}, Passes(st, C, 1)
  PROVE  Passes(Append(st, fr), C, 1)
<1> DEFINE n == Len(st)
           t == Append(st, fr)
<1>1. n \in Nat /\ Len(t) = n + 1 /\ t[n + 1] = fr /\ \A d \in 1 .. n : t[d] = st[d]
  OBVIOUS
<1> HIDE DEF t
<1>2. Rest(C, 1) = ToSet(C)
  <2>1. 1 \in 1 .. Len(C) + 1
    OBVIOUS
  <2> QED
    BY <2>1, RestFacts
<1>3. ASSUME NEW d \in 1 .. n
      PROVE  PassOK(t[d], Outer(t, d), C, 1)
  <2>1. PassOK(st[d], Outer(st, d), C, 1)
    BY DEF Passes
  <2>2. st[d].called = {}
    BY <1>2, <2>1 DEF PassOK
  <2> QED
    BY <1>1, <1>2, <2>1, <2>2 DEF PassOK
<1>4. PassOK(t[n + 1], Outer(t, n + 1), C, 1)
  BY <1>1, <1>2 DEF PassOK
<1> QED
  BY <1>1, <1>3, <1>4 DEF Passes, t

\* A step of the innermost pass: those outside it have called nothing and have to
\* call only what is in the list.
LEMMA PassesStep ==
  ASSUME NEW st \in Seq(Frames), st # <<>>, NEW C \in Seq(Entries), NEW j, NEW k, NEW fr \in Frames,
         Passing(st[Len(st)]), Passes(st, C, j),
         Passing(fr) \/ k = 1,
         PassOK(fr, FALSE, C, k)
  PROVE  Passes([st EXCEPT ![Len(st)] = fr], C, k)
<1> DEFINE n == Len(st)
           t == [st EXCEPT ![n] = fr]
<1>1. /\ n \in Nat \ {0} /\ Len(t) = n /\ t[n] = fr
      /\ \A d \in 1 .. n - 1 : t[d] = st[d]
  OBVIOUS
<1> HIDE DEF t
<1>2. Rest(C, 1) = ToSet(C)
  <2>1. 1 \in 1 .. Len(C) + 1
    OBVIOUS
  <2> QED
    BY <2>1, RestFacts
<1>3. ASSUME NEW d \in 1 .. n - 1
      PROVE  PassOK(t[d], Outer(t, d), C, k)
  <2>1. d \in 1 .. n /\ n \in d + 1 .. n
    BY <1>1
  <2>2. Outer(st, d) /\ (Passing(fr) => Outer(t, d))
    BY <1>1, <2>1 DEF Outer
  <2>3. PassOK(st[d], Outer(st, d), C, j)
    BY <2>1 DEF Passes
  <2>4. /\ ~Passing(st[d]) => st[d].todo = {} /\ st[d].called = {}
        /\ st[d].todo \subseteq ToSet(C) /\ st[d].called = {}
    BY <2>2, <2>3 DEF PassOK
  <2>5. CASE Passing(fr)
    BY <1>1, <2>2, <2>4, <2>5 DEF PassOK
  <2>6. CASE k = 1
    BY <1>1, <1>2, <2>4, <2>6 DEF PassOK
  <2> QED
    BY <2>5, <2>6
<1>4. PassOK(t[n], Outer(t, n), C, k)
  <2>1. ~Outer(t, n)
    BY <1>1 DEF Outer
  <2> QED
    BY <1>1, <2>1 DEF PassOK
<1>5. ASSUME NEW d \in 1 .. n
      PROVE  PassOK(t[d], Outer(t, d), C, k)
  BY <1>1, <1>3, <1>4
<1>6. Passes(t, C, k)
  BY <1>1, <1>5 DEF Passes
<1> QED
  BY <1>6 DEF t
-----------------------------------------------------------------------------
(* The lists *)

\* An entry that is in neither list is put in front of the checks.
LEMMA ListsAdded ==
  ASSUME NEW next \in [Entries -> Entries \union {0}], NEW p, NEW f, NEW m \in Nat, NEW C, NEW F,
         C \in Seq(Entries), F \in Seq(Entries), NEW t \in Entries,
         Chain(next, C, p, 0), Chain(next, F, f, 0), Distinct(C), Distinct(F),
         ToSet(C) \intersect ToSet(F) = {}, t \notin ToSet(C) \union ToSet(F),
         ToSet(C) \union ToSet(F) \union {t} = 1 .. m, Len(C) + Len(F) + 1 = m
  PROVE  Lists([next EXCEPT ![t] = p], t, f, m, <<t>> \o C, F)
<1> DEFINE D == <<t>> \o C
           other == [next EXCEPT ![t] = p]
<1>1. /\ D \in Seq(Entries) /\ Len(D) = Len(C) + 1 /\ ToSet(D) = ToSet(C) \union {t} /\ Distinct(D)
  BY PushFacts
<1>2. other[t] = p /\ \A x \in Entries : x # t => other[x] = next[x]
  OBVIOUS
<1>3. \A s \in Seq(Entries) : ToSet(s) \subseteq Entries
  BY DEF ToSet
<1>4. \A x \in ToSet(C) \union ToSet(F) : other[x] = next[x]
  BY <1>2, <1>3
<1> HIDE DEF other, D
<1>5. Chain(other, C, p, 0) /\ Chain(other, F, f, 0)
  BY <1>4, ChainElsewhere
<1>6. Chain(other, D, t, 0)
  BY <1>2, <1>5, ChainPush DEF D
<1>7. Len(C) \in Nat /\ Len(F) \in Nat
  OBVIOUS
<1>8. Len(D) + Len(F) = m
  BY <1>1, <1>7
<1>9. ToSet(D) \intersect ToSet(F) = {} /\ ToSet(D) \union ToSet(F) = 1 .. m
  BY <1>1
<1> QED
  BY <1>1, <1>5, <1>6, <1>8, <1>9, Zenon DEF Lists, other, D

\* The entry that new or the free list gives to add_check().
LEMMA AddLists ==
  ASSUME NEW h, NEW C, NEW F, Types, add_check(h),
         Lists(nxt, first_check, free_check, allocated, C, F)
  PROVE  \E D \in Seq(Entries) :
           /\ first_check' \in Entries /\ first_check' \notin ToSet(C)
           /\ allocated' \in 0 .. MaxEntries
           /\ nxt' \in [Entries -> Entries \union {0}]
           /\ handler' = [handler EXCEPT ![first_check'] = h]
           /\ Lists(nxt', first_check', free_check', allocated', <<first_check'>> \o C, D)
<1> DEFINE t == IF free_check # 0 THEN free_check ELSE allocated + 1
<1>1. /\ free_check # 0 \/ allocated < MaxEntries
      /\ free_check' = IF free_check # 0 THEN nxt[free_check] ELSE 0
      /\ allocated' = IF free_check # 0 THEN allocated ELSE t
      /\ nxt' = [nxt EXCEPT ![t] = first_check]
      /\ first_check' = t /\ handler' = [handler EXCEPT ![t] = h]
  BY DEF add_check
<1>2. nxt \in [Entries -> Entries \union {0}] /\ allocated \in 0 .. MaxEntries /\ MaxEntries \in Nat
  BY EntriesFacts DEF Types
<1>3. /\ C \in Seq(Entries) /\ F \in Seq(Entries) /\ Len(C) \in Nat /\ Len(F) \in Nat
      /\ Chain(nxt, C, first_check, 0) /\ Chain(nxt, F, free_check, 0)
      /\ Distinct(C) /\ Distinct(F) /\ ToSet(C) \intersect ToSet(F) = {}
      /\ ToSet(C) \union ToSet(F) = 1 .. allocated /\ Len(C) + Len(F) = allocated
  BY DEF Lists
<1>4. first_check \in Entries \union {0}
  <2>1. CASE C = <<>>
    BY <1>3, <2>1 DEF Chain
  <2>2. CASE C # <<>>
    BY <1>3, <2>2 DEF Chain
  <2> QED
    BY <2>1, <2>2
<1>5. CASE free_check # 0
  <2>1. F # <<>>
    BY <1>3, <1>5 DEF Chain
  <2>2. /\ Len(F) \in Nat \ {0} /\ Tail(F) \in Seq(Entries) /\ Len(Tail(F)) = Len(F) - 1
        /\ Head(F) = F[1] /\ Head(F) \in Entries
        /\ ToSet(F) = {Head(F)} \union ToSet(Tail(F))
        /\ Distinct(Tail(F)) /\ Head(F) \notin ToSet(Tail(F))
    BY <1>3, <2>1, HeadTailSet
  <2>3. t = Head(F)
    BY <1>3, <1>5, <2>1, <2>2 DEF Chain
  <2> DEFINE D == Tail(F)
  <2>4. Chain(nxt, D, nxt[t], 0)
    BY <1>3, <1>5, <2>1, ChainPop
  <2> HIDE DEF t, D
  <2>5. t \in Entries /\ t \notin ToSet(C) \union ToSet(D)
    BY <1>3, <2>2, <2>3 DEF D
  <2>6. ToSet(C) \intersect ToSet(D) = {} /\ ToSet(C) \union ToSet(D) \union {t} = 1 .. allocated
    BY <1>3, <2>2, <2>3 DEF D
  <2>7. Len(C) + Len(D) + 1 = allocated /\ D \in Seq(Entries) /\ Distinct(D) /\ allocated \in Nat
    BY <1>2, <1>3, <2>2 DEF D
  <2>8. Lists([nxt EXCEPT ![t] = first_check], t, nxt[t], allocated, <<t>> \o C, D)
    BY <1>2, <1>3, <2>4, <2>5, <2>6, <2>7, ListsAdded
  <2>9. /\ first_check' = t /\ free_check' = nxt[t] /\ allocated' = allocated
        /\ nxt' = [nxt EXCEPT ![t] = first_check] /\ handler' = [handler EXCEPT ![t] = h]
    BY <1>1, <1>5 DEF t
  <2>10. nxt' \in [Entries -> Entries \union {0}]
    BY <1>2, <1>4, <2>9
  <2> QED
    BY <1>2, <2>5, <2>7, <2>8, <2>9, <2>10
<1>6. CASE free_check = 0
  <2>1. F = <<>>
    <3>1. F # <<>> => F[1] \in Entries /\ free_check = F[1]
      BY <1>3 DEF Chain
    <3> QED
      BY <1>6, <3>1, EntriesFacts
  <2>2. t = allocated + 1 /\ t \in Entries /\ t \in Nat
    BY <1>1, <1>2, <1>6 DEF Entries
  <2> HIDE DEF t
  <2>3. ToSet(F) = {} /\ Len(F) = 0
    BY <2>1 DEF ToSet
  <2>4. t \notin ToSet(C) \union ToSet(F) /\ ToSet(C) \union ToSet(F) \union {t} = 1 .. t
    BY <1>2, <1>3, <2>2
  <2>5. Len(C) + Len(F) + 1 = t
    BY <1>2, <1>3, <2>2
  <2>6. Lists([nxt EXCEPT ![t] = first_check], t, free_check, t, <<t>> \o C, F)
    BY <1>2, <1>3, <2>2, <2>4, <2>5, ListsAdded
  <2>7. /\ first_check' = t /\ free_check' = free_check /\ allocated' = t
        /\ nxt' = [nxt EXCEPT ![t] = first_check] /\ handler' = [handler EXCEPT ![t] = h]
    BY <1>1, <1>6 DEF t
  <2>8. nxt' \in [Entries -> Entries \union {0}] /\ t \in 0 .. MaxEntries
    BY <1>2, <1>4, <2>2, <2>7 DEF Entries
  <2> QED
    BY <1>3, <2>2, <2>4, <2>6, <2>7, <2>8
<1> QED
  BY <1>5, <1>6

\* Link() makes a list of its entries.
LEMMA LinkChain ==
  ASSUME NEW s \in Seq(Entries), Distinct(s), NEW tail
  PROVE  /\ Chain(Link(s, tail), s, First(s, tail), tail)
         /\ \A e \in Entries \ ToSet(s) : Link(s, tail)[e] = nxt[e]
<1>1. ASSUME NEW i \in 1 .. Len(s)
      PROVE  Link(s, tail)[s[i]] = IF i = Len(s) THEN tail ELSE s[i + 1]
  <2>1. s[i] \in Entries /\ s[i] \in ToSet(s)
    BY DEF ToSet
  <2> DEFINE k == CHOOSE n \in 1 .. Len(s) : s[n] = s[i]
  <2>2. k \in 1 .. Len(s) /\ s[k] = s[i]
    BY Zenon
  <2>3. k = i
    BY <2>2 DEF Distinct
  <2> QED
    BY <2>1, <2>3, Zenon DEF Link
<1>2. First(s, tail) = IF s = <<>> THEN tail ELSE s[1]
  BY DEF First
<1>3. \A e \in Entries \ ToSet(s) : Link(s, tail)[e] = nxt[e]
  BY DEF Link
<1> QED
  BY <1>1, <1>2, <1>3 DEF Chain

LEMMA LinkType ==
  ASSUME NEW s \in Seq(Entries), NEW tail \in Entries \union {0}, nxt \in [Entries -> Entries \union {0}]
  PROVE  Link(s, tail) \in [Entries -> Entries \union {0}]
<1>1. ASSUME NEW e \in Entries
      PROVE  Link(s, tail)[e] \in Entries \union {0}
  <2>1. CASE e \notin ToSet(s)
    BY <2>1 DEF Link
  <2>2. CASE e \in ToSet(s)
    <3> DEFINE i == CHOOSE n \in 1 .. Len(s) : s[n] = e
    <3>1. \E n \in 1 .. Len(s) : s[n] = e
      BY <2>2 DEF ToSet
    <3>2. i \in 1 .. Len(s)
      BY <3>1, Zenon
    <3>3. Link(s, tail)[e] = IF i = Len(s) THEN tail ELSE s[i + 1]
      BY <2>2, Zenon DEF Link
    <3> HIDE DEF i
    <3>4. CASE i = Len(s)
      BY <3>3, <3>4
    <3>5. CASE i # Len(s)
      <4>1. i + 1 \in 1 .. Len(s)
        BY <3>2, <3>5
      <4>2. s[i + 1] \in Entries
        BY <4>1
      <4> QED
        BY <3>3, <3>5, <4>2
    <3> QED
      BY <3>4, <3>5
  <2> QED
    BY <2>1, <2>2
<1> QED
  BY <1>1 DEF Link

\* remove_check() moves the entries that match to the free list.
LEMMA RemoveLists ==
  ASSUME NEW h, NEW C, NEW F, Types, remove_check(h),
         Lists(nxt, first_check, free_check, allocated, C, F)
  PROVE  LET K == Kept(C, Others(h))
             G == Kept(C, Matching(h))
         IN  /\ nxt' \in [Entries -> Entries \union {0}]
             /\ Lists(nxt', first_check', free_check', allocated, K, Reverse(G) \o F)
<1> DEFINE K == Kept(C, Others(h))
           G == Kept(C, Matching(h))
           R == Reverse(G)
           N == [e \in Entries |-> IF e \in ToSet(K) THEN Link(K, 0)[e] ELSE Link(R, free_check)[e]]
<1>1. nxt \in [Entries -> Entries \union {0}] /\ allocated \in 0 .. MaxEntries /\ MaxEntries \in Nat
  BY EntriesFacts DEF Types
<1>2. /\ C \in Seq(Entries) /\ F \in Seq(Entries) /\ Len(C) \in Nat /\ Len(F) \in Nat
      /\ Chain(nxt, C, first_check, 0) /\ Chain(nxt, F, free_check, 0)
      /\ Distinct(C) /\ Distinct(F) /\ ToSet(C) \intersect ToSet(F) = {}
      /\ ToSet(C) \union ToSet(F) = 1 .. allocated /\ Len(C) + Len(F) = allocated
  BY DEF Lists
<1>3. Checks = C
  BY <1>1, ListsFacts DEF Checks, ListFrom
<1>4. first_check' = First(K, 0) /\ free_check' = First(R, free_check) /\ nxt' = N
  BY <1>3 DEF remove_check
<1>5. /\ K \in Seq(Entries) /\ G \in Seq(Entries) /\ Distinct(K) /\ Distinct(G)
      /\ ToSet(K) = ToSet(C) \intersect Others(h) /\ ToSet(G) = ToSet(C) \intersect Matching(h)
  BY <1>2, KeptType, KeptSet, KeptDistinct
<1>6. Len(K) + Len(G) = Len(C)
  BY <1>2, KeptLen DEF Others
<1>7. R \in Seq(Entries) /\ Len(R) = Len(G) /\ ToSet(R) = ToSet(G) /\ Distinct(R)
  BY <1>5, ReverseFacts, ReverseDistinct
<1>8. \A s \in Seq(Entries) : ToSet(s) \subseteq Entries
  BY DEF ToSet
<1>9. ToSet(K) \intersect ToSet(R) = {} /\ ToSet(K) \union ToSet(R) = ToSet(C)
  <2>1. Others(h) \intersect Matching(h) = {} /\ Others(h) \union Matching(h) = Entries
    BY DEF Others, Matching
  <2> QED
    BY <1>2, <1>5, <1>7, <1>8, <2>1
<1>10. free_check \in Entries \union {0}
  <2>1. CASE F = <<>>
    BY <1>2, <2>1 DEF Chain
  <2>2. CASE F # <<>>
    BY <1>2, <2>2 DEF Chain
  <2> QED
    BY <2>1, <2>2
<1> HIDE DEF K, G, R
<1>11. /\ Chain(Link(K, 0), K, First(K, 0), 0)
       /\ Chain(Link(R, free_check), R, First(R, free_check), free_check)
       /\ \A e \in Entries \ ToSet(R) : Link(R, free_check)[e] = nxt[e]
  BY <1>5, <1>7, LinkChain
<1>12. N \in [Entries -> Entries \union {0}]
  <2>1. Link(K, 0) \in [Entries -> Entries \union {0}]
        /\ Link(R, free_check) \in [Entries -> Entries \union {0}]
    BY <1>1, <1>5, <1>7, <1>10, LinkType
  <2> QED
    BY <2>1
<1>13. /\ \A e \in ToSet(K) : N[e] = Link(K, 0)[e]
       /\ \A e \in ToSet(R) : N[e] = Link(R, free_check)[e]
       /\ \A e \in ToSet(F) : N[e] = nxt[e]
  <2>1. ToSet(K) \subseteq Entries /\ ToSet(R) \subseteq Entries /\ ToSet(F) \subseteq Entries
    BY <1>2, <1>5, <1>7, <1>8
  <2>2. \A e \in ToSet(F) : e \notin ToSet(K) /\ e \notin ToSet(R)
    BY <1>2, <1>9
  <2>3. \A e \in ToSet(R) : e \notin ToSet(K)
    BY <1>9
  <2> QED
    BY <1>11, <2>1, <2>2, <2>3
<1> HIDE DEF N
<1>14. Chain(N, K, First(K, 0), 0)
  BY <1>5, <1>11, <1>13, ChainElsewhere
<1>15. Chain(N, R, First(R, free_check), free_check) /\ Chain(N, F, free_check, 0)
  BY <1>2, <1>7, <1>11, <1>13, ChainElsewhere
<1> DEFINE Q == R \o F
<1>16. Chain(N, Q, First(R, free_check), 0)
  BY <1>2, <1>7, <1>15, ChainConcat
<1>17. /\ Q \in Seq(Entries) /\ Len(Q) = Len(R) + Len(F) /\ ToSet(Q) = ToSet(R) \union ToSet(F)
       /\ Distinct(Q)
  <2>1. ToSet(R) \intersect ToSet(F) = {}
    BY <1>2, <1>9
  <2>2. Q \in Seq(Entries) /\ Len(Q) = Len(R) + Len(F)
    BY <1>2, <1>7, ConcatProperties
  <2> QED
    BY <1>2, <1>7, <2>1, <2>2, ToSetConcat, ConcatDistinct
<1> HIDE DEF Q
<1>18. Len(K) + Len(Q) = allocated
  <2>1. Len(K) \in Nat /\ Len(G) \in Nat
    BY <1>5
  <2>2. /\ Len(C) \in Nat /\ Len(F) \in Nat /\ Len(C) + Len(F) = allocated
        /\ Len(K) + Len(G) = Len(C) /\ Len(Q) = Len(G) + Len(F)
    BY <1>2, <1>6, <1>7, <1>17, Zenon
  <2> QED
    BY <2>1, <2>2
<1>19. ToSet(K) \intersect ToSet(Q) = {} /\ ToSet(K) \union ToSet(Q) = 1 .. allocated
  BY <1>2, <1>9, <1>17
<1>20. Lists(N, First(K, 0), First(R, free_check), allocated, K, Q)
  BY <1>5, <1>14, <1>16, <1>17, <1>18, <1>19 DEF Lists
<1> QED
  BY <1>4, <1>12, <1>20 DEF K, G, R, Q
-----------------------------------------------------------------------------
(* The steps *)

LEMMA AddStep ==
  ASSUME NEW h \in Handlers, IInv, add_check(h)
  PROVE  IInv'
<1>1. Types
  BY DEF IInv
<1>0. PICK C, F \in Seq(Entries) : \E i \in 1 .. Len(C) + 1 :
        /\ Lists(nxt, first_check, free_check, allocated, C, F)
        /\ At(C, next_check, i) /\ Passes(stack, C, i)
  BY DEF IInv
<1>2. PICK j \in 1 .. Len(C) + 1 :
        /\ Lists(nxt, first_check, free_check, allocated, C, F)
        /\ At(C, next_check, j) /\ Passes(stack, C, j)
  BY <1>0
<1> DEFINE t == first_check'
           B == <<t>> \o C
           k == IF j = 1 THEN 1 ELSE j + 1
<1>3. PICK D \in Seq(Entries) :
        /\ t \in Entries /\ t \notin ToSet(C) /\ allocated' \in 0 .. MaxEntries
        /\ nxt' \in [Entries -> Entries \union {0}] /\ handler' = [handler EXCEPT ![t] = h]
        /\ Lists(nxt', t, free_check', allocated', B, D)
  BY <1>1, <1>2, AddLists
<1>4. /\ next_check' = IF next_check = first_check THEN t ELSE next_check
      /\ stack' = stack
  BY DEF add_check
<1>5. next_check = first_check <=> j = 1
  BY <1>2, AtFirst
<1>6. Types'
  BY <1>1, <1>3, <1>4 DEF Types
<1> HIDE DEF t
<1>7. /\ B \in Seq(Entries) /\ Len(B) = Len(C) + 1 /\ ToSet(B) = ToSet(C) \union {t}
  BY <1>2, <1>3, PushFacts
<1>8. /\ Len(C) \in Nat /\ B[1] = t /\ \A i \in 1 .. Len(C) : B[i + 1] = C[i]
  <2>1. <<t>> \in Seq(Entries) /\ Len(<<t>>) = 1 /\ <<t>>[1] = t /\ Len(C) \in Nat
    BY <1>3
  <2>2. \A i \in 1 .. Len(<<t>>) + Len(C) : B[i] = IF i <= Len(<<t>>) THEN <<t>>[i] ELSE C[i - Len(<<t>>)]
    BY <1>2, <2>1, ConcatProperties
  <2> HIDE DEF B
  <2>3. B[1] = t
    BY <2>1, <2>2
  <2>4. ASSUME NEW i \in 1 .. Len(C)
        PROVE  B[i + 1] = C[i]
    <3>1. i + 1 \in 1 .. 1 + Len(C) /\ ~(i + 1 <= 1) /\ (i + 1) - 1 = i
      BY <2>1
    <3> QED
      BY <2>1, <2>2, <3>1
  <2> QED
    BY <2>1, <2>3, <2>4
<1> HIDE DEF B
<1>9. k \in 1 .. Len(B) + 1 /\ At(B, next_check', k)
  <2>1. CASE j = 1
    <3>1. k = 1 /\ 1 \in 1 .. Len(B) + 1 /\ 1 # Len(B) + 1
      BY <1>7, <1>8, <2>1
    <3> QED
      BY <1>4, <1>5, <1>8, <2>1, <3>1 DEF At
  <2>2. CASE j # 1
    <3>1. k = j + 1 /\ k \in 1 .. Len(B) + 1 /\ (k = Len(B) + 1 <=> j = Len(C) + 1)
          /\ (j # Len(C) + 1 => j \in 1 .. Len(C))
      BY <1>2, <1>7, <1>8, <2>2
    <3>2. next_check' = IF j = Len(C) + 1 THEN 0 ELSE C[j]
      BY <1>2, <1>4, <1>5, <2>2 DEF At
    <3> QED
      BY <1>8, <3>1, <3>2 DEF At
  <2> QED
    BY <2>1, <2>2
<1>10. Rest(C, j) \subseteq Rest(B, k) /\ Rest(B, k) \intersect ToSet(C) \subseteq Rest(C, j)
  <2>1. CASE j = 1
    <3>1. Rest(C, 1) = ToSet(C) /\ Rest(B, 1) = ToSet(B)
      <4>1. 1 \in 1 .. Len(C) + 1 /\ 1 \in 1 .. Len(B) + 1
        BY <1>7, <1>8
      <4> QED
        BY <1>2, <1>7, <4>1, RestFacts
    <3> QED
      BY <1>7, <2>1, <3>1
  <2>2. CASE j # 1
    <3>1. k = j + 1 /\ j \in Nat
      BY <1>2, <2>2
    <3>2. ASSUME NEW i \in j .. Len(C)
          PROVE  C[i] \in Rest(B, k)
      <4>1. i + 1 \in k .. Len(B) /\ i \in 1 .. Len(C)
        BY <1>2, <1>7, <1>8, <3>1
      <4>2. C[i] = B[i + 1]
        BY <1>8, <4>1
      <4> QED
        BY <4>1, <4>2 DEF Rest
    <3>3. ASSUME NEW i \in k .. Len(B)
          PROVE  B[i] \in Rest(C, j)
      <4>1. i - 1 \in j .. Len(C) /\ i - 1 \in 1 .. Len(C) /\ (i - 1) + 1 = i
        BY <1>2, <1>7, <1>8, <3>1
      <4>2. B[i] = C[i - 1]
        BY <1>8, <4>1
      <4> QED
        BY <4>1, <4>2 DEF Rest
    <3>4. Rest(C, j) \subseteq Rest(B, k)
      BY <3>2 DEF Rest
    <3>5. Rest(B, k) \subseteq Rest(C, j)
      BY <3>3 DEF Rest
    <3> QED
      BY <3>4, <3>5
  <2> QED
    BY <2>1, <2>2
<1>11. Passes(stack, B, k)
  BY <1>2, <1>7, <1>10, PassesKept
<1> QED
  BY <1>3, <1>4, <1>6, <1>7, <1>9, <1>11 DEF IInv, t

\* Entries that are removed are to be called no more, and count as not called.
Forgotten(st, T) == [i \in 1 .. Len(st) |-> [st[i] EXCEPT !.todo = @ \ T, !.called = @ \ T]]

LEMMA ForgetFacts ==
  ASSUME NEW st \in Seq(Frames), NEW T, NEW t, t = Forgotten(st, T)
  PROVE  /\ t \in Seq(Frames) /\ Len(t) = Len(st)
         /\ \A i \in 1 .. Len(st) :
              /\ t[i].phase = st[i].phase /\ t[i].todo = st[i].todo \ T
              /\ t[i].called = st[i].called \ T
<1>1. Len(st) \in Nat
  OBVIOUS
<1>2. ASSUME NEW i \in 1 .. Len(st)
      PROVE  /\ t[i] \in Frames /\ t[i].phase = st[i].phase /\ t[i].todo = st[i].todo \ T
             /\ t[i].called = st[i].called \ T
  <2>1. st[i] \in Frames
    OBVIOUS
  <2> DEFINE fr == st[i]
  <2>2. t[i] = [fr EXCEPT !.todo = fr.todo \ T, !.called = fr.called \ T]
    BY Zenon DEF Forgotten
  <2> HIDE DEF fr
  <2>3. fr \in Frames
    BY <2>1 DEF fr
  <2>4. /\ [fr EXCEPT !.todo = fr.todo \ T, !.called = fr.called \ T] \in Frames
        /\ [fr EXCEPT !.todo = fr.todo \ T, !.called = fr.called \ T].phase = fr.phase
        /\ [fr EXCEPT !.todo = fr.todo \ T, !.called = fr.called \ T].todo = fr.todo \ T
        /\ [fr EXCEPT !.todo = fr.todo \ T, !.called = fr.called \ T].called = fr.called \ T
    BY <2>3 DEF Frames
  <2> QED
    BY <2>2, <2>4, Zenon DEF fr
<1>3. DOMAIN t = 1 .. Len(st) /\ t = [i \in DOMAIN t |-> t[i]]
  BY Zenon DEF Forgotten
<1>4. \A i \in 1 .. Len(st) : t[i] \in Frames
  BY <1>2
<1>5. t \in Seq(Frames) /\ Len(t) = Len(st)
  BY <1>1, <1>3, <1>4, FunctionIsSeq
<1> QED
  BY <1>2, <1>5

LEMMA RemoveStep ==
  ASSUME NEW h \in Handlers, IInv, remove_check(h)
  PROVE  IInv'
<1>1. Types
  BY DEF IInv
<1>0. PICK C, F \in Seq(Entries) : \E i \in 1 .. Len(C) + 1 :
        /\ Lists(nxt, first_check, free_check, allocated, C, F)
        /\ At(C, next_check, i) /\ Passes(stack, C, i)
  BY DEF IInv
<1>2. PICK j \in 1 .. Len(C) + 1 :
        /\ Lists(nxt, first_check, free_check, allocated, C, F)
        /\ At(C, next_check, j) /\ Passes(stack, C, j)
  BY <1>0
<1> DEFINE O == Others(h)
           K == Kept(C, O)
           G == Kept(C, Matching(h))
           E == Reverse(G) \o F
           a == SubSeq(C, 1, j - 1)
           c == SubSeq(C, j, Len(C))
           k == Len(Kept(a, O)) + 1
<1>3. nxt' \in [Entries -> Entries \union {0}] /\ Lists(nxt', first_check', free_check', allocated, K, E)
  BY <1>1, <1>2, RemoveLists
<1>4. /\ Len(C) \in Nat /\ Len(C) <= MaxEntries /\ Checks = C /\ allocated \in 0 .. MaxEntries
  BY <1>1, <1>2, ListsFacts DEF Checks, ListFrom, Types
<1>5. /\ a \in Seq(Entries) /\ c \in Seq(Entries) /\ C = a \o c /\ Len(c) = Len(C) - j + 1
      /\ Rest(C, j) = ToSet(c)
  BY <1>2, Split, RestFacts
<1>6. ListFrom(next_check) = c
  <2>1. Chain(nxt, C, first_check, 0)
    BY <1>2 DEF Lists
  <2>2. Chain(nxt, c, next_check, 0)
    BY <1>2, <2>1, ChainSuffix DEF At
  <2>3. Len(c) <= MaxEntries
    BY <1>2, <1>4, <1>5, EntriesFacts
  <2> QED
    BY <1>5, <2>2, <2>3, ListAt DEF ListFrom
<1>7. /\ next_check' = First(Kept(c, O), 0) /\ handler' = handler /\ allocated' = allocated
      /\ stack' = Forgotten(stack, ToSet(G))
  BY <1>4, <1>6, Zenon DEF remove_check, Forget, Forgotten, Depth
<1> HIDE DEF O, a, c
<1>8. /\ Kept(a, O) \in Seq(Entries) /\ Kept(c, O) \in Seq(Entries) /\ K = Kept(a, O) \o Kept(c, O)
      /\ K \in Seq(Entries) /\ ToSet(Kept(c, O)) = ToSet(c) \intersect O
      /\ ToSet(K) = ToSet(C) \intersect O /\ ToSet(G) = ToSet(C) \intersect Matching(h)
  <2>1. K = Kept(a, O) \o Kept(c, O)
    BY <1>5, KeptConcat
  <2> QED
    BY <1>2, <1>5, <2>1, KeptType, KeptSet
<1> DEFINE ka == Kept(a, O)
           kc == Kept(c, O)
<1> HIDE DEF K, G, ka, kc, E
<1>9. /\ Len(K) = Len(ka) + Len(kc) /\ Len(ka) \in Nat /\ Len(kc) \in Nat
      /\ \A i \in 1 .. Len(ka) + Len(kc) : K[i] = IF i <= Len(ka) THEN ka[i] ELSE kc[i - Len(ka)]
  <2>1. ka \in Seq(Entries) /\ kc \in Seq(Entries) /\ K = ka \o kc
    BY <1>8 DEF ka, kc
  <2> QED
    BY <2>1, ConcatProperties
<1>10. k \in 1 .. Len(K) + 1 /\ At(K, next_check', k)
  <2>1. k \in 1 .. Len(K) + 1 /\ k = Len(ka) + 1
    BY <1>9 DEF ka
  <2>2. kc \in Seq(Entries) /\ next_check' = IF kc = <<>> THEN 0 ELSE kc[1]
    <3>1. kc \in Seq(Entries) /\ next_check' = First(kc, 0)
      BY <1>7, <1>8, Zenon DEF kc
    <3> QED
      BY <3>1 DEF First
  <2>3. kc = <<>> <=> k = Len(K) + 1
    BY <1>9, <2>1, <2>2
  <2>4. kc # <<>> => K[k] = kc[1]
    <3>1. kc # <<>> => k \in 1 .. Len(ka) + Len(kc) /\ ~(k <= Len(ka)) /\ k - Len(ka) = 1
      BY <1>9, <2>1, <2>3
    <3> QED
      BY <1>9, <3>1
  <2> QED
    BY <2>1, <2>2, <2>3, <2>4 DEF At
<1>11. Rest(K, k) = Rest(C, j) \intersect O
  <2>1. Rest(K, k) = ToSet(kc)
    <3>1. k = Len(ka) + 1
      BY DEF ka
    <3>2. ASSUME NEW i \in k .. Len(K)
          PROVE  K[i] \in ToSet(kc)
      <4>1. i \in 1 .. Len(ka) + Len(kc) /\ ~(i <= Len(ka)) /\ i - Len(ka) \in 1 .. Len(kc)
        BY <1>9, <3>1
      <4> QED
        BY <1>9, <4>1 DEF ToSet
    <3>3. ASSUME NEW i \in 1 .. Len(kc)
          PROVE  kc[i] \in Rest(K, k)
      <4>1. /\ Len(ka) + i \in 1 .. Len(ka) + Len(kc) /\ ~(Len(ka) + i <= Len(ka))
            /\ (Len(ka) + i) - Len(ka) = i /\ Len(ka) + i \in k .. Len(K)
        BY <1>9, <3>1
      <4>2. K[Len(ka) + i] = kc[i]
        BY <1>9, <4>1
      <4> QED
        BY <4>1, <4>2 DEF Rest
    <3>4. Rest(K, k) \subseteq ToSet(kc)
      BY <3>2 DEF Rest
    <3>5. ToSet(kc) \subseteq Rest(K, k)
      BY <3>3 DEF ToSet
    <3> QED
      BY <3>4, <3>5
  <2> QED
    BY <1>5, <1>8, <2>1 DEF kc
<1>12. stack \in Seq(Frames) /\ Len(stack) \in Nat /\ Len(stack) <= MaxDepth /\ Depth = Len(stack)
  BY <1>1 DEF Types, Depth
<1> HIDE DEF k
<1>14. /\ stack' \in Seq(Frames) /\ Len(stack') = Len(stack)
       /\ \A i \in 1 .. Len(stack) :
            /\ stack'[i].phase = stack[i].phase /\ stack'[i].todo = stack[i].todo \ ToSet(G)
            /\ stack'[i].called = stack[i].called \ ToSet(G)
  <2>1. stack \in Seq(Frames) /\ stack' = Forgotten(stack, ToSet(G))
    BY <1>7, <1>12
  <2> QED
    BY <2>1, ForgetFacts
<1>13. ASSUME NEW i \in 1 .. Len(stack)
       PROVE  /\ stack'[i].phase = stack[i].phase
              /\ stack'[i].todo = stack[i].todo \ ToSet(G) /\ stack'[i].called = stack[i].called \ ToSet(G)
  BY <1>14
<1>15. Types'
  BY <1>1, <1>3, <1>7, <1>12, <1>14 DEF Types
<1>16. ASSUME NEW d \in 1 .. Len(stack)
       PROVE  PassOK(stack'[d], Outer(stack', d), K, k)
  <2>1. PassOK(stack[d], Outer(stack, d), C, j)
    BY <1>2 DEF Passes
  <2>2. Outer(stack', d) <=> Outer(stack, d)
    <3>1. \A e \in d + 1 .. Len(stack) : Passing(stack'[e]) <=> Passing(stack[e])
      BY <1>12, <1>13 DEF Passing
    <3> QED
      BY <1>14, <3>1 DEF Outer
  <2>3. Passing(stack'[d]) <=> Passing(stack[d])
    BY <1>13 DEF Passing
  <2>4. /\ stack[d].todo \subseteq ToSet(C) /\ stack[d].called \subseteq ToSet(C)
    BY <2>1 DEF PassOK
  <2>5. ToSet(C) \ ToSet(G) \subseteq O /\ ToSet(G) \intersect O = {}
    <3>1. ToSet(C) \subseteq Entries
      BY <1>2 DEF ToSet
    <3> QED
      BY <1>8, <3>1 DEF O, Others
  <2>6. /\ ~Passing(stack[d]) => stack[d].todo = {} /\ stack[d].called = {}
        /\ Passing(stack[d]) /\ Outer(stack, d) => stack[d].called = {}
        /\ Passing(stack[d]) /\ ~Outer(stack, d) =>
             stack[d].todo \subseteq Rest(C, j) /\ stack[d].called \intersect Rest(C, j) = {}
    BY <2>1 DEF PassOK
  <2>7. /\ stack'[d].todo \subseteq ToSet(K) /\ stack'[d].called \subseteq ToSet(K)
    BY <1>8, <1>13, <2>4, <2>5
  <2>8. Passing(stack[d]) /\ ~Outer(stack, d) =>
          stack'[d].todo \subseteq Rest(K, k) /\ stack'[d].called \intersect Rest(K, k) = {}
    BY <1>11, <1>13, <2>4, <2>5, <2>6
  <2>9. /\ ~Passing(stack[d]) => stack'[d].todo = {} /\ stack'[d].called = {}
        /\ Passing(stack[d]) /\ Outer(stack, d) => stack'[d].called = {}
    BY <1>13, <2>6
  <2> QED
    BY <2>2, <2>3, <2>7, <2>8, <2>9 DEF PassOK
<1>17. Passes(stack', K, k)
  BY <1>14, <1>16 DEF Passes
<1>18. E \in Seq(Entries) /\ K \in Seq(Entries)
  BY <1>3 DEF Lists
<1> QED
  BY <1>3, <1>7, <1>10, <1>15, <1>17, <1>18 DEF IInv

\* Fl::wait() is called.
LEMMA BeginStep ==
  ASSUME IInv, BeginWait
  PROVE  IInv'
<1>1. Types
  BY DEF IInv
<1>0. PICK C, F \in Seq(Entries) : \E i \in 1 .. Len(C) + 1 :
        /\ Lists(nxt, first_check, free_check, allocated, C, F)
        /\ At(C, next_check, i) /\ Passes(stack, C, i)
  BY DEF IInv
<1>2. PICK j \in 1 .. Len(C) + 1 :
        /\ Lists(nxt, first_check, free_check, allocated, C, F)
        /\ At(C, next_check, j) /\ Passes(stack, C, j)
  BY <1>0
<1> DEFINE fr == IF next_check = first_check THEN Frame("checks", ToSet(Checks)) ELSE Frame("events", {})
<1>3. Checks = C /\ Len(C) <= MaxEntries
  BY <1>1, <1>2, ListsFacts DEF Checks, ListFrom, Types
<1>4. /\ Len(stack) < MaxDepth /\ stack' = Append(stack, fr)
      /\ nxt' = nxt /\ first_check' = first_check /\ free_check' = free_check
      /\ allocated' = allocated /\ handler' = handler /\ next_check' = next_check
  BY DEF BeginWait, Depth, listVars
<1>5. stack \in Seq(Frames) /\ Len(stack) \in Nat
  BY <1>1 DEF Types
<1>6. ToSet(C) \subseteq Entries
  BY <1>2 DEF ToSet
<1>7. fr \in Frames /\ fr.called = {}
  BY <1>3, <1>6 DEF Frame, Frames
<1>8. Passes(stack', C, j)
  <2>1. CASE next_check = first_check
    <3>1. j = 1
      BY <1>2, <2>1, AtFirst
    <3>2. Passing(fr) /\ fr.todo = ToSet(C)
      BY <1>3, <2>1 DEF Frame, Passing
    <3> HIDE DEF fr
    <3>3. Passes(Append(stack, fr), C, 1)
      BY <1>2, <1>5, <1>7, <3>1, <3>2, PassesBegun
    <3> QED
      BY <1>4, <3>1, <3>3
  <2>2. CASE next_check # first_check
    <3>1. ~Passing(fr) /\ fr.todo = {}
      BY <2>2 DEF Frame, Passing
    <3> HIDE DEF fr
    <3>2. Passes(Append(stack, fr), C, j)
      BY <1>2, <1>5, <1>7, <3>1, PassesQuiet
    <3> QED
      BY <1>4, <3>2
  <2> QED
    BY <2>1, <2>2
<1> HIDE DEF fr
<1>9. stack' \in Seq(Frames) /\ Len(stack') <= MaxDepth
  BY <1>4, <1>5, <1>7, EntriesAssumption
<1>10. Types'
  BY <1>1, <1>4, <1>9 DEF Types
<1> QED
  BY <1>2, <1>4, <1>8, <1>10 DEF IInv

\* The checks are called, return, and come to an end: the innermost call goes on.
LEMMA TopFacts ==
  ASSUME Types, Phase \in {"checks", "callback", "events"}
  PROVE  /\ stack # <<>> /\ Len(stack) \in Nat \ {0} /\ Depth = Len(stack)
         /\ Top = stack[Len(stack)] /\ Top \in Frames /\ Top.phase = Phase
<1>1. stack \in Seq(Frames) /\ Depth = Len(stack)
  BY DEF Types, Depth
<1>2. stack # <<>> /\ Top.phase = Phase
  BY DEF Phase
<1> QED
  BY <1>1, <1>2 DEF Top

LEMMA TopReplaced ==
  ASSUME Types, stack # <<>>, NEW fr \in Frames, stack' = [stack EXCEPT ![Len(stack)] = fr],
         UNCHANGED listVars
  PROVE  Types'
<1>1. stack' \in Seq(Frames) /\ Len(stack') = Len(stack)
  BY DEF Types
<1> QED
  BY <1>1 DEF Types, listVars

LEMMA RunStep ==
  ASSUME IInv, RunCheck
  PROVE  IInv' /\ next_check \notin Top.called
<1>1. Types
  BY DEF IInv
<1>0. PICK C, F \in Seq(Entries) : \E i \in 1 .. Len(C) + 1 :
        /\ Lists(nxt, first_check, free_check, allocated, C, F)
        /\ At(C, next_check, i) /\ Passes(stack, C, i)
  BY DEF IInv
<1>2. PICK j \in 1 .. Len(C) + 1 :
        /\ Lists(nxt, first_check, free_check, allocated, C, F)
        /\ At(C, next_check, j) /\ Passes(stack, C, j)
  BY <1>0
<1> DEFINE q == next_check
           fr == [phase |-> "callback", todo |-> Top.todo \ {q}, called |-> Top.called \union {q}]
<1>3. /\ Phase = "checks" /\ q # 0 /\ next_check' = nxt[q] /\ UNCHANGED listVars
  BY DEF RunCheck
<1>4. /\ stack # <<>> /\ Len(stack) \in Nat \ {0} /\ Depth = Len(stack)
      /\ Top = stack[Len(stack)] /\ Top \in Frames /\ Top.phase = "checks"
  BY <1>1, <1>3, TopFacts
<1>5. stack' = [stack EXCEPT ![Len(stack)] = fr]
  BY <1>4 DEF RunCheck
<1>6. /\ C \in Seq(Entries) /\ Len(C) \in Nat /\ Distinct(C)
      /\ \A i \in 1 .. Len(C) : nxt[C[i]] = IF i = Len(C) THEN 0 ELSE C[i + 1]
  BY <1>2 DEF Lists, Chain
<1>7. j \in 1 .. Len(C) /\ q = C[j] /\ q \in Entries
  BY <1>2, <1>3, <1>6 DEF At
<1>8. At(C, next_check', j + 1) /\ j + 1 \in 1 .. Len(C) + 1
  <2>1. j + 1 \in 1 .. Len(C) + 1 /\ (j + 1 = Len(C) + 1 <=> j = Len(C))
    BY <1>6, <1>7
  <2> QED
    BY <1>3, <1>6, <1>7, <2>1 DEF At
<1>9. q \in Rest(C, j) /\ q \notin Rest(C, j + 1) /\ Rest(C, j) = Rest(C, j + 1) \union {q}
  <2>1. j \in j .. Len(C) /\ \A i \in j .. Len(C) : i = j \/ i \in j + 1 .. Len(C)
    BY <1>6, <1>7
  <2>2. \A i \in j + 1 .. Len(C) : i # j /\ i \in 1 .. Len(C) /\ i \in j .. Len(C)
    BY <1>6, <1>7
  <2>3. \A i \in j + 1 .. Len(C) : C[i] # q
    BY <1>6, <1>7, <2>2 DEF Distinct
  <2> QED
    BY <1>7, <2>1, <2>2, <2>3 DEF Rest
<1>10. Top.todo \subseteq Rest(C, j) /\ Top.called \intersect Rest(C, j) = {}
       /\ Top.todo \subseteq ToSet(C) /\ Top.called \subseteq ToSet(C) /\ Passing(Top)
  <2>1. Len(stack) \in 1 .. Len(stack) /\ ~Outer(stack, Len(stack)) /\ Passing(Top)
    BY <1>4 DEF Outer, Passing
  <2>2. PassOK(Top, Outer(stack, Len(stack)), C, j)
    BY <1>2, <1>4, <2>1 DEF Passes
  <2> QED
    BY <2>1, <2>2 DEF PassOK
<1>11. q \in ToSet(C)
  BY <1>6, <1>7 DEF ToSet
<1>12. fr \in Frames /\ Passing(fr) /\ fr.todo = Top.todo \ {q} /\ fr.called = Top.called \union {q}
  BY <1>4, <1>7 DEF Frames, Passing
<1> HIDE DEF fr, q
<1>13. PassOK(fr, FALSE, C, j + 1)
  BY <1>9, <1>10, <1>11, <1>12 DEF PassOK
<1>14. Passes(stack', C, j + 1)
  <2>1. stack \in Seq(Frames)
    BY <1>1 DEF Types
  <2> QED
    BY <1>2, <1>4, <1>5, <1>6, <1>10, <1>12, <1>13, <2>1, PassesStep
<1>15. Types'
  BY <1>1, <1>3, <1>4, <1>5, <1>12, TopReplaced
<1>16. q \notin Top.called
  BY <1>9, <1>10
<1> QED
  BY <1>0, <1>2, <1>3, <1>8, <1>14, <1>15, <1>16 DEF IInv, listVars, q

LEMMA ReturnStep ==
  ASSUME IInv, CheckReturns
  PROVE  IInv'
<1>1. Types
  BY DEF IInv
<1>0. PICK C, F \in Seq(Entries) : \E i \in 1 .. Len(C) + 1 :
        /\ Lists(nxt, first_check, free_check, allocated, C, F)
        /\ At(C, next_check, i) /\ Passes(stack, C, i)
  BY DEF IInv
<1>2. PICK j \in 1 .. Len(C) + 1 :
        /\ Lists(nxt, first_check, free_check, allocated, C, F)
        /\ At(C, next_check, j) /\ Passes(stack, C, j)
  BY <1>0
<1> DEFINE fr == [Top EXCEPT !.phase = "checks"]
<1>3. Phase = "callback" /\ next_check' = next_check /\ UNCHANGED listVars
  BY DEF CheckReturns
<1>4. /\ stack # <<>> /\ Len(stack) \in Nat \ {0} /\ Depth = Len(stack)
      /\ Top = stack[Len(stack)] /\ Top \in Frames /\ Top.phase = "callback"
  BY <1>1, <1>3, TopFacts
<1>5. stack' = [stack EXCEPT ![Len(stack)] = fr]
  BY <1>4 DEF CheckReturns
<1>6. PassOK(Top, FALSE, C, j) /\ Passing(Top)
  <2>1. Len(stack) \in 1 .. Len(stack) /\ ~Outer(stack, Len(stack)) /\ Passing(Top)
    BY <1>4 DEF Outer, Passing
  <2>2. PassOK(Top, Outer(stack, Len(stack)), C, j)
    BY <1>2, <1>4, <2>1 DEF Passes
  <2> QED
    BY <2>1, <2>2 DEF PassOK
<1>7. fr \in Frames /\ Passing(fr) /\ fr.todo = Top.todo /\ fr.called = Top.called
  BY <1>4 DEF Frames, Passing
<1> HIDE DEF fr
<1>8. PassOK(fr, FALSE, C, j)
  BY <1>6, <1>7 DEF PassOK
<1>9. Passes(stack', C, j)
  <2>1. stack \in Seq(Frames)
    BY <1>1 DEF Types
  <2> QED
    BY <1>2, <1>4, <1>5, <1>6, <1>7, <1>8, <2>1, PassesStep
<1>10. Types'
  BY <1>1, <1>3, <1>4, <1>5, <1>7, TopReplaced
<1> QED
  BY <1>2, <1>3, <1>9, <1>10 DEF IInv, listVars

\* When a pass ends it has nobody left to call.
LEMMA EndChecksStep ==
  ASSUME IInv, EndChecks
  PROVE  IInv'
<1>1. Types
  BY DEF IInv
<1>0. PICK C, F \in Seq(Entries) : \E i \in 1 .. Len(C) + 1 :
        /\ Lists(nxt, first_check, free_check, allocated, C, F)
        /\ At(C, next_check, i) /\ Passes(stack, C, i)
  BY DEF IInv
<1>2. PICK j \in 1 .. Len(C) + 1 :
        /\ Lists(nxt, first_check, free_check, allocated, C, F)
        /\ At(C, next_check, j) /\ Passes(stack, C, j)
  BY <1>0
<1> DEFINE fr == Frame("events", Top.todo)
<1>3. Phase = "checks" /\ next_check = 0 /\ next_check' = first_check /\ UNCHANGED listVars
  BY DEF EndChecks
<1>4. /\ stack # <<>> /\ Len(stack) \in Nat \ {0} /\ Depth = Len(stack)
      /\ Top = stack[Len(stack)] /\ Top \in Frames /\ Top.phase = "checks"
  BY <1>1, <1>3, TopFacts
<1>5. stack' = [stack EXCEPT ![Len(stack)] = fr]
  BY <1>4 DEF EndChecks
<1>6. C \in Seq(Entries) /\ Len(C) \in Nat /\ Chain(nxt, C, first_check, 0)
  BY <1>2 DEF Lists
<1>7. j = Len(C) + 1
  <2>1. j \in 1 .. Len(C) => C[j] \in Entries
    BY <1>6
  <2> QED
    BY <1>2, <1>3, <1>6, <2>1, EntriesFacts DEF At
<1>8. Top.todo = {} /\ Passing(Top)
  <2>1. Len(stack) \in 1 .. Len(stack) /\ ~Outer(stack, Len(stack)) /\ Passing(Top)
    BY <1>4 DEF Outer, Passing
  <2>2. PassOK(Top, Outer(stack, Len(stack)), C, j)
    BY <1>2, <1>4, <2>1 DEF Passes
  <2>3. Rest(C, j) = {}
    BY <1>6, <1>7 DEF Rest
  <2> QED
    BY <2>1, <2>2, <2>3 DEF PassOK
<1>9. fr \in Frames /\ ~Passing(fr) /\ fr.todo = {} /\ fr.called = {}
  BY <1>8 DEF Frames, Frame, Passing
<1> HIDE DEF fr
<1>10. PassOK(fr, FALSE, C, 1)
  BY <1>9 DEF PassOK
<1>11. Passes(stack', C, 1)
  <2>1. stack \in Seq(Frames)
    BY <1>1 DEF Types
  <2> QED
    BY <1>2, <1>4, <1>5, <1>6, <1>8, <1>9, <1>10, <2>1, PassesStep
<1>12. At(C, next_check', 1) /\ 1 \in 1 .. Len(C) + 1
  <2>1. first_check = IF Len(C) = 0 THEN 0 ELSE C[1]
    BY <1>6 DEF Chain
  <2> QED
    BY <1>3, <1>6, <2>1 DEF At
<1>13. Types'
  BY <1>1, <1>3, <1>4, <1>5, <1>9, TopReplaced
<1> QED
  BY <1>2, <1>3, <1>11, <1>12, <1>13 DEF IInv, listVars

LEMMA EndWaitStep ==
  ASSUME IInv, EndWait
  PROVE  IInv'
<1>1. Types
  BY DEF IInv
<1>0. PICK C, F \in Seq(Entries) : \E i \in 1 .. Len(C) + 1 :
        /\ Lists(nxt, first_check, free_check, allocated, C, F)
        /\ At(C, next_check, i) /\ Passes(stack, C, i)
  BY DEF IInv
<1>2. PICK j \in 1 .. Len(C) + 1 :
        /\ Lists(nxt, first_check, free_check, allocated, C, F)
        /\ At(C, next_check, j) /\ Passes(stack, C, j)
  BY <1>0
<1>3. Phase = "events" /\ next_check' = next_check /\ UNCHANGED listVars /\ stack' = Front(stack)
  BY DEF EndWait
<1>4. stack # <<>> /\ ~Passing(stack[Len(stack)])
  BY <1>1, <1>3, TopFacts DEF Passing
<1>5. stack \in Seq(Frames) /\ Len(stack) <= MaxDepth
  BY <1>1 DEF Types
<1>6. Passes(stack', C, j)
  BY <1>2, <1>3, <1>4, <1>5, PassesPopped
<1>7. stack' \in Seq(Frames) /\ Len(stack') <= MaxDepth
  <2>1. Front(stack) \in Seq(Frames) /\ Len(stack) \in Nat \ {0} /\ Len(Front(stack)) = Len(stack) - 1
    BY <1>4, <1>5, FrontLast
  <2> QED
    BY <1>3, <1>5, <2>1, EntriesAssumption
<1>8. Types'
  BY <1>1, <1>3, <1>7 DEF Types, listVars
<1> QED
  BY <1>2, <1>3, <1>6, <1>8 DEF IInv, listVars

LEMMA IInvStep == IInv /\ [Next]_vars => IInv'
<1> SUFFICES ASSUME IInv, [Next]_vars
             PROVE  IInv'
  OBVIOUS
<1>1. ASSUME NEW h \in Handlers, add_check(h) \/ remove_check(h)
      PROVE  IInv'
  BY <1>1, AddStep, RemoveStep
<1>2. CASE BeginWait
  BY <1>2, BeginStep
<1>3. CASE RunCheck
  BY <1>3, RunStep
<1>4. CASE CheckReturns
  BY <1>4, ReturnStep
<1>5. CASE EndChecks
  BY <1>5, EndChecksStep
<1>6. CASE EndWait
  BY <1>6, EndWaitStep
<1>7. CASE UNCHANGED vars
  BY <1>7 DEF vars, listVars, IInv, Types
<1> QED
  BY <1>1, <1>2, <1>3, <1>4, <1>5, <1>6, <1>7 DEF Next
-----------------------------------------------------------------------------
\* The invariant that carries the proofs, for any number of checks, entries and
\* nested event loops.
THEOREM InvariantHolds == Spec => []IInv
  BY IInvInit, IInvStep, PTL DEF Spec

\* The list and the free list hold every allocated entry once, and next_check is
\* null or in the list, whatever checks and nested event loops add and remove.
THEOREM ListsStayIntact == Spec => []ListsIntact
<1>1. IInv => ListsIntact
  <2> SUFFICES ASSUME IInv PROVE ListsIntact
    OBVIOUS
  <2>1. Types
    BY DEF IInv
  <2>0. PICK C, F \in Seq(Entries) : \E i \in 1 .. Len(C) + 1 :
          /\ Lists(nxt, first_check, free_check, allocated, C, F)
          /\ At(C, next_check, i) /\ Passes(stack, C, i)
    BY DEF IInv
  <2>2. PICK j \in 1 .. Len(C) + 1 :
          /\ Lists(nxt, first_check, free_check, allocated, C, F)
          /\ At(C, next_check, j) /\ Passes(stack, C, j)
    BY <2>0
  <2>3. Checks = C /\ ListFrom(free_check) = F
    BY <2>1, <2>2, ListsFacts DEF Checks, ListFrom, Types
  <2>4. /\ C \in Seq(Entries) /\ F \in Seq(Entries) /\ Len(C) \in Nat
        /\ Chain(nxt, C, first_check, 0) /\ Chain(nxt, F, free_check, 0)
        /\ ToSet(C) \union ToSet(F) = 1 .. allocated /\ Len(C) + Len(F) = allocated
    BY <2>2 DEF Lists
  <2>5. ToSet(C \o F) = 1 .. allocated
    <3>1. ToSet(C \o F) = ToSet(C) \union ToSet(F)
      BY <2>4, ToSetConcat
    <3> QED
      BY <2>4, <3>1
  <2>6. first_check \in Entries \union {0} /\ free_check \in Entries \union {0}
    <3>1. C # <<>> => C[1] \in Entries
      BY <2>4
    <3>2. F # <<>> => F[1] \in Entries
      BY <2>4
    <3> QED
      BY <2>4, <3>1, <3>2 DEF Chain
  <2>7. next_check # 0 => next_check \in ToSet(C) /\ next_check \in Entries
    <3>1. j # Len(C) + 1 => j \in 1 .. Len(C)
      BY <2>2, <2>4
    <3>2. j \in 1 .. Len(C) => C[j] \in ToSet(C) /\ C[j] \in Entries
      BY <2>4 DEF ToSet
    <3> QED
      BY <2>2, <3>1, <3>2 DEF At
  <2>8. first_check = 0 => next_check = 0
    <3>1. C # <<>> => C[1] \in Entries /\ C[1] # 0
      BY <2>4, EntriesFacts
    <3>2. first_check = 0 => C = <<>>
      BY <2>4, <3>1 DEF Chain
    <3>3. C = <<>> => ToSet(C) = {}
      BY DEF ToSet
    <3> QED
      BY <2>7, <3>2, <3>3
  <2>9. Depth <= MaxDepth /\ \A d \in 1 .. Depth : stack[d] \in Frames
    BY <2>1 DEF Types, Depth
  <2>10. TypeOK
    BY <2>1, <2>6, <2>7, <2>8, <2>9 DEF TypeOK, Types, Frames
  <2> QED
    BY <2>3, <2>4, <2>5, <2>7, <2>10 DEF ListsIntact
<1> QED
  BY <1>1, InvariantHolds, PTL

\* When a pass of run_checks() is over, every check that was in the list when it
\* began and was not removed has been called, also if nested event loops ran passes
\* of their own meanwhile.
THEOREM PassesLeaveNoneOut == Spec => []NoneLeftOut
<1>1. IInv => NoneLeftOut
  <2> SUFFICES ASSUME IInv, NEW d \in 1 .. Depth, stack[d].phase = "events"
               PROVE  stack[d].todo = {}
    BY DEF NoneLeftOut
  <2>1. PICK C, F \in Seq(Entries) : \E i \in 1 .. Len(C) + 1 : Passes(stack, C, i)
    BY DEF IInv
  <2>2. PICK j \in 1 .. Len(C) + 1 : Passes(stack, C, j)
    BY <2>1
  <2>3. PassOK(stack[d], Outer(stack, d), C, j)
    BY <2>2 DEF Passes, Depth
  <2> QED
    BY <2>3 DEF PassOK, Passing
<1> QED
  BY <1>1, InvariantHolds, PTL

\* No pass calls a check twice unless it was removed and added again: a nested
\* pass moves next_check back only for an outer one that has called none of the
\* checks in the list.
THEOREM NoSecondCall == Spec => CalledOnce
<1>1. IInv /\ [Next]_vars => [RunCheck => next_check \notin Top.called]_vars
  BY RunStep
<1> QED
  BY <1>1, InvariantHolds, PTL DEF CalledOnce, Spec
-----------------------------------------------------------------------------
(* Idle callbacks                                                          *)

\* R is the ring at fst: lst is its last entry, and points back to the first.
Ringed(next, fst, lst, R) ==
  /\ R = <<>> => fst = 0 /\ lst = 0
  /\ R # <<>> => Chain(next, R, fst, fst) /\ lst = R[Len(R)]

\* The ring R and the free list F hold the m entries that were allocated, each
\* once.
Rings(next, fst, lst, f, m, R, F) ==
  /\ R \in Seq(Entries) /\ F \in Seq(Entries)
  /\ Ringed(next, fst, lst, R) /\ Chain(next, F, f, 0)
  /\ Distinct(R) /\ Distinct(F) /\ ToSet(R) \intersect ToSet(F) = {}
  /\ ToSet(R) \union ToSet(F) = 1 .. m /\ Len(R) + Len(F) = m

\* Only one of the calls of Fl::wait() runs an idle callback, and in_idle tells
\* the others.
OneIdle(st, in) ==
  /\ \A d \in 1 .. Len(st) : st[d] # 0 => in
  /\ \A d, e \in 1 .. Len(st) : st[d] # 0 /\ st[e] # 0 => d = e

IdleTypes ==
  /\ nxt \in [Entries -> Entries \union {0}] /\ handler \in [Entries -> Handlers]
  /\ allocated \in 0 .. MaxEntries
  /\ idle_ \in BOOLEAN /\ in_idle \in BOOLEAN
  /\ stack \in Seq(Entries \union {0}) /\ Len(stack) <= MaxDepth

IdleInv ==
  /\ IdleTypes
  /\ \E R, F \in Seq(Entries) : Rings(nxt, first, last, freelist, allocated, R, F)
  /\ idle_ <=> first # 0
  /\ OneIdle(stack, in_idle)
-----------------------------------------------------------------------------
\* The first and the last entry are null together.
LEMMA RingEnds ==
  ASSUME NEW next, NEW fst, NEW lst, NEW R \in Seq(Entries), Ringed(next, fst, lst, R)
  PROVE  /\ fst = 0 <=> R = <<>>
         /\ lst = 0 <=> R = <<>>
         /\ R # <<>> => /\ fst = R[1] /\ lst = R[Len(R)] /\ next[lst] = fst
                        /\ fst \in Entries /\ lst \in Entries /\ Len(R) \in Nat \ {0}
<1>1. CASE R = <<>>
  BY <1>1 DEF Ringed
<1>2. CASE R # <<>>
  <2>1. Len(R) \in Nat \ {0} /\ R[1] \in Entries /\ R[Len(R)] \in Entries
    BY <1>2
  <2>2. fst = R[1] /\ lst = R[Len(R)] /\ next[R[Len(R)]] = fst
    BY <1>2, <2>1 DEF Ringed, Chain
  <2> QED
    BY <1>2, <2>1, <2>2, EntriesFacts
<1> QED
  BY <1>1, <1>2

\* What the loops of remove_idle() and has_idle() meet is the ring.
LEMMA RingMet ==
  ASSUME NEW R \in Seq(Entries), Ringed(nxt, first, last, R), Distinct(R), Len(R) <= MaxEntries
  PROVE  Ring = R
<1>1. CASE R = <<>>
  BY <1>1 DEF Ringed, Ring
<1>2. CASE R # <<>>
  <2> DEFINE met == Follow(nxt, first, MaxEntries)
             n == Len(R)
             I == {i \in 1 .. Len(met) : met[i] = last}
  <2>1. /\ n \in Nat \ {0} /\ first # 0 /\ last = R[n] /\ MaxEntries \in Nat
        /\ Chain(nxt, R, first, first)
    <3>1. n \in Nat \ {0} /\ first # 0 /\ last = R[n]
      BY <1>2, RingEnds
    <3>2. Chain(nxt, R, first, first)
      BY <1>2 DEF Ringed
    <3> QED
      BY <3>1, <3>2, EntriesFacts
  <2>2. /\ DOMAIN met = 1 .. MaxEntries /\ met = [i \in 1 .. MaxEntries |-> met[i]]
        /\ \A i \in 1 .. n : met[i] = R[i]
    BY <2>1, EntriesFacts, WalkPrefix
  <2>3. Ring = SubSeq(met, 1, IF I # {} THEN Min(I) ELSE 0)
    BY <2>1 DEF Ring, SelectInSeq
  <2> HIDE DEF met
  <2>4. met \in Seq({met[i] : i \in 1 .. MaxEntries}) /\ Len(met) = MaxEntries
    <3> DEFINE X == {met[i] : i \in 1 .. MaxEntries}
    <3>1. \A i \in 1 .. MaxEntries : met[i] \in X
      OBVIOUS
    <3> QED
      BY <2>1, <2>2, <3>1, FunctionIsSeq
  <2>5. n \in I /\ \A i \in 1 .. n : i \in I => i = n
    <3>1. n \in 1 .. n /\ n \in 1 .. MaxEntries
      BY <2>1
    <3> HIDE DEF n
    <3>3. n \in 1 .. Len(met) /\ met[n] = R[n]
      BY <2>2, <2>4, <3>1
    <3>2. ASSUME NEW i \in 1 .. n, i \in I
          PROVE  i = n
      BY <2>1, <2>2, <3>1, <3>2 DEF Distinct, n
    <3> QED
      BY <2>1, <3>2, <3>3
  <2>6. Min(I) \in I /\ \A i \in I : Min(I) <= i
    BY <2>1, <2>4, <2>5, FirstIndex
  <2>7. Min(I) = n
    BY <2>1, <2>4, <2>5, <2>6
  <2>8. Ring = SubSeq(met, 1, n)
    BY <2>3, <2>5, <2>7
  <2>9. /\ SubSeq(met, 1, n) \in Seq({met[i] : i \in 1 .. MaxEntries})
        /\ Len(SubSeq(met, 1, n)) = n
        /\ \A i \in 1 .. n : SubSeq(met, 1, n)[i] = met[i]
    BY <2>1, <2>4, Part
  <2> DEFINE t == SubSeq(met, 1, n)
  <2> HIDE DEF t
  <2>10. Len(t) = Len(R) /\ \A i \in 1 .. Len(R) : t[i] = R[i]
    BY <2>2, <2>9 DEF t
  <2>11. t \in Seq({met[i] : i \in 1 .. MaxEntries})
    BY <2>9 DEF t
  <2>12. t = R
    BY <2>10, <2>11
  <2> QED
    BY <2>8, <2>12 DEF t
<1> QED
  BY <1>1, <1>2

LEMMA RingsFacts ==
  ASSUME NEW R, NEW F, allocated \in 0 .. MaxEntries,
         Rings(nxt, first, last, freelist, allocated, R, F)
  PROVE  /\ R \in Seq(Entries) /\ F \in Seq(Entries) /\ Len(R) \in Nat /\ Len(F) \in Nat
         /\ Ring = R /\ Kept(Follow(nxt, freelist, MaxEntries), Entries) = F
<1>1. /\ R \in Seq(Entries) /\ F \in Seq(Entries) /\ Len(R) \in Nat /\ Len(F) \in Nat
      /\ Len(R) + Len(F) = allocated /\ Ringed(nxt, first, last, R)
      /\ Chain(nxt, F, freelist, 0) /\ Distinct(R)
  BY DEF Rings
<1>2. Len(R) <= MaxEntries /\ Len(F) <= MaxEntries
  BY <1>1, EntriesFacts
<1> QED
  BY <1>1, <1>2, RingMet, EntriesFacts, ChainList

LEMMA IdleInvInit == IdleInit => IdleInv
<1> SUFFICES ASSUME IdleInit PROVE IdleInv
  OBVIOUS
<1>1. MaxEntries \in Nat /\ MaxDepth \in Nat
  BY EntriesAssumption
<1>2. <<>> \in Seq(Entries) /\ Len(<<>>) = 0 /\ ToSet(<<>>) = {}
  BY DEF ToSet
<1>3. Rings(nxt, 0, 0, 0, 0, <<>>, <<>>)
  <2>1. Ringed(nxt, 0, 0, <<>>) /\ Chain(nxt, <<>>, 0, 0) /\ Distinct(<<>>)
    BY <1>2 DEF Ringed, Chain, Distinct
  <2>2. 1 .. 0 = {}
    OBVIOUS
  <2> QED
    BY <1>2, <2>1, <2>2 DEF Rings
<1>4. stack = <<>> /\ stack \in Seq(Entries \union {0}) /\ Len(stack) = 0
  BY DEF IdleInit, NoEntries
<1>5. OneIdle(stack, in_idle)
  BY <1>4 DEF OneIdle
<1>6. handler \in [Entries -> Handlers]
  BY EntriesAssumption DEF IdleInit, NoEntries
<1>7. IdleTypes
  <2>1. idle_ \in BOOLEAN /\ in_idle \in BOOLEAN
    BY Zenon DEF IdleInit, NoEntries
  <2>2. nxt \in [Entries -> Entries \union {0}] /\ allocated \in 0 .. MaxEntries
    BY <1>1 DEF IdleInit, NoEntries
  <2>3. Len(stack) <= MaxDepth
    BY <1>1, <1>4
  <2> QED
    BY <1>4, <1>6, <2>1, <2>2, <2>3 DEF IdleTypes
<1> QED
  BY <1>2, <1>3, <1>5, <1>7 DEF IdleInit, NoEntries, IdleInv
-----------------------------------------------------------------------------
(* What happens to the ring *)

\* The ring may be read from any of its entries: call_idle() moves on by one.
LEMMA Rotated ==
  ASSUME NEW next, NEW fst, NEW lst, NEW R \in Seq(Entries), Ringed(next, fst, lst, R),
         Distinct(R), NEW j \in 1 .. Len(R)
  PROVE  LET S == SubSeq(R, j, Len(R)) \o SubSeq(R, 1, j - 1)
         IN  /\ S \in Seq(Entries) /\ Len(S) = Len(R) /\ ToSet(S) = ToSet(R) /\ Distinct(S)
             /\ S[1] = R[j]
             /\ Ringed(next, R[j], IF j = 1 THEN lst ELSE R[j - 1], S)
<1> DEFINE n == Len(R)
           a == SubSeq(R, 1, j - 1)
           c == SubSeq(R, j, n)
           S == c \o a
           l == IF j = 1 THEN lst ELSE R[j - 1]
<1>1. n \in Nat \ {0} /\ R # <<>> /\ j \in 1 .. n + 1 /\ j # n + 1
  OBVIOUS
<1>2. /\ a \in Seq(Entries) /\ Len(a) = j - 1 /\ \A i \in 1 .. j - 1 : a[i] = R[i]
      /\ c \in Seq(Entries) /\ Len(c) = n - j + 1 /\ \A i \in 1 .. n - j + 1 : c[i] = R[j + i - 1]
  BY <1>1, Part
<1>3. R = a \o c /\ Distinct(a) /\ Distinct(c) /\ ToSet(a) \intersect ToSet(c) = {}
  BY <1>1, Split, SplitDistinct
<1>4. fst = R[1] /\ lst = R[n] /\ Chain(next, R, fst, fst)
  <2>1. Chain(next, R, fst, fst)
    BY <1>1 DEF Ringed
  <2> QED
    BY <1>1, <2>1, RingEnds
<1>5. Chain(next, a, fst, R[j]) /\ Chain(next, c, R[j], fst)
  BY <1>1, <1>4, ChainPrefix, ChainSuffix
<1> HIDE DEF a, c
<1>6. Chain(next, S, R[j], R[j])
  BY <1>2, <1>5, ChainConcat
<1>7. Distinct(S)
  BY <1>2, <1>3, ConcatDistinct
<1>8. ToSet(S) = ToSet(R)
  <2>1. ToSet(c \o a) = ToSet(c) \union ToSet(a) /\ ToSet(a \o c) = ToSet(a) \union ToSet(c)
    BY <1>2, ToSetConcat
  <2> QED
    BY <1>3, <2>1
<1>9. S \in Seq(Entries) /\ Len(S) = n /\ S[1] = c[1] /\ c[1] = R[j]
  BY <1>1, <1>2
<1>10. S[n] = l
  <2>1. CASE j = 1
    <3>1. S[n] = c[n] /\ c[n] = R[n]
      BY <1>1, <1>2, <2>1
    <3> QED
      BY <1>4, <2>1, <3>1
  <2>2. CASE j # 1
    <3>1. S[n] = a[j - 1] /\ a[j - 1] = R[j - 1]
      BY <1>1, <1>2, <2>2
    <3> QED
      BY <2>2, <3>1
  <2> QED
    BY <2>1, <2>2
<1> HIDE DEF S, l
<1>11. Ringed(next, R[j], l, S)
  <2>1. S # <<>>
    BY <1>1, <1>9
  <2> QED
    BY <1>6, <1>9, <1>10, <2>1 DEF Ringed
<1> QED
  BY <1>7, <1>8, <1>9, <1>11 DEF S, a, c, l

\* The first entry of a ring of several leaves it, as remove_idle() unlinks it.
LEMMA HeadUnlinked ==
  ASSUME NEW next \in [Entries -> Entries \union {0}], NEW fst, NEW lst, NEW f,
         NEW R \in Seq(Entries), Ringed(next, fst, lst, R), Distinct(R), fst # lst
  PROVE  LET other == [next EXCEPT ![lst] = next[fst], ![fst] = f]
         IN  Ringed(other, next[fst], lst, Tail(R)) /\ Tail(R) # <<>>
<1> DEFINE n == Len(R)
           T == Tail(R)
           other == [next EXCEPT ![lst] = next[fst], ![fst] = f]
<1>1. R # <<>>
  BY RingEnds
<1>2. /\ n \in Nat \ {0} /\ fst = R[1] /\ lst = R[n] /\ fst \in Entries /\ lst \in Entries
      /\ \A i \in 1 .. n : next[R[i]] = IF i = n THEN fst ELSE R[i + 1]
  BY <1>1, RingEnds DEF Ringed, Chain
<1>3. n # 1
  BY <1>2
<1>4. T \in Seq(Entries) /\ Len(T) = n - 1 /\ \A i \in 1 .. n - 1 : T[i] = R[i + 1]
  BY <1>1, <1>2
<1>5. next[fst] = R[2] /\ other[lst] = R[2] /\ \A x \in Entries : x # fst /\ x # lst => other[x] = next[x]
  BY <1>2, <1>3
<1> HIDE DEF T, other
<1>6. T # <<>> /\ T[1] = R[2] /\ T[n - 1] = lst
  BY <1>2, <1>3, <1>4
<1>7. ASSUME NEW i \in 1 .. n - 1
      PROVE  other[T[i]] = IF i = n - 1 THEN R[2] ELSE T[i + 1]
  <2>1. i + 1 \in 1 .. n /\ T[i] = R[i + 1] /\ R[i + 1] \in Entries /\ 1 \in 1 .. n
    BY <1>2, <1>4
  <2>2. R[i + 1] # fst
    BY <1>2, <2>1 DEF Distinct
  <2>3. CASE i = n - 1
    BY <1>2, <1>5, <2>1, <2>3
  <2>4. CASE i # n - 1
    <3>1. i + 1 # n /\ n \in 1 .. n /\ i + 1 \in 1 .. n - 1 /\ (i + 1) + 1 \in 1 .. n
      BY <1>2, <2>4
    <3>2. R[i + 1] # lst
      BY <1>2, <2>1, <3>1 DEF Distinct
    <3>3. other[T[i]] = R[(i + 1) + 1] /\ T[i + 1] = R[(i + 1) + 1]
      BY <1>2, <1>4, <1>5, <2>1, <2>2, <3>1, <3>2
    <3> QED
      BY <2>4, <3>3
  <2> QED
    BY <2>3, <2>4
<1>8. Chain(other, T, R[2], R[2])
  BY <1>4, <1>6, <1>7 DEF Chain
<1> QED
  BY <1>4, <1>5, <1>6, <1>8 DEF Ringed, T, other

\* An entry that is in neither list comes behind the last of the ring.
LEMMA Linked ==
  ASSUME NEW next \in [Entries -> Entries \union {0}], NEW fst, NEW lst, NEW R \in Seq(Entries),
         Ringed(next, fst, lst, R), R # <<>>, Distinct(R), NEW e \in Entries, e \notin ToSet(R)
  PROVE  Ringed([next EXCEPT ![lst] = e, ![e] = fst], fst, e, Append(R, e))
<1> DEFINE n == Len(R)
           T == Append(R, e)
           other == [next EXCEPT ![lst] = e, ![e] = fst]
<1>1. /\ n \in Nat \ {0} /\ fst = R[1] /\ lst = R[n] /\ fst \in Entries /\ lst \in Entries
      /\ \A i \in 1 .. n : next[R[i]] = IF i = n THEN fst ELSE R[i + 1]
  BY RingEnds DEF Ringed, Chain
<1>2. \A i \in 1 .. n : R[i] # e /\ R[i] \in Entries
  BY DEF ToSet
<1>3. /\ T \in Seq(Entries) /\ Len(T) = n + 1 /\ T[n + 1] = e /\ \A i \in 1 .. n : T[i] = R[i]
      /\ T # <<>>
  BY <1>1
<1>4. lst # e
  BY <1>1, <1>2
<1>5. other[e] = fst /\ other[lst] = e /\ \A x \in Entries : x # e /\ x # lst => other[x] = next[x]
  BY <1>1, <1>4
<1> HIDE DEF T, other
<1>6. ASSUME NEW i \in 1 .. n + 1
      PROVE  other[T[i]] = IF i = n + 1 THEN fst ELSE T[i + 1]
  <2>1. CASE i = n + 1
    BY <1>3, <1>5, <2>1
  <2>2. CASE i = n
    <3>1. T[i] = lst /\ T[i + 1] = e /\ i # n + 1
      BY <1>1, <1>3, <2>2
    <3> QED
      BY <1>5, <3>1
  <2>3. CASE i \in 1 .. n /\ i # n
    <3>1. T[i] = R[i] /\ i + 1 \in 1 .. n /\ T[i + 1] = R[i + 1] /\ i # n + 1 /\ n \in 1 .. n
      BY <1>1, <1>3, <2>3
    <3>2. R[i] # lst /\ R[i] # e /\ R[i] \in Entries
      BY <1>1, <1>2, <2>3, <3>1 DEF Distinct
    <3>3. next[R[i]] = R[i + 1]
      BY <1>1, <2>3
    <3> QED
      BY <1>5, <3>1, <3>2, <3>3
  <2> QED
    BY <1>1, <2>1, <2>2, <2>3
<1>7. T[1] = fst
  BY <1>1, <1>3
<1>8. Chain(other, T, fst, fst)
  BY <1>3, <1>6, <1>7 DEF Chain
<1> QED
  BY <1>3, <1>8 DEF Ringed, T, other

\* Of the m entries all but e are in the ring R or in the free list F.
Spare(next, f, m, R, F, e) ==
  /\ R \in Seq(Entries) /\ F \in Seq(Entries) /\ e \in Entries /\ m \in Nat
  /\ Chain(next, F, f, 0) /\ Distinct(R) /\ Distinct(F)
  /\ ToSet(R) \intersect ToSet(F) = {} /\ e \notin ToSet(R) \union ToSet(F)
  /\ ToSet(R) \union ToSet(F) \union {e} = 1 .. m /\ Len(R) + Len(F) + 1 = m

\* The entry that add_idle() takes is linked, or is the ring.
LEMMA RingAdded ==
  ASSUME nxt \in [Entries -> Entries \union {0}], NEW R, NEW F, NEW e,
         Ringed(nxt, first, last, R), Spare(nxt, freelist', allocated', R, F, e),
         first' = IF first # 0 THEN first ELSE e,
         nxt' = IF first # 0 THEN [nxt EXCEPT ![last] = e, ![e] = first]
                             ELSE [nxt EXCEPT ![e] = e]
  PROVE  /\ nxt' \in [Entries -> Entries \union {0}]
         /\ Rings(nxt', first', e, freelist', allocated', Append(R, e), F)
<1> DEFINE T == Append(R, e)
<1>0. /\ R \in Seq(Entries) /\ F \in Seq(Entries) /\ e \in Entries /\ allocated' \in Nat
      /\ Chain(nxt, F, freelist', 0) /\ Distinct(R) /\ Distinct(F)
      /\ ToSet(R) \intersect ToSet(F) = {} /\ e \notin ToSet(R) \union ToSet(F)
      /\ ToSet(R) \union ToSet(F) \union {e} = 1 .. allocated' /\ Len(R) + Len(F) + 1 = allocated'
  BY DEF Spare
<1> USE <1>0
<1>1. /\ Len(R) \in Nat /\ Len(F) \in Nat /\ T \in Seq(Entries) /\ Len(T) = Len(R) + 1
      /\ ToSet(T) = ToSet(R) \union {e}
  BY ToSetAppend
<1>2. Distinct(T)
  <2>1. \A i \in 1 .. Len(R) : R[i] # e
    BY DEF ToSet
  <2>2. T[Len(R) + 1] = e /\ \A i \in 1 .. Len(R) : T[i] = R[i]
    OBVIOUS
  <2> HIDE DEF T
  <2> QED
    BY <1>1, <2>1, <2>2 DEF Distinct
<1>3. first = 0 <=> R = <<>>
  BY RingEnds
<1>4. /\ nxt' \in [Entries -> Entries \union {0}] /\ Ringed(nxt', first', e, T)
      /\ \A x \in ToSet(F) : nxt'[x] = nxt[x]
  <2>1. ToSet(F) \subseteq Entries
    BY DEF ToSet
  <2>2. CASE first # 0
    <3>1. first \in Entries /\ last \in Entries /\ last = R[Len(R)] /\ Len(R) \in 1 .. Len(R) /\ R # <<>>
      BY <1>3, <2>2, RingEnds
    <3>2. last \in ToSet(R) /\ last \notin ToSet(F)
      <4>1. \A i \in 1 .. Len(R) : R[i] \in ToSet(R)
        BY DEF ToSet
      <4> QED
        BY <3>1, <4>1
    <3>3. Ringed([nxt EXCEPT ![last] = e, ![e] = first], first, e, T)
      BY <3>1, Linked
    <3>4. nxt' = [nxt EXCEPT ![last] = e, ![e] = first] /\ first' = first
      BY <2>2
    <3> HIDE DEF T
    <3>5. \A x \in ToSet(F) : nxt'[x] = nxt[x]
      BY <2>1, <3>1, <3>2, <3>4
    <3>6. nxt' \in [Entries -> Entries \union {0}]
      BY <3>1, <3>4
    <3> QED
      BY <3>3, <3>4, <3>5, <3>6
  <2>3. CASE first = 0
    <3>1. T = <<e>> /\ first' = e /\ nxt' = [nxt EXCEPT ![e] = e]
      BY <1>3, <2>3
    <3>2. nxt' \in [Entries -> Entries \union {0}] /\ nxt'[e] = e
          /\ \A x \in ToSet(F) : nxt'[x] = nxt[x]
      BY <2>1, <3>1
    <3>3. Chain(nxt', <<e>>, e, e)
      BY <3>2 DEF Chain
    <3>4. Ringed(nxt', e, e, <<e>>)
      BY <3>3 DEF Ringed
    <3> QED
      BY <3>1, <3>2, <3>4
  <2> QED
    BY <2>2, <2>3
<1>5. Chain(nxt', F, freelist', 0)
  BY <1>4, ChainElsewhere
<1> HIDE DEF T
<1>6. /\ Len(T) + Len(F) = allocated' /\ ToSet(T) \intersect ToSet(F) = {}
      /\ ToSet(T) \union ToSet(F) = 1 .. allocated'
  BY <1>1
<1>7. Rings(nxt', first', e, freelist', allocated', T, F)
  BY <1>1, <1>2, <1>4, <1>5, <1>6 DEF Rings
<1> QED
  BY <1>4, <1>7 DEF T

LEMMA AddIdleInv ==
  ASSUME IdleInv, NEW h \in Handlers, add_idle(h)
  PROVE  IdleInv'
<1>1. PICK R, F \in Seq(Entries) : Rings(nxt, first, last, freelist, allocated, R, F)
  BY DEF IdleInv
<1> DEFINE e == IF freelist # 0 THEN freelist ELSE allocated + 1
<1>2. /\ freelist # 0 \/ allocated < MaxEntries
      /\ freelist' = IF freelist # 0 THEN nxt[freelist] ELSE 0
      /\ allocated' = IF freelist # 0 THEN allocated ELSE e
      /\ handler' = [handler EXCEPT ![e] = h]
      /\ last' = e
      /\ nxt' = IF first # 0 THEN [nxt EXCEPT ![last] = e, ![e] = first] ELSE [nxt EXCEPT ![e] = e]
      /\ first' = IF first # 0 THEN first ELSE e
  BY DEF add_idle
<1>3. /\ nxt \in [Entries -> Entries \union {0}] /\ handler \in [Entries -> Handlers]
      /\ allocated \in 0 .. MaxEntries /\ MaxEntries \in Nat
  BY EntriesFacts DEF IdleInv, IdleTypes
<1>4. /\ Len(R) \in Nat /\ Len(F) \in Nat
      /\ Ringed(nxt, first, last, R) /\ Chain(nxt, F, freelist, 0)
      /\ Distinct(R) /\ Distinct(F) /\ ToSet(R) \intersect ToSet(F) = {}
      /\ ToSet(R) \union ToSet(F) = 1 .. allocated /\ Len(R) + Len(F) = allocated
  BY <1>1 DEF Rings
<1>5. allocated' \in 0 .. MaxEntries /\ \E D : Spare(nxt, freelist', allocated', R, D, e)
  <2>1. CASE freelist # 0
    <3>1. F # <<>>
      BY <1>4, <2>1 DEF Chain
    <3>2. /\ Len(F) \in Nat \ {0} /\ Tail(F) \in Seq(Entries) /\ Len(Tail(F)) = Len(F) - 1
          /\ Head(F) \in Entries /\ ToSet(F) = {Head(F)} \union ToSet(Tail(F))
          /\ Distinct(Tail(F)) /\ Head(F) \notin ToSet(Tail(F))
      BY <1>4, <3>1, HeadTailSet
    <3> DEFINE D == Tail(F)
    <3>3. freelist = Head(F) /\ Chain(nxt, D, nxt[freelist], 0)
      BY <1>4, <3>1, ChainPop
    <3> HIDE DEF D
    <3>4. e = Head(F) /\ freelist' = nxt[freelist] /\ allocated' = allocated
      BY <1>2, <2>1, <3>3
    <3> HIDE DEF e
    <3>5. /\ D \in Seq(Entries) /\ Distinct(D) /\ ToSet(R) \intersect ToSet(D) = {}
          /\ e \in Entries /\ e \notin ToSet(R) \union ToSet(D)
          /\ ToSet(R) \union ToSet(D) \union {e} = 1 .. allocated
      BY <1>4, <3>2, <3>4 DEF D
    <3>6. Len(R) + Len(D) + 1 = allocated
      BY <1>3, <1>4, <3>2 DEF D
    <3>7. Spare(nxt, freelist', allocated', R, D, e)
      BY <1>3, <1>4, <3>3, <3>4, <3>5, <3>6 DEF Spare
    <3> QED
      BY <1>3, <3>4, <3>7
  <2>2. CASE freelist = 0
    <3>1. F = <<>>
      <4>1. F # <<>> => F[1] \in Entries /\ freelist = F[1]
        BY <1>4 DEF Chain
      <4> QED
        BY <2>2, <4>1, EntriesFacts
    <3>2. e = allocated + 1 /\ e \in Entries /\ e \in Nat /\ freelist' = 0 /\ allocated' = e
      BY <1>2, <1>3, <2>2 DEF Entries
    <3> HIDE DEF e
    <3>3. ToSet(F) = {} /\ Len(F) = 0
      BY <3>1 DEF ToSet
    <3>4. e \notin ToSet(R) \union ToSet(F) /\ ToSet(R) \union ToSet(F) \union {e} = 1 .. e
      BY <1>3, <1>4, <3>2
    <3>5. Len(R) + Len(F) + 1 = e /\ e \in 0 .. MaxEntries
      BY <1>3, <1>4, <3>2 DEF Entries
    <3>6. Spare(nxt, freelist', allocated', R, F, e)
      BY <1>4, <2>2, <3>2, <3>4, <3>5 DEF Spare
    <3> QED
      BY <3>2, <3>5, <3>6
  <2> QED
    BY <2>1, <2>2
<1>6. PICK D : Spare(nxt, freelist', allocated', R, D, e)
  BY <1>5
<1> HIDE DEF e
<1>7. e \in Entries /\ D \in Seq(Entries)
  BY <1>6 DEF Spare
<1>8. /\ nxt' \in [Entries -> Entries \union {0}]
      /\ Rings(nxt', first', e, freelist', allocated', Append(R, e), D)
  BY <1>2, <1>3, <1>4, <1>6, RingAdded
<1>9. handler' \in [Entries -> Handlers]
  BY <1>2, <1>3, <1>7
<1>10. stack' = stack /\ in_idle' = in_idle
  BY DEF add_idle
<1>11. idle_' \in BOOLEAN /\ (idle_' <=> first' # 0)
  <2>1. CASE first # 0
    <3>1. first' = first /\ idle_' = idle_
      BY <2>1 DEF add_idle
    <3> QED
      BY <3>1, Zenon DEF IdleInv, IdleTypes
  <2>2. CASE first = 0
    <3>1. first' # 0
      BY <1>2, <1>7, <2>2, EntriesFacts
    <3>2. idle_' = TRUE
      BY <2>2, Zenon DEF add_idle
    <3> QED
      BY <3>1, <3>2, Zenon
  <2> QED
    BY <2>1, <2>2
<1>12. IdleTypes'
  <2>1. in_idle' \in BOOLEAN
    BY <1>10, Zenon DEF IdleInv, IdleTypes
  <2>2. stack' \in Seq(Entries \union {0}) /\ Len(stack') <= MaxDepth
    BY <1>10 DEF IdleInv, IdleTypes
  <2> QED
    BY <1>5, <1>8, <1>9, <1>11, <2>1, <2>2 DEF IdleTypes
<1>13. OneIdle(stack', in_idle')
  BY <1>10 DEF IdleInv
<1>14. Append(R, e) \in Seq(Entries) /\ last' = e
  BY <1>2, <1>7
<1> QED
  BY <1>7, <1>8, <1>11, <1>12, <1>13, <1>14 DEF IdleInv

LEMMA RemoveIdleInv ==
  ASSUME IdleInv, NEW h \in Handlers, remove_idle(h)
  PROVE  IdleInv'
<1>1. PICK R, F \in Seq(Entries) : Rings(nxt, first, last, freelist, allocated, R, F)
  BY DEF IdleInv
<1>2. /\ nxt \in [Entries -> Entries \union {0}] /\ allocated \in 0 .. MaxEntries
  BY DEF IdleInv, IdleTypes
<1>3. /\ Len(R) \in Nat /\ Len(F) \in Nat
      /\ Ringed(nxt, first, last, R) /\ Chain(nxt, F, freelist, 0)
      /\ Distinct(R) /\ Distinct(F) /\ ToSet(R) \intersect ToSet(F) = {}
      /\ ToSet(R) \union ToSet(F) = 1 .. allocated /\ Len(R) + Len(F) = allocated
  BY <1>1 DEF Rings
<1> DEFINE I == {k \in 1 .. Len(R) : handler[R[k]] = h}
           j == IF I # {} THEN Min(I) ELSE 0
           e == R[j]
           l == IF j = 1 THEN last ELSE R[j - 1]
<1>4. Ring = R
  BY <1>1, <1>2, RingsFacts
<1>5. SelectInSeq(Ring, LAMBDA x : handler[x] = h) = j
  BY <1>4 DEF SelectInSeq
<1> HIDE DEF j
<1>6. /\ j > 0
      /\ IF l = e
         THEN /\ first' = 0 /\ last' = 0
              /\ idle_' = FALSE
              /\ nxt' = [nxt EXCEPT ![e] = freelist]
         ELSE /\ last' = l /\ first' = nxt[e]
              /\ nxt' = [nxt EXCEPT ![l] = nxt[e], ![e] = freelist]
              /\ UNCHANGED idle_
      /\ freelist' = e
      /\ UNCHANGED <<handler, allocated, in_idle, stack>>
  BY <1>4, <1>5 DEF remove_idle
<1>7. j \in 1 .. Len(R)
  <2>1. I # {} /\ j = Min(I)
    BY <1>6 DEF j
  <2> QED
    BY <1>3, <2>1, FirstIndex
<1> DEFINE S == SubSeq(R, j, Len(R)) \o SubSeq(R, 1, j - 1)
<1>8. /\ S \in Seq(Entries) /\ Len(S) = Len(R) /\ ToSet(S) = ToSet(R) /\ Distinct(S)
      /\ S[1] = e /\ Ringed(nxt, e, l, S)
  BY <1>3, <1>7, Rotated
<1> HIDE DEF S, e, l
<1>9. S # <<>> /\ Len(S) \in Nat \ {0}
  BY <1>3, <1>7, <1>8
<1>10. /\ Tail(S) \in Seq(Entries) /\ Len(Tail(S)) = Len(S) - 1 /\ e = Head(S) /\ e \in Entries
       /\ ToSet(R) = {e} \union ToSet(Tail(S)) /\ Distinct(Tail(S)) /\ e \notin ToSet(Tail(S))
  BY <1>8, <1>9, HeadTailSet
<1>11. l = S[Len(S)] /\ l \in Entries /\ l \in ToSet(R)
  <2>1. l = S[Len(S)] /\ Len(S) \in 1 .. Len(S)
    BY <1>8, <1>9, RingEnds
  <2>2. \A k \in 1 .. Len(S) : S[k] \in ToSet(S) /\ S[k] \in Entries
    BY <1>8 DEF ToSet
  <2> QED
    BY <1>8, <2>1, <2>2
<1>12. /\ nxt' \in [Entries -> Entries \union {0}] /\ Ringed(nxt', first', last', Tail(S))
       /\ nxt'[e] = freelist /\ \A x \in ToSet(F) : nxt'[x] = nxt[x]
       /\ first' = 0 <=> l = e
  <2>1. freelist \in Entries \union {0}
    <3>1. F # <<>> => F[1] \in Entries
      OBVIOUS
    <3> QED
      BY <1>3, <3>1 DEF Chain
  <2>2. e \notin ToSet(F) /\ l \notin ToSet(F) /\ ToSet(F) \subseteq Entries
    <3>1. ToSet(F) \subseteq Entries
      BY DEF ToSet
    <3> QED
      BY <1>3, <1>10, <1>11, <3>1
  <2>3. CASE l = e
    <3>1. Len(S) = 1
      <4>1. 1 \in 1 .. Len(S) /\ Len(S) \in 1 .. Len(S)
        BY <1>9
      <4> QED
        BY <1>8, <1>11, <2>3, <4>1 DEF Distinct
    <3>2. Tail(S) = <<>>
      <4>1. Tail(S) \in Seq(Entries) /\ Len(Tail(S)) = 0
        BY <1>10, <3>1
      <4>2. \A q \in Seq(Entries) : Len(q) = 0 => q = <<>>
        OBVIOUS
      <4> QED
        BY <4>1, <4>2, Zenon
    <3>3. first' = 0 /\ last' = 0 /\ nxt' = [nxt EXCEPT ![e] = freelist]
      BY <1>6, <2>3
    <3>4. Ringed(nxt', first', last', Tail(S))
      BY <3>2, <3>3 DEF Ringed
    <3>5. /\ nxt' \in [Entries -> Entries \union {0}] /\ nxt'[e] = freelist
          /\ \A x \in ToSet(F) : nxt'[x] = nxt[x]
      BY <1>2, <1>10, <2>1, <2>2, <3>3
    <3> QED
      BY <2>3, <3>3, <3>4, <3>5
  <2>4. CASE l # e
    <3>1. last' = l /\ first' = nxt[e] /\ nxt' = [nxt EXCEPT ![l] = nxt[e], ![e] = freelist]
      BY <1>6, <2>4
    <3>2. Ringed(nxt', first', last', Tail(S)) /\ Tail(S) # <<>>
      BY <1>2, <1>8, <2>4, <3>1, HeadUnlinked
    <3>3. /\ nxt' \in [Entries -> Entries \union {0}] /\ nxt'[e] = freelist
          /\ \A x \in ToSet(F) : nxt'[x] = nxt[x]
      BY <1>2, <1>10, <1>11, <2>1, <2>2, <3>1
    <3>4. first' # 0
      BY <1>10, <3>2, RingEnds
    <3> QED
      BY <2>4, <3>2, <3>3, <3>4
  <2> QED
    BY <2>3, <2>4
<1> DEFINE T == Tail(S)
           D == <<e>> \o F
<1>13. /\ D \in Seq(Entries) /\ Len(D) = Len(F) + 1 /\ ToSet(D) = ToSet(F) \union {e}
       /\ Distinct(D)
  <2>1. e \notin ToSet(F)
    BY <1>3, <1>10
  <2> QED
    BY <1>3, <1>10, <2>1, PushFacts
<1>14. Chain(nxt', D, freelist', 0)
  <2>1. Chain(nxt', F, freelist, 0)
    BY <1>3, <1>12, ChainElsewhere
  <2> QED
    BY <1>6, <1>10, <1>12, <2>1, ChainPush
<1> HIDE DEF T, D
<1>15. /\ Len(T) + Len(D) = allocated /\ ToSet(T) \intersect ToSet(D) = {}
       /\ ToSet(T) \union ToSet(D) = 1 .. allocated
  <2>1. Len(T) = Len(R) - 1 /\ Len(D) = Len(F) + 1 /\ Len(R) + Len(F) = allocated
    BY <1>3, <1>8, <1>10, <1>13 DEF T
  <2>2. Len(T) + Len(D) = allocated
    BY <1>3, <2>1
  <2>3. ToSet(T) \intersect ToSet(D) = {} /\ ToSet(T) \union ToSet(D) = 1 .. allocated
    BY <1>3, <1>10, <1>13 DEF T
  <2> QED
    BY <2>2, <2>3
<1>16. Rings(nxt', first', last', freelist', allocated', T, D)
  BY <1>6, <1>10, <1>12, <1>13, <1>14, <1>15 DEF Rings, T
<1>17. idle_' \in BOOLEAN /\ (idle_' <=> first' # 0)
  <2>1. CASE l = e
    <3>1. idle_' = FALSE /\ first' = 0
      BY <1>6, <2>1, Zenon
    <3> QED
      BY <3>1, Zenon
  <2>2. CASE l # e
    <3>1. idle_' = idle_ /\ first' # 0
      BY <1>6, <1>12, <2>2, Zenon
    <3>2. first # 0
      BY <1>3, <1>8, <1>9, RingEnds
    <3> QED
      BY <3>1, <3>2, Zenon DEF IdleInv, IdleTypes
  <2> QED
    BY <2>1, <2>2
<1>18. IdleTypes' /\ OneIdle(stack', in_idle')
  <2>1. in_idle' \in BOOLEAN
    BY <1>6, Zenon DEF IdleInv, IdleTypes
  <2>2. /\ stack' \in Seq(Entries \union {0}) /\ Len(stack') <= MaxDepth
        /\ handler' \in [Entries -> Handlers] /\ allocated' \in 0 .. MaxEntries
    BY <1>6 DEF IdleInv, IdleTypes
  <2>3. OneIdle(stack', in_idle')
    BY <1>6 DEF IdleInv
  <2> QED
    BY <1>12, <1>17, <2>1, <2>2, <2>3 DEF IdleTypes
<1> QED
  BY <1>10, <1>13, <1>16, <1>17, <1>18 DEF IdleInv, T
-----------------------------------------------------------------------------
(* The calls of Fl::wait() *)

LEMMA BeginWaitInv ==
  ASSUME IdleInv, BeginIdleWait
  PROVE  IdleInv'
<1>1. PICK R, F \in Seq(Entries) : Rings(nxt, first, last, freelist, allocated, R, F)
  BY DEF IdleInv
<1>2. /\ stack \in Seq(Entries \union {0}) /\ Len(stack) \in Nat /\ Len(stack) < MaxDepth
      /\ OneIdle(stack, in_idle) /\ MaxDepth \in Nat
  BY EntriesAssumption DEF IdleInv, IdleTypes, BeginIdleWait, Depth
<1>3. UNCHANGED <<freelist, nxt, handler, allocated, idle_>>
  BY DEF BeginIdleWait
<1>4. /\ nxt' \in [Entries -> Entries \union {0}] /\ handler' \in [Entries -> Handlers]
      /\ allocated' \in 0 .. MaxEntries
  BY <1>3 DEF IdleInv, IdleTypes
<1>5. idle_' \in BOOLEAN
  BY <1>3, Zenon DEF IdleInv, IdleTypes
<1>6. CASE idle_ /\ ~in_idle
  <2>1. in_idle' = TRUE /\ last' = first /\ first' = nxt[first] /\ stack' = Append(stack, first)
    BY <1>6, Zenon DEF BeginIdleWait
  <2>2. first # 0
    BY <1>6, Zenon DEF IdleInv
  <2>3. R \in Seq(Entries) /\ Ringed(nxt, first, last, R) /\ Distinct(R)
    BY <1>1 DEF Rings
  <2>4. R # <<>> /\ first = R[1] /\ last = R[Len(R)] /\ first \in Entries /\ Len(R) \in Nat \ {0}
    BY <2>2, <2>3, RingEnds
  <2>5. PICK S \in Seq(Entries) : /\ Len(S) = Len(R) /\ ToSet(S) = ToSet(R) /\ Distinct(S)
                                  /\ Ringed(nxt, nxt[first], first, S)
    <3>1. CASE Len(R) = 1
      <4>1. nxt[first] = first /\ last = first
        BY <2>3, <2>4, <3>1, RingEnds
      <4> QED
        BY <2>3, <4>1
    <3>2. CASE Len(R) # 1
      <4> DEFINE n == Len(R)
      <4>1. n \in Nat /\ n > 1
        <5>1. n \in Nat \ {0} /\ n # 1
          BY <2>4, <3>2
        <5> HIDE DEF n
        <5> QED
          BY <5>1
      <4>2. nxt[first] = R[2]
        <5>1. \A i \in 1 .. n : nxt[R[i]] = IF i = n THEN first ELSE R[i + 1]
          BY <2>3, <2>4 DEF Ringed, Chain
        <5> HIDE DEF n
        <5>2. 1 \in 1 .. n /\ 1 # n
          BY <4>1
        <5>3. nxt[R[1]] = R[1 + 1]
          BY <5>1, <5>2
        <5> QED
          BY <2>4, <5>3
      <4> DEFINE S == SubSeq(R, 2, Len(R)) \o SubSeq(R, 1, 2 - 1)
      <4>5. 2 \in 1 .. Len(R)
        BY <4>1
      <4>3. /\ S \in Seq(Entries) /\ Len(S) = Len(R) /\ ToSet(S) = ToSet(R) /\ Distinct(S)
            /\ Ringed(nxt, R[2], IF 2 = 1 THEN last ELSE R[2 - 1], S)
        BY <2>3, <4>5, Rotated
      <4> HIDE DEF S
      <4>4. Ringed(nxt, nxt[first], first, S)
        BY <2>4, <4>2, <4>3
      <4> QED
        BY <4>3, <4>4
    <3> QED
      BY <3>1, <3>2
  <2>6. Rings(nxt', first', last', freelist', allocated', S, F)
    BY <1>1, <1>3, <2>1, <2>5 DEF Rings
  <2>7. first' # 0
    <3>1. S # <<>>
      BY <2>4, <2>5
    <3>2. nxt[first] # 0
      BY <2>5, <3>1, RingEnds
    <3> QED
      BY <2>1, <3>2
  <2>8. idle_' <=> first' # 0
    BY <1>3, <1>6, <2>7, Zenon
  <2>9. stack' \in Seq(Entries \union {0}) /\ Len(stack') = Len(stack) + 1 /\ Len(stack') <= MaxDepth
    BY <1>2, <2>1, <2>4
  <2>10. \A d \in 1 .. Len(stack) : stack[d] = 0
    BY <1>2, <1>6, Zenon DEF OneIdle
  <2>11. OneIdle(stack', in_idle')
    <3>1. \A d \in 1 .. Len(stack') : stack'[d] # 0 => d = Len(stack')
      BY <1>2, <2>1, <2>9, <2>10
    <3> QED
      BY <2>1, <3>1 DEF OneIdle
  <2>12. IdleTypes'
    <3>1. in_idle' \in BOOLEAN
      BY <2>1, Zenon
    <3> QED
      BY <1>4, <1>5, <2>9, <3>1 DEF IdleTypes
  <2> QED
    BY <2>5, <2>6, <2>8, <2>11, <2>12 DEF IdleInv
<1>7. CASE ~(idle_ /\ ~in_idle)
  <2>1. in_idle' = in_idle /\ last' = last /\ first' = first /\ stack' = Append(stack, 0)
    BY <1>7, Zenon DEF BeginIdleWait
  <2>2. Rings(nxt', first', last', freelist', allocated', R, F)
    BY <1>1, <1>3, <2>1
  <2>3. idle_' <=> first' # 0
    BY <1>3, <2>1, Zenon DEF IdleInv
  <2>4. stack' \in Seq(Entries \union {0}) /\ Len(stack') = Len(stack) + 1 /\ Len(stack') <= MaxDepth
    BY <1>2, <2>1
  <2>5. OneIdle(stack', in_idle')
    <3>1. \A d \in 1 .. Len(stack') : stack'[d] # 0 => d \in 1 .. Len(stack) /\ stack'[d] = stack[d]
      BY <1>2, <2>1, <2>4
    <3> QED
      BY <1>2, <2>1, <3>1 DEF OneIdle
  <2>6. IdleTypes'
    <3>1. in_idle' \in BOOLEAN
      BY <2>1, Zenon DEF IdleInv, IdleTypes
    <3> QED
      BY <1>4, <1>5, <2>4, <3>1 DEF IdleTypes
  <2> QED
    BY <2>2, <2>3, <2>5, <2>6 DEF IdleInv
<1> QED
  BY <1>6, <1>7

\* A step that leaves the ring alone.
LEMMA RingKept ==
  ASSUME IdleInv, UNCHANGED ringVars, in_idle' \in BOOLEAN,
         stack' \in Seq(Entries \union {0}), Len(stack') <= MaxDepth, OneIdle(stack', in_idle')
  PROVE  IdleInv'
<1>1. UNCHANGED <<first, last, freelist, nxt, handler, allocated, idle_>>
  BY DEF ringVars
<1>2. /\ nxt' \in [Entries -> Entries \union {0}] /\ handler' \in [Entries -> Handlers]
      /\ allocated' \in 0 .. MaxEntries
  BY <1>1 DEF IdleInv, IdleTypes
<1>3. idle_' \in BOOLEAN /\ (idle_' <=> first' # 0)
  BY <1>1, Zenon DEF IdleInv, IdleTypes
<1>4. \E R, F \in Seq(Entries) : Rings(nxt', first', last', freelist', allocated', R, F)
  BY <1>1 DEF IdleInv
<1>5. IdleTypes'
  BY <1>2, <1>3 DEF IdleTypes
<1> QED
  BY <1>3, <1>4, <1>5 DEF IdleInv

LEMMA IdleReturnsInv ==
  ASSUME IdleInv, IdleReturns
  PROVE  IdleInv'
<1> DEFINE n == Len(stack)
<1>1. stack \in Seq(Entries \union {0}) /\ n \in Nat /\ n <= MaxDepth /\ OneIdle(stack, in_idle)
  BY DEF IdleInv, IdleTypes
<1>2. stack # <<>> /\ Last(stack) # 0
  BY DEF IdleReturns, Running
<1>3. n > 0 /\ stack[n] # 0
  BY <1>1, <1>2 DEF Last
<1>4. stack' = [stack EXCEPT ![n] = 0]
  BY DEF IdleReturns, Depth
<1>5. /\ stack' \in Seq(Entries \union {0}) /\ Len(stack') = n /\ stack'[n] = 0
      /\ \A d \in 1 .. n : d # n => stack'[d] = stack[d]
  BY <1>1, <1>3, <1>4
<1>6. \A d \in 1 .. n : stack'[d] = 0
  BY <1>1, <1>3, <1>5 DEF OneIdle
<1>7. OneIdle(stack', in_idle')
  BY <1>5, <1>6 DEF OneIdle
<1>8. in_idle' \in BOOLEAN
  BY Zenon DEF IdleReturns
<1>9. UNCHANGED ringVars
  BY DEF IdleReturns
<1> QED
  BY <1>1, <1>5, <1>7, <1>8, <1>9, RingKept

LEMMA EndWaitInv ==
  ASSUME IdleInv, EndIdleWait
  PROVE  IdleInv'
<1>1. /\ stack \in Seq(Entries \union {0}) /\ Len(stack) \in Nat /\ Len(stack) <= MaxDepth
      /\ OneIdle(stack, in_idle) /\ MaxDepth \in Nat
  BY EntriesAssumption DEF IdleInv, IdleTypes
<1>2. in_idle' = in_idle /\ UNCHANGED ringVars /\ stack # <<>> /\ stack' = Front(stack)
  BY DEF EndIdleWait
<1>3. /\ stack' \in Seq(Entries \union {0}) /\ Len(stack') = Len(stack) - 1
      /\ \A d \in 1 .. Len(stack) - 1 : stack'[d] = stack[d]
  BY <1>1, <1>2, FrontLast
<1>4. \A d \in 1 .. Len(stack') : d \in 1 .. Len(stack) /\ stack'[d] = stack[d]
  BY <1>1, <1>3
<1>5. OneIdle(stack', in_idle')
  BY <1>1, <1>2, <1>4 DEF OneIdle
<1>6. in_idle' \in BOOLEAN
  BY <1>2, Zenon DEF IdleInv, IdleTypes
<1>7. Len(stack') <= MaxDepth
  BY <1>1, <1>3
<1> QED
  BY <1>2, <1>3, <1>5, <1>6, <1>7, RingKept

LEMMA IdleStep == IdleInv /\ [IdleNext]_idleVars => IdleInv'
<1> SUFFICES ASSUME IdleInv, [IdleNext]_idleVars
             PROVE  IdleInv'
  OBVIOUS
<1>1. CASE UNCHANGED idleVars
  <2>1. UNCHANGED ringVars /\ in_idle' = in_idle /\ stack' = stack
    BY <1>1 DEF idleVars
  <2>2. in_idle' \in BOOLEAN
    BY <2>1, Zenon DEF IdleInv, IdleTypes
  <2>3. stack' \in Seq(Entries \union {0}) /\ Len(stack') <= MaxDepth /\ OneIdle(stack', in_idle')
    BY <2>1 DEF IdleInv, IdleTypes
  <2> QED
    BY <2>1, <2>2, <2>3, RingKept
<1> QED
  BY <1>1, AddIdleInv, RemoveIdleInv, BeginWaitInv, IdleReturnsInv, EndWaitInv DEF IdleNext

\* The invariant says what the run checks.
LEMMA IdleClosed == IdleInv => RingClosed
<1> SUFFICES ASSUME IdleInv
             PROVE  RingClosed
  OBVIOUS
<1> DEFINE freed == Kept(Follow(nxt, freelist, MaxEntries), Entries)
<1>1. PICK R, F \in Seq(Entries) : Rings(nxt, first, last, freelist, allocated, R, F)
  BY DEF IdleInv
<1>2. allocated \in 0 .. MaxEntries /\ MaxEntries \in Nat
  BY EntriesFacts DEF IdleInv, IdleTypes
<1>3. Ring = R /\ freed = F
  BY <1>1, <1>2, RingsFacts
<1> HIDE DEF freed
<1>4. /\ Ringed(nxt, first, last, R) /\ Chain(nxt, F, freelist, 0)
      /\ ToSet(R) \union ToSet(F) = 1 .. allocated /\ Len(R) + Len(F) = allocated
  BY <1>1 DEF Rings
<1>5. ToSet(Ring \o freed) = 1 .. allocated /\ Len(Ring) + Len(freed) = allocated
  <2>1. ToSet(R \o F) = ToSet(R) \union ToSet(F)
    BY ToSetConcat
  <2> QED
    BY <1>3, <1>4, <2>1
<1>6. /\ first \in Entries \union {0} /\ last \in Entries \union {0}
      /\ first = 0 <=> last = 0
      /\ first # 0 => nxt[last] = first
  BY <1>4, RingEnds
<1>7. freelist \in Entries \union {0}
  <2>1. F # <<>> => F[1] \in Entries
    OBVIOUS
  <2> QED
    BY <1>4, <2>1 DEF Chain
<1>8. IdleTypeOK
  <2>1. idle_ \in BOOLEAN /\ in_idle \in BOOLEAN
    BY Zenon DEF IdleInv, IdleTypes
  <2>2. Depth <= MaxDepth /\ \A d \in 1 .. Depth : stack[d] \in Entries \union {0}
    BY DEF IdleInv, IdleTypes, Depth
  <2>3. /\ nxt \in [Entries -> Entries \union {0}] /\ handler \in [Entries -> Handlers]
        /\ allocated \in 0 .. MaxEntries
    BY DEF IdleInv, IdleTypes
  <2> QED
    BY <1>6, <1>7, <2>1, <2>2, <2>3 DEF IdleTypeOK
<1>9. Cardinality({d \in 1 .. Depth : stack[d] # 0}) <= 1
  <2> DEFINE W == {d \in 1 .. Depth : stack[d] # 0}
  <2>1. \A d, e \in W : d = e
    BY DEF IdleInv, OneIdle, Depth
  <2>2. CASE W = {}
    BY <2>2, FS_EmptySet
  <2>3. CASE W # {}
    <3>1. PICK d : W = {d}
      BY <2>1, <2>3
    <3>2. Cardinality({d}) = 1
      BY FS_Singleton
    <3> HIDE DEF W
    <3>3. Cardinality(W) <= 1
      BY <3>1, <3>2
    <3> QED
      BY <3>3 DEF W
  <2> QED
    BY <2>2, <2>3
<1>10. idle_ <=> first # 0
  BY Zenon DEF IdleInv
<1> QED
  BY <1>5, <1>6, <1>8, <1>9, <1>10 DEF RingClosed, freed

\* For any number of idle callbacks and any nesting of event loops, the ring that
\* call_idle() walks stays closed, every entry is in it or in the free list, once,
\* Fl::idle() is set exactly while it has entries, and idle callbacks do not nest.
THEOREM RingStaysClosed == IdleSpec => []RingClosed
  BY IdleInvInit, IdleStep, IdleClosed, PTL DEF IdleSpec
=============================================================================
