------------------------- MODULE FlTextBufferProofs -------------------------
(***************************************************************************)
(* Proofs about FlTextBuffer: the gap buffer keeps the text, the listeners *)
(* know it, and undo() and redo() lead through the texts there were.       *)
(***************************************************************************)
EXTENDS FlTextBuffer, SequenceLemmas, FiniteSetTheorems, TLAPS

Chars      == Bytes \union {Garbage}
Strings    == Seq(Chars)
Actions    == [buffer : Strings, at : Nat, cut : Nat, insert : Nat, yankcut : Nat]
Selections == [selected : BOOLEAN, start : Int, end : Int]
Calls      == [pos : Nat, nDeleted : Nat, nInserted : Nat, deleted : Strings]
Buffers    == [buf : Strings, gapStart : Nat, gapEnd : Nat, length : Nat,
               canUndo : BOOLEAN, undo : Actions, undoList : Seq(Actions),
               redoList : Seq(Actions), locked : BOOLEAN, sel : Selections,
               call : Calls]

\* The gap lies in the text, and the buffer is as long as both.
GapOK(t) ==
  /\ t.gapStart <= t.length /\ t.gapStart <= t.gapEnd
  /\ Len(t.buf) = t.length + Gap(t)

\* A selection that is active has bytes and lies in the text.
SelOK(sel, length) == sel.selected => 0 <= sel.start /\ sel.start < sel.end /\ sel.end <= length

\* s with the bytes from p to q replaced by ins.
Splice(s, p, q, ins) == SubSeq(s, 1, p) \o ins \o SubSeq(s, q + 1, Len(s))

\* How many bytes an action puts back, which, and from where on.
Back(u)  == IF u.insert > 0 THEN u.yankcut ELSE u.cut
Old(u)   == SubSeq(u.buffer, 1, Back(u))
From(u)  == u.at - u.insert

\* Undoing u leads from the text s to the text r.
Leads(u, s, r) ==
  /\ ~Empty(u) /\ (u.insert > 0 => u.cut = 0) /\ (u.insert = 0 => u.yankcut = 0)
  /\ u.insert <= u.at /\ u.at <= Len(s) /\ Back(u) <= Len(u.buffer)
  /\ r = Splice(s, From(u), u.at, Old(u))

\* The event that undoing u on the text s makes.
Inv(u, s) ==
  [buffer |-> SubSeq(s, From(u) + 1, u.at), at |-> From(u) + Back(u),
   cut |-> IF Back(u) = 0 THEN u.insert ELSE 0, insert |-> Back(u),
   yankcut |-> IF Back(u) = 0 THEN 0 ELSE u.insert]

\* Applying r while u is the current event makes an event of its own.
NoJoin(u, r) == u.at # r.at \/ Empty(u) \/ (r.insert > 0 /\ u.cut = 0)

\* The events A, the first one none, made the texts X one after the other, and
\* each of them, undone, would not join the one before it when it is redone.
Story(A, X) ==
  /\ Len(A) = Len(X) /\ Len(A) >= 1 /\ Empty(A[1])
  /\ \A k \in 2 .. Len(A) :
       Leads(A[k], X[k], X[k - 1]) /\ NoJoin(A[k - 1], Inv(A[k], X[k]))

\* The last events of the redo list R lead from the text s through the texts F,
\* and none of them joins the event that is current then.
Ahead(R, u, F, s) ==
  LET o == Len(R) - Len(F)
      Y == Append(F, s)
  IN  /\ Len(F) <= Len(R)
      /\ \A j \in 1 .. Len(F) :
           /\ Leads(R[o + j], Y[j + 1], Y[j])
           /\ NoJoin(IF j = Len(F) THEN u ELSE Inv(R[o + j + 1], Y[j + 2]), R[o + j])

IInv ==
  /\ b \in Buffers /\ GapOK(b) /\ SelOK(b.sel, b.length) /\ ~b.locked /\ b.call = NoCall
  /\ mirror = TextOf(b)
  /\ past \in Seq(Strings) /\ future \in Seq(Strings)
  /\ Story(Append(b.undoList, b.undo), Append(past, TextOf(b)))
  /\ Ahead(b.redoList, b.undo, future, TextOf(b))
  /\ ~b.canUndo => past = <<>> /\ future = <<>>
-----------------------------------------------------------------------------
(* Strings *)

LEMMA ConcatFacts ==
  ASSUME NEW X, NEW s \in Seq(X), NEW t \in Seq(X)
  PROVE  /\ s \o t \in Seq(X) /\ Len(s \o t) = Len(s) + Len(t)
         /\ \A i \in 1 .. Len(s) + Len(t) :
              (s \o t)[i] = IF i <= Len(s) THEN s[i] ELSE t[i - Len(s)]
BY ConcatProperties

LEMMA SameString ==
  ASSUME NEW X, NEW s \in Seq(X), NEW t \in Seq(X), Len(s) = Len(t),
         \A i \in 1 .. Len(s) : s[i] = t[i]
  PROVE  s = t
BY SeqEqual

\* r is s with the bytes from p to q replaced by ins, byte by byte.
Spliced(r, X, s, p, q, ins) ==
  /\ r \in Seq(X) /\ Len(r) = Len(s) - (q - p) + Len(ins)
  /\ \A i \in 1 .. Len(s) - (q - p) + Len(ins) :
       r[i] = IF i <= p THEN s[i]
              ELSE IF i <= p + Len(ins) THEN ins[i - p]
              ELSE s[i - Len(ins) + (q - p)]

LEMMA SpliceFacts ==
  ASSUME NEW X, NEW s \in Seq(X), NEW ins \in Seq(X), NEW p \in Nat, NEW q \in Nat,
         p <= q, q <= Len(s)
  PROVE  Spliced(Splice(s, p, q, ins), X, s, p, q, ins)
<1> DEFINE u == SubSeq(s, 1, p)
           v == SubSeq(s, q + 1, Len(s))
<1>0. Len(s) \in Nat /\ Len(ins) \in Nat
  OBVIOUS
<1>1. u \in Seq(X) /\ Len(u) = p /\ \A i \in 1 .. p : u[i] = s[i]
  <2>1. /\ u \in Seq(X) /\ Len(u) = p - 1 + 1
        /\ \A i \in 1 .. p - 1 + 1 : u[i] = s[1 + i - 1]
    BY <1>0, Part
  <2> QED
    BY <2>1
<1>2. /\ v \in Seq(X) /\ Len(v) = Len(s) - q
      /\ \A i \in 1 .. Len(s) - q : v[i] = s[q + i]
  <2>1. /\ v \in Seq(X) /\ Len(v) = Len(s) - (q + 1) + 1
        /\ \A i \in 1 .. Len(s) - (q + 1) + 1 : v[i] = s[(q + 1) + i - 1]
    BY <1>0, Part
  <2> QED
    BY <1>0, <2>1
<1> HIDE DEF u, v
<1>3. /\ u \o ins \in Seq(X) /\ Len(u \o ins) = p + Len(ins)
      /\ \A i \in 1 .. p + Len(ins) : (u \o ins)[i] = IF i <= p THEN u[i] ELSE ins[i - p]
  BY <1>1, ConcatFacts
<1>4. /\ (u \o ins) \o v \in Seq(X) /\ Len((u \o ins) \o v) = p + Len(ins) + (Len(s) - q)
      /\ \A i \in 1 .. p + Len(ins) + (Len(s) - q) :
           ((u \o ins) \o v)[i] = IF i <= p + Len(ins) THEN (u \o ins)[i] ELSE v[i - (p + Len(ins))]
  BY <1>2, <1>3, ConcatFacts
<1>5. Splice(s, p, q, ins) = (u \o ins) \o v
  BY DEF Splice, u, v
<1>6. ASSUME NEW i \in 1 .. Len(s) - (q - p) + Len(ins)
      PROVE  Splice(s, p, q, ins)[i] =
                IF i <= p THEN s[i]
                ELSE IF i <= p + Len(ins) THEN ins[i - p]
                ELSE s[i - Len(ins) + (q - p)]
  <2>1. CASE i <= p
    BY <1>0, <1>1, <1>3, <1>4, <1>5, <2>1
  <2>2. CASE p < i /\ i <= p + Len(ins)
    BY <1>0, <1>3, <1>4, <1>5, <2>2, SMTT(30)
  <2>3. CASE p + Len(ins) < i
    <3>1. i - (p + Len(ins)) \in 1 .. Len(s) - q
      BY <1>0, <2>3
    <3>2. q + (i - (p + Len(ins))) = i - Len(ins) + (q - p)
      BY <1>0
    <3>3. ((u \o ins) \o v)[i] = v[i - (p + Len(ins))]
      BY <1>0, <1>4, <2>3
    <3>4. v[i - (p + Len(ins))] = s[q + (i - (p + Len(ins)))]
      BY <1>2, <3>1
    <3> QED
      BY <1>0, <1>5, <2>3, <3>2, <3>3, <3>4
  <2> QED
    BY <1>0, <2>1, <2>2, <2>3
<1> QED
  BY <1>0, <1>4, <1>5, <1>6, SMTT(30) DEF Spliced

LEMMA RangeFacts ==
  ASSUME NEW X, NEW s \in Seq(X), NEW p \in Nat, NEW q \in Nat, p <= q, q <= Len(s)
  PROVE  /\ SubSeq(s, p + 1, q) \in Seq(X) /\ Len(SubSeq(s, p + 1, q)) = q - p
         /\ \A i \in 1 .. q - p : SubSeq(s, p + 1, q)[i] = s[p + i]
<1>1. /\ SubSeq(s, p + 1, q) \in Seq(X) /\ Len(SubSeq(s, p + 1, q)) = q - (p + 1) + 1
      /\ \A i \in 1 .. q - (p + 1) + 1 : SubSeq(s, p + 1, q)[i] = s[(p + 1) + i - 1]
  BY Part
<1> QED
  BY <1>1
-----------------------------------------------------------------------------
(* The gap buffer *)

LEMMA MemcpyFacts ==
  ASSUME NEW to \in Strings, NEW from \in Strings, NEW dst \in Nat, NEW src \in Nat, NEW n \in Nat,
         dst + n <= Len(to), src + n <= Len(from)
  PROVE  /\ Memcpy(to, dst, from, src, n) \in Strings
         /\ Len(Memcpy(to, dst, from, src, n)) = Len(to)
         /\ \A i \in 1 .. Len(to) :
              Memcpy(to, dst, from, src, n)[i] =
                IF dst < i /\ i <= dst + n THEN from[i - dst + src] ELSE to[i]
<1> DEFINE m == Memcpy(to, dst, from, src, n)
<1>1. Len(to) \in Nat /\ Len(from) \in Nat /\ DOMAIN to = 1 .. Len(to)
  BY DEF Strings
<1>2. m = [i \in 1 .. Len(to) |-> IF i \in dst + 1 .. dst + n THEN from[i - dst + src] ELSE to[i]]
  BY <1>1 DEF Memcpy
<1>3. ASSUME NEW i \in 1 .. Len(to)
      PROVE  /\ m[i] = IF dst < i /\ i <= dst + n THEN from[i - dst + src] ELSE to[i]
             /\ m[i] \in Chars
  <2>1. to[i] \in Chars
    BY DEF Strings
  <2>2. CASE dst < i /\ i <= dst + n
    <3>1. i \in dst + 1 .. dst + n /\ i - dst + src \in 1 .. Len(from)
      BY <1>1, <2>2
    <3>2. from[i - dst + src] \in Chars
      BY <3>1 DEF Strings
    <3> QED
      BY <1>2, <2>2, <3>1, <3>2
  <2>3. CASE ~(dst < i /\ i <= dst + n)
    <3>1. i \notin dst + 1 .. dst + n
      BY <2>3
    <3> QED
      BY <1>2, <2>1, <2>3, <3>1
  <2> QED
    BY <2>2, <2>3
<1>4. m \in [1 .. Len(to) -> Chars]
  BY <1>2, <1>3
<1>5. m \in Seq(Chars) /\ Len(m) = Len(to)
  <2> HIDE DEF m
  <2> QED
    BY <1>1, <1>4
<1> QED
  BY <1>3, <1>5 DEF Strings

LEMMA FillFacts ==
  ASSUME NEW n \in Nat
  PROVE  Fill(n) \in Strings /\ Len(Fill(n)) = n
<1>1. Fill(n) \in [1 .. n -> Chars]
  BY DEF Fill, Chars
<1> QED
  BY <1>1 DEF Strings

\* The n bytes around the gap from gs to ge.
Around(buf, gs, ge, n) == SubSeq(buf, 1, gs) \o SubSeq(buf, ge + 1, ge + n - gs)

LEMMA AroundGap ==
  ASSUME NEW buf \in Strings, NEW gs \in Nat, NEW ge \in Nat, NEW n \in Nat,
         gs <= ge, gs <= n, Len(buf) = n + (ge - gs)
  PROVE  /\ Around(buf, gs, ge, n) \in Strings /\ Len(Around(buf, gs, ge, n)) = n
         /\ \A i \in 1 .. n :
              Around(buf, gs, ge, n)[i] = IF i <= gs THEN buf[i] ELSE buf[i + (ge - gs)]
<1> DEFINE e == ge + n - gs
           u == SubSeq(buf, 1, gs)
           v == SubSeq(buf, ge + 1, e)
<1>0. buf \in Seq(Chars) /\ e \in Nat /\ e - ge = n - gs /\ ge <= e /\ e <= Len(buf) /\ gs <= Len(buf)
      /\ n - gs \in Nat
  BY DEF Strings
<1>1. u \in Seq(Chars) /\ Len(u) = gs /\ \A i \in 1 .. gs : u[i] = buf[i]
  <2>1. /\ SubSeq(buf, 0 + 1, gs) \in Seq(Chars) /\ Len(SubSeq(buf, 0 + 1, gs)) = gs - 0
        /\ \A i \in 1 .. gs - 0 : SubSeq(buf, 0 + 1, gs)[i] = buf[0 + i]
    BY <1>0, RangeFacts
  <2> QED
    BY <2>1
<1> HIDE DEF e, u
<1>2. v \in Seq(Chars) /\ Len(v) = n - gs /\ \A i \in 1 .. n - gs : v[i] = buf[ge + i]
  BY <1>0, RangeFacts
<1> HIDE DEF v
<1> DEFINE w == u \o v
<1>3. /\ w \in Seq(Chars) /\ Len(w) = n
      /\ \A i \in 1 .. n : w[i] = IF i <= gs THEN u[i] ELSE v[i - gs]
  <2>1. /\ w \in Seq(Chars) /\ Len(w) = Len(u) + Len(v)
        /\ \A i \in 1 .. Len(u) + Len(v) : w[i] = IF i <= Len(u) THEN u[i] ELSE v[i - Len(u)]
    BY <1>1, <1>2, ConcatFacts
  <2>2. Len(u) + Len(v) = n /\ Len(u) = gs
    BY <1>1, <1>2
  <2> HIDE DEF w
  <2> QED
    BY <2>1, <2>2
<1> HIDE DEF w
<1>4. ASSUME NEW i \in 1 .. n
      PROVE  w[i] = IF i <= gs THEN buf[i] ELSE buf[i + (ge - gs)]
  <2>1. CASE i <= gs
    BY <1>1, <1>3, <2>1
  <2>2. CASE gs < i
    <3>1. i - gs \in 1 .. n - gs /\ ge + (i - gs) = i + (ge - gs) /\ ~(i <= gs)
      BY <2>2
    <3>2. w[i] = v[i - gs]
      BY <1>3, <3>1
    <3>3. v[i - gs] = buf[ge + (i - gs)]
      BY <1>2, <3>1
    <3> QED
      BY <3>1, <3>2, <3>3
  <2> QED
    BY <2>1, <2>2
<1> QED
  BY <1>3, <1>4, Zenon DEF Strings, u, v, e, w, Around

LEMMA GapFacts ==
  ASSUME NEW t \in Buffers, GapOK(t)
  PROVE  /\ t.buf \in Strings /\ t.gapStart \in Nat /\ t.gapEnd \in Nat /\ t.length \in Nat
         /\ Gap(t) = t.gapEnd - t.gapStart /\ Gap(t) \in Nat
         /\ t.gapStart <= t.length /\ t.gapStart <= t.gapEnd
         /\ Len(t.buf) = t.length + (t.gapEnd - t.gapStart)
BY DEF Buffers, GapOK, Gap

LEMMA TextFacts ==
  ASSUME NEW t \in Buffers, GapOK(t)
  PROVE  /\ TextOf(t) \in Strings /\ Len(TextOf(t)) = t.length
         /\ \A i \in 1 .. t.length :
              TextOf(t)[i] = IF i <= t.gapStart THEN t.buf[i] ELSE t.buf[i + Gap(t)]
<1> DEFINE buf == t.buf
           gs == t.gapStart
           ge == t.gapEnd
           n == t.length
           s == TextOf(t)
           g == Gap(t)
<1>1. /\ buf \in Strings /\ gs \in Nat /\ ge \in Nat /\ n \in Nat
      /\ g = ge - gs /\ gs <= n /\ gs <= ge /\ Len(buf) = n + (ge - gs)
  BY GapFacts
<1>2. s = Around(buf, gs, ge, n)
  BY DEF TextOf, Around
<1> HIDE DEF buf, gs, ge, n, s, g
<1>3. /\ s \in Strings /\ Len(s) = n
      /\ \A i \in 1 .. n : s[i] = IF i <= gs THEN buf[i] ELSE buf[i + g]
  BY <1>1, <1>2, AroundGap
<1> QED
  BY <1>3 DEF buf, gs, n, s, g

\* What a member function that only moves the gap leaves alone.
Same(t, r) ==
  /\ r \in Buffers /\ r.length = t.length /\ r.canUndo = t.canUndo /\ r.undo = t.undo
  /\ r.undoList = t.undoList /\ r.redoList = t.redoList /\ r.locked = t.locked
  /\ r.sel = t.sel /\ r.call = t.call

\* The place of the i-th byte in a buffer with the gap g at gs.
Place(i, gs, g) == IF i <= gs THEN i ELSE i + g

\* buf holds n bytes around the gap g at gs, and m around the gap h at ms holds
\* the same ones.
Layout(buf, gs, g, n) ==
  buf \in Strings /\ gs \in Nat /\ g \in Nat /\ n \in Nat /\ gs <= n /\ Len(buf) = n + g
Holds(m, ms, h, buf, gs, g, n) ==
  \A i \in 1 .. n : m[Place(i, ms, h)] = buf[Place(i, gs, g)]

LEMMA LayoutOf ==
  ASSUME NEW t \in Buffers, GapOK(t)
  PROVE  Layout(t.buf, t.gapStart, Gap(t), t.length) /\ t.gapEnd = t.gapStart + Gap(t)
<1>1. /\ t.buf \in Strings /\ t.gapStart \in Nat /\ t.gapEnd \in Nat /\ t.length \in Nat
      /\ Gap(t) = t.gapEnd - t.gapStart /\ Gap(t) \in Nat /\ t.gapStart <= t.length
      /\ Len(t.buf) = t.length + (t.gapEnd - t.gapStart)
  BY GapFacts
<1>2. t.gapEnd = t.gapStart + Gap(t)
  BY <1>1
<1> QED
  BY <1>1, <1>2 DEF Layout

LEMMA LayoutIs ==
  ASSUME NEW t \in Buffers, NEW g \in Nat, t.gapEnd = t.gapStart + g,
         Layout(t.buf, t.gapStart, g, t.length)
  PROVE  GapOK(t) /\ Gap(t) = g
<1>1. t.gapStart \in Nat /\ t.gapStart <= t.length /\ Len(t.buf) = t.length + g
  BY DEF Layout
<1>2. t.gapEnd - t.gapStart = g
  BY <1>1
<1> QED
  BY <1>1, <1>2 DEF GapOK, Gap

LEMMA SameText ==
  ASSUME NEW t \in Buffers, NEW r \in Buffers, GapOK(t), GapOK(r), r.length = t.length,
         Holds(r.buf, r.gapStart, Gap(r), t.buf, t.gapStart, Gap(t), t.length)
  PROVE  TextOf(r) = TextOf(t)
<1>1. /\ TextOf(t) \in Strings /\ Len(TextOf(t)) = t.length
      /\ \A i \in 1 .. t.length : TextOf(t)[i] = t.buf[Place(i, t.gapStart, Gap(t))]
  BY TextFacts DEF Place
<1>2. /\ TextOf(r) \in Strings /\ Len(TextOf(r)) = t.length
      /\ \A i \in 1 .. t.length : TextOf(r)[i] = r.buf[Place(i, r.gapStart, Gap(r))]
  BY TextFacts DEF Place
<1>3. \A i \in 1 .. t.length : TextOf(r)[i] = TextOf(t)[i]
  BY <1>1, <1>2 DEF Holds
<1> QED
  BY <1>1, <1>2, <1>3, SameString DEF Strings

LEMMA BlankBytes ==
  ASSUME NEW buf, NEW gs, NEW g, NEW n, Layout(buf, gs, g, n)
  PROVE  /\ Layout(Memcpy(buf, gs, Fill(g), 0, g), gs, g, n)
         /\ Holds(Memcpy(buf, gs, Fill(g), 0, g), gs, g, buf, gs, g, n)
<1> DEFINE m == Memcpy(buf, gs, Fill(g), 0, g)
<1> USE DEF Layout
<1>1. Fill(g) \in Strings /\ Len(Fill(g)) = g
  BY FillFacts
<1>2. /\ m \in Strings /\ Len(m) = n + g
      /\ \A i \in 1 .. n + g :
           m[i] = IF gs < i /\ i <= gs + g THEN Fill(g)[i - gs + 0] ELSE buf[i]
  BY <1>1, MemcpyFacts
<1> HIDE DEF m
<1>3. ASSUME NEW i \in 1 .. n
      PROVE  m[Place(i, gs, g)] = buf[Place(i, gs, g)]
  <2>1. Place(i, gs, g) \in 1 .. n + g /\ ~(gs < Place(i, gs, g) /\ Place(i, gs, g) <= gs + g)
    BY DEF Place
  <2> QED
    BY <1>2, <2>1
<1> QED
  BY <1>2, <1>3 DEF m, Holds

LEMMA BlankFacts ==
  ASSUME NEW t \in Buffers, GapOK(t), NEW r, r = Blank(t)
  PROVE  /\ Same(t, r) /\ GapOK(r) /\ r.gapStart = t.gapStart /\ r.gapEnd = t.gapEnd
         /\ TextOf(r) = TextOf(t)
<1> DEFINE g == Gap(t)
           m == Memcpy(t.buf, t.gapStart, Fill(g), 0, g)
<1>1. Layout(t.buf, t.gapStart, g, t.length) /\ t.gapEnd = t.gapStart + g
  BY LayoutOf
<1>2. r = [t EXCEPT !.buf = m]
  BY DEF Blank
<1> HIDE DEF g
<1>3. Layout(m, t.gapStart, g, t.length) /\ Holds(m, t.gapStart, g, t.buf, t.gapStart, g, t.length)
  BY <1>1, BlankBytes
<1> HIDE DEF m
<1>4. m \in Strings /\ g \in Nat
  BY <1>3 DEF Layout
<1>5. Same(t, r) /\ r.buf = m /\ r.gapStart = t.gapStart /\ r.gapEnd = t.gapEnd
  BY <1>2, <1>4 DEF Same, Buffers
<1>6. r \in Buffers /\ r.length = t.length
  BY <1>5 DEF Same
<1>7. GapOK(r) /\ Gap(r) = g
  BY <1>1, <1>3, <1>4, <1>5, <1>6, LayoutIs
<1>8. TextOf(r) = TextOf(t)
  BY <1>3, <1>5, <1>6, <1>7, SameText DEF g
<1> QED
  BY <1>5, <1>7, <1>8

\* The bytes after the gap g went from gs to pos.
MovedGap(buf, gs, g, pos) ==
  IF pos > gs THEN Memcpy(buf, gs, buf, gs + g, pos - gs)
  ELSE Memcpy(buf, pos + g, buf, pos, gs - pos)

LEMMA MoveBytes ==
  ASSUME NEW buf, NEW gs, NEW g, NEW n, Layout(buf, gs, g, n), NEW pos \in Nat, pos <= n
  PROVE  /\ Layout(MovedGap(buf, gs, g, pos), pos, g, n)
         /\ Holds(MovedGap(buf, gs, g, pos), pos, g, buf, gs, g, n)
<1> DEFINE m == MovedGap(buf, gs, g, pos)
<1> SUFFICES /\ m \in Strings /\ Len(m) = n + g
             /\ \A i \in 1 .. n : m[Place(i, pos, g)] = buf[Place(i, gs, g)]
  BY DEF Layout, Holds
<1>0. m = IF pos > gs THEN Memcpy(buf, gs, buf, gs + g, pos - gs)
          ELSE Memcpy(buf, pos + g, buf, pos, gs - pos)
  BY DEF MovedGap
<1> HIDE DEF m
<1> USE DEF Layout
<1>1. CASE pos > gs
  <2>1. /\ pos - gs \in Nat /\ gs + g \in Nat
        /\ gs + (pos - gs) <= Len(buf) /\ (gs + g) + (pos - gs) <= Len(buf)
        /\ m = Memcpy(buf, gs, buf, gs + g, pos - gs)
    BY <1>0, <1>1
  <2>2. /\ m \in Strings /\ Len(m) = n + g
        /\ \A i \in 1 .. n + g :
             m[i] = IF gs < i /\ i <= gs + (pos - gs) THEN buf[i - gs + (gs + g)] ELSE buf[i]
    BY <2>1, MemcpyFacts
  <2>3. ASSUME NEW i \in 1 .. n
        PROVE  m[Place(i, pos, g)] = buf[Place(i, gs, g)]
    <3>1. CASE i <= gs
      <4>1. Place(i, pos, g) = i /\ Place(i, gs, g) = i /\ i \in 1 .. n + g /\ ~(gs < i)
        BY <1>1, <3>1 DEF Place
      <4> QED
        BY <2>2, <4>1
    <3>2. CASE gs < i /\ i <= pos
      <4>1. Place(i, pos, g) = i /\ Place(i, gs, g) = i - gs + (gs + g) /\ i \in 1 .. n + g
            /\ i <= gs + (pos - gs)
        BY <1>1, <3>2 DEF Place
      <4> QED
        BY <2>2, <3>2, <4>1
    <3>3. CASE pos < i
      <4>1. Place(i, pos, g) = i + g /\ Place(i, gs, g) = i + g /\ i + g \in 1 .. n + g
            /\ ~(i + g <= gs + (pos - gs))
        BY <1>1, <3>3 DEF Place
      <4> QED
        BY <2>2, <4>1
    <3> QED
      BY <3>1, <3>2, <3>3
  <2> QED
    BY <2>2, <2>3
<1>2. CASE ~(pos > gs)
  <2>1. gs - pos \in Nat /\ pos + g \in Nat
    BY <1>2
  <2>2. /\ m \in Strings /\ Len(m) = n + g
        /\ \A i \in 1 .. n + g :
             m[i] = IF pos + g < i /\ i <= (pos + g) + (gs - pos) THEN buf[i - (pos + g) + pos]
                    ELSE buf[i]
    BY <1>0, <1>2, <2>1, MemcpyFacts
  <2>3. ASSUME NEW i \in 1 .. n
        PROVE  m[Place(i, pos, g)] = buf[Place(i, gs, g)]
    <3>1. CASE i <= pos
      <4>1. Place(i, pos, g) = i /\ Place(i, gs, g) = i /\ i \in 1 .. n + g /\ ~(pos + g < i)
        BY <1>2, <3>1 DEF Place
      <4> QED
        BY <2>2, <4>1
    <3>2. CASE pos < i /\ i <= gs
      <4>1. /\ Place(i, pos, g) = i + g /\ Place(i, gs, g) = (i + g) - (pos + g) + pos
            /\ i + g \in 1 .. n + g /\ pos + g < i + g /\ i + g <= (pos + g) + (gs - pos)
        BY <1>2, <3>2 DEF Place
      <4> QED
        BY <2>2, <4>1
    <3>3. CASE pos < i /\ gs < i
      <4>1. Place(i, pos, g) = i + g /\ Place(i, gs, g) = i + g /\ i + g \in 1 .. n + g
            /\ ~(i + g <= (pos + g) + (gs - pos))
        BY <1>2, <3>3 DEF Place
      <4> QED
        BY <2>2, <4>1
    <3> QED
      BY <3>1, <3>2, <3>3
  <2> QED
    BY <2>2, <2>3
<1> QED
  BY <1>1, <1>2

\* Moving the gap changes nothing else.
LEMMA MoveGapFacts ==
  ASSUME NEW t \in Buffers, GapOK(t), NEW pos \in 0 .. t.length, NEW r, r = move_gap(t, pos)
  PROVE  /\ Same(t, r) /\ GapOK(r) /\ r.gapStart = pos /\ r.gapEnd = pos + Gap(t)
         /\ TextOf(r) = TextOf(t)
<1> DEFINE g == Gap(t)
           m == MovedGap(t.buf, t.gapStart, g, pos)
           e == t.gapEnd + pos - t.gapStart
           q == [t EXCEPT !.buf = m, !.gapEnd = e, !.gapStart = pos]
<1>1. Layout(t.buf, t.gapStart, g, t.length) /\ t.gapEnd = t.gapStart + g
  BY LayoutOf
<1>2. r = Blank(q)
  BY <1>1 DEF move_gap, MovedGap
<1> HIDE DEF g
<1>3. pos \in Nat /\ pos <= t.length /\ g \in Nat /\ e = pos + g /\ e \in Nat
  BY <1>1 DEF Layout
<1>4. Layout(m, pos, g, t.length) /\ Holds(m, pos, g, t.buf, t.gapStart, g, t.length)
  BY <1>1, <1>3, MoveBytes
<1>5. m \in Strings
  BY <1>4 DEF Layout
<1> HIDE DEF m, e
<1>6. Same(t, q) /\ q.buf = m /\ q.gapStart = pos /\ q.gapEnd = e
  BY <1>3, <1>5 DEF Same, Buffers
<1> HIDE DEF q
<1>7. q \in Buffers /\ q.length = t.length
  BY <1>6 DEF Same
<1>8. GapOK(q) /\ Gap(q) = g
  BY <1>3, <1>4, <1>6, <1>7, LayoutIs
<1>9. TextOf(q) = TextOf(t)
  BY <1>4, <1>6, <1>7, <1>8, SameText DEF g
<1>10. /\ Same(q, r) /\ GapOK(r) /\ r.gapStart = q.gapStart /\ r.gapEnd = q.gapEnd
       /\ TextOf(r) = TextOf(q)
  BY <1>2, <1>7, <1>8, BlankFacts
<1> QED
  BY <1>3, <1>6, <1>9, <1>10 DEF Same, g

\* The bytes after reallocate_with_gap(): a fresh buffer with the gap len at start.
Reallocated(buf, gs, g, n, start, len) ==
  LET end == start + len
      low == Memcpy(Fill(n + len), 0, buf, 0, IF start <= gs THEN start ELSE gs)
  IN  IF start <= gs
      THEN Memcpy(Memcpy(low, end, buf, start, gs - start),
                  end + gs - start, buf, gs + g, n - gs)
      ELSE Memcpy(Memcpy(low, gs, buf, gs + g, start - gs),
                  end, buf, gs + g + start - gs, n - start)

LEMMA ReallocBytes ==
  ASSUME NEW buf, NEW gs, NEW g, NEW n, Layout(buf, gs, g, n),
         NEW start \in Nat, start <= n, NEW len \in Nat
  PROVE  /\ Layout(Reallocated(buf, gs, g, n, start, len), start, len, n)
         /\ Holds(Reallocated(buf, gs, g, n, start, len), start, len, buf, gs, g, n)
<1> DEFINE m == Reallocated(buf, gs, g, n, start, len)
           end == start + len
           low == Memcpy(Fill(n + len), 0, buf, 0, IF start <= gs THEN start ELSE gs)
           k == IF start <= gs THEN start ELSE gs
<1> SUFFICES /\ m \in Strings /\ Len(m) = n + len
             /\ \A i \in 1 .. n : m[Place(i, start, len)] = buf[Place(i, gs, g)]
  BY DEF Layout, Holds
<1>0. m = IF start <= gs
          THEN Memcpy(Memcpy(low, end, buf, start, gs - start),
                      end + gs - start, buf, gs + g, n - gs)
          ELSE Memcpy(Memcpy(low, gs, buf, gs + g, start - gs),
                      end, buf, gs + g + start - gs, n - start)
  BY DEF Reallocated
<1> HIDE DEF m
<1> USE DEF Layout
<1>1. /\ low \in Strings /\ Len(low) = n + len
      /\ \A i \in 1 .. n + len : i <= k => low[i] = buf[i]
  <2>1. Fill(n + len) \in Strings /\ Len(Fill(n + len)) = n + len /\ n + len \in Nat
    BY FillFacts
  <2>2. k \in Nat /\ 0 + k <= n + len /\ 0 + k <= Len(buf)
    OBVIOUS
  <2>3. low = Memcpy(Fill(n + len), 0, buf, 0, k)
    OBVIOUS
  <2> HIDE DEF low, k
  <2>4. /\ low \in Strings /\ Len(low) = n + len
        /\ \A i \in 1 .. n + len :
             low[i] = IF 0 < i /\ i <= 0 + k THEN buf[i - 0 + 0] ELSE Fill(n + len)[i]
    BY <2>1, <2>2, <2>3, MemcpyFacts
  <2> QED
    BY <2>2, <2>4
<1> HIDE DEF low
<1>2. CASE start <= gs
  <2> DEFINE d == gs - start
             c == Memcpy(low, end, buf, start, d)
             f == end + gs - start
  <2>1. /\ d \in Nat /\ end \in Nat /\ f \in Nat /\ n - gs \in Nat /\ gs + g \in Nat
        /\ end + d <= Len(low) /\ start + d <= Len(buf)
        /\ f + (n - gs) <= n + len /\ (gs + g) + (n - gs) <= Len(buf)
        /\ f = end + d /\ k = start
    BY <1>1, <1>2
  <2>2. m = Memcpy(c, f, buf, gs + g, n - gs)
    BY <1>0, <1>2
  <2> HIDE DEF d, f, end, k
  <2>3. /\ c \in Strings /\ Len(c) = n + len
        /\ \A i \in 1 .. n + len :
             c[i] = IF end < i /\ i <= end + d THEN buf[i - end + start] ELSE low[i]
    BY <1>1, <2>1, MemcpyFacts, SMTT(30)
  <2> HIDE DEF c
  <2>4. /\ m \in Strings /\ Len(m) = n + len
        /\ \A i \in 1 .. n + len :
             m[i] = IF f < i /\ i <= f + (n - gs) THEN buf[i - f + (gs + g)] ELSE c[i]
    <3> DEFINE w == n - gs
               h == gs + g
    <3>1. /\ c \in Strings /\ buf \in Strings /\ f \in Nat /\ h \in Nat /\ w \in Nat
          /\ f + w <= Len(c) /\ h + w <= Len(buf) /\ m = Memcpy(c, f, buf, h, w)
      BY <2>1, <2>2, <2>3
    <3> HIDE DEF w, h, Layout
    <3>2. /\ m \in Strings /\ Len(m) = Len(c)
          /\ \A i \in 1 .. Len(c) : m[i] = IF f < i /\ i <= f + w THEN buf[i - f + h] ELSE c[i]
      BY <3>1, MemcpyFacts
    <3> QED
      BY <2>3, <3>2 DEF w, h
  <2>5. ASSUME NEW i \in 1 .. n
        PROVE  m[Place(i, start, len)] = buf[Place(i, gs, g)]
    <3>1. CASE i <= start
      <4>1. /\ Place(i, start, len) = i /\ Place(i, gs, g) = i /\ i \in 1 .. n + len
            /\ ~(f < i) /\ ~(end < i) /\ i <= k
        BY <1>2, <2>1, <3>1 DEF Place, end
      <4> QED
        BY <1>1, <2>3, <2>4, <4>1
    <3>2. CASE start < i /\ i <= gs
      <4>1. /\ Place(i, start, len) = i + len /\ i + len \in 1 .. n + len
            /\ Place(i, gs, g) = (i + len) - end + start
            /\ ~(f < i + len) /\ end < i + len /\ i + len <= end + d
        BY <1>2, <2>1, <3>2 DEF Place, end, d
      <4> QED
        BY <2>3, <2>4, <4>1
    <3>3. CASE gs < i
      <4>1. /\ Place(i, start, len) = i + len /\ i + len \in 1 .. n + len
            /\ Place(i, gs, g) = (i + len) - f + (gs + g)
            /\ f < i + len /\ i + len <= f + (n - gs)
        BY <1>2, <2>1, <3>3 DEF Place, end, d
      <4> QED
        BY <2>4, <4>1
    <3> QED
      BY <3>1, <3>2, <3>3
  <2> QED
    BY <2>4, <2>5
<1>3. CASE ~(start <= gs)
  <2> DEFINE d == start - gs
             c == Memcpy(low, gs, buf, gs + g, d)
             f == gs + g + start - gs
  <2>1. /\ d \in Nat /\ end \in Nat /\ f \in Nat /\ n - start \in Nat /\ gs + g \in Nat
        /\ gs + d <= Len(low) /\ (gs + g) + d <= Len(buf)
        /\ end + (n - start) <= n + len /\ f + (n - start) <= Len(buf)
        /\ f = start + g /\ k = gs
    BY <1>1, <1>3
  <2>2. m = Memcpy(c, end, buf, f, n - start)
    BY <1>0, <1>3
  <2> HIDE DEF d, f, end, k
  <2>3. /\ c \in Strings /\ Len(c) = n + len
        /\ \A i \in 1 .. n + len :
             c[i] = IF gs < i /\ i <= gs + d THEN buf[i - gs + (gs + g)] ELSE low[i]
    BY <1>1, <2>1, MemcpyFacts, SMTT(30)
  <2> HIDE DEF c
  <2>4. /\ m \in Strings /\ Len(m) = n + len
        /\ \A i \in 1 .. n + len :
             m[i] = IF end < i /\ i <= end + (n - start) THEN buf[i - end + f] ELSE c[i]
    <3> DEFINE w == n - start
               h == f
    <3>1. /\ c \in Strings /\ buf \in Strings /\ end \in Nat /\ h \in Nat /\ w \in Nat
          /\ end + w <= Len(c) /\ h + w <= Len(buf) /\ m = Memcpy(c, end, buf, h, w)
      BY <2>1, <2>2, <2>3
    <3> HIDE DEF w, h, Layout
    <3>2. /\ m \in Strings /\ Len(m) = Len(c)
          /\ \A i \in 1 .. Len(c) : m[i] = IF end < i /\ i <= end + w THEN buf[i - end + h] ELSE c[i]
      BY <3>1, MemcpyFacts
    <3> QED
      BY <2>3, <3>2 DEF w, h
  <2>5. ASSUME NEW i \in 1 .. n
        PROVE  m[Place(i, start, len)] = buf[Place(i, gs, g)]
    <3>1. CASE i <= gs
      <4>1. /\ Place(i, start, len) = i /\ Place(i, gs, g) = i /\ i \in 1 .. n + len
            /\ ~(end < i) /\ ~(gs < i) /\ i <= k
        BY <1>3, <2>1, <3>1 DEF Place, end
      <4> QED
        BY <1>1, <2>3, <2>4, <4>1
    <3>2. CASE gs < i /\ i <= start
      <4>1. /\ Place(i, start, len) = i /\ i \in 1 .. n + len
            /\ Place(i, gs, g) = i - gs + (gs + g)
            /\ ~(end < i) /\ gs < i /\ i <= gs + d
        BY <1>3, <2>1, <3>2 DEF Place, end, d
      <4> QED
        BY <2>3, <2>4, <4>1
    <3>3. CASE start < i
      <4>1. /\ Place(i, start, len) = i + len /\ i + len \in 1 .. n + len
            /\ Place(i, gs, g) = (i + len) - end + f
            /\ end < i + len /\ i + len <= end + (n - start)
        BY <1>3, <2>1, <3>3 DEF Place, end
      <4> QED
        BY <2>4, <4>1
    <3> QED
      BY <3>1, <3>2, <3>3
  <2> QED
    BY <2>4, <2>5
<1> QED
  BY <1>2, <1>3

\* A new buffer changes nothing else.
LEMMA ReallocFacts ==
  ASSUME NEW t \in Buffers, GapOK(t), NEW start \in 0 .. t.length, NEW len \in Nat,
         NEW r, r = reallocate_with_gap(t, start, len)
  PROVE  /\ Same(t, r) /\ GapOK(r) /\ r.gapStart = start /\ r.gapEnd = start + len
         /\ TextOf(r) = TextOf(t)
<1> DEFINE g == Gap(t)
           m == Reallocated(t.buf, t.gapStart, g, t.length, start, len)
<1>1. Layout(t.buf, t.gapStart, g, t.length) /\ t.gapEnd = t.gapStart + g
  BY LayoutOf
<1>2. r = [t EXCEPT !.buf = m, !.gapStart = start, !.gapEnd = start + len]
  BY <1>1 DEF reallocate_with_gap, Reallocated
<1> HIDE DEF g
<1>3. start \in Nat /\ start <= t.length /\ start + len \in Nat
  BY <1>1 DEF Layout
<1>4. Layout(m, start, len, t.length) /\ Holds(m, start, len, t.buf, t.gapStart, g, t.length)
  BY <1>1, <1>3, ReallocBytes
<1>5. m \in Strings
  BY <1>4 DEF Layout
<1> HIDE DEF m
<1>6. Same(t, r) /\ r.buf = m /\ r.gapStart = start /\ r.gapEnd = start + len
  BY <1>2, <1>3, <1>5 DEF Same, Buffers
<1>7. r \in Buffers /\ r.length = t.length
  BY <1>6 DEF Same
<1>8. GapOK(r) /\ Gap(r) = len
  BY <1>4, <1>6, <1>7, LayoutIs
<1>9. TextOf(r) = TextOf(t)
  BY <1>4, <1>6, <1>7, <1>8, SameText DEF g
<1> QED
  BY <1>6, <1>8, <1>9
-----------------------------------------------------------------------------
(* Reading the text around the gap *)

\* s is the text in a buffer with the gap g at gs.
Reads(buf, gs, g, n, s) ==
  /\ Layout(buf, gs, g, n) /\ s \in Strings /\ Len(s) = n
  /\ \A i \in 1 .. n : s[i] = buf[Place(i, gs, g)]

LEMMA ReadsText ==
  ASSUME NEW t \in Buffers, GapOK(t)
  PROVE  Reads(t.buf, t.gapStart, Gap(t), t.length, TextOf(t))
BY LayoutOf, TextFacts DEF Reads, Place

LEMMA ReadsIs ==
  ASSUME NEW t \in Buffers, GapOK(t), NEW s, Reads(t.buf, t.gapStart, Gap(t), t.length, s)
  PROVE  TextOf(t) = s
<1>1. Reads(t.buf, t.gapStart, Gap(t), t.length, TextOf(t))
  BY ReadsText
<1> DEFINE n == t.length
           u == TextOf(t)
<1>2. /\ u \in Strings /\ Len(u) = n /\ s \in Strings /\ Len(s) = n
      /\ \A i \in 1 .. n : u[i] = s[i]
  BY <1>1 DEF Reads
<1> HIDE DEF n, u
<1>3. u = s
  BY <1>2, SameString DEF Strings
<1> QED
  BY <1>3 DEF u

\* The bytes from s to e of the text, in front of the gap, behind it, and around it.
Ranges(buf, gs, g, txt, s, e) ==
  /\ e <= gs => SubSeq(buf, s + 1, e) = SubSeq(txt, s + 1, e)
  /\ s >= gs => SubSeq(buf, s + g + 1, e + g) = SubSeq(txt, s + 1, e)
  /\ s <= gs /\ gs <= e =>
       SubSeq(buf, s + 1, gs) \o SubSeq(buf, gs + g + 1, gs + g + e - gs) = SubSeq(txt, s + 1, e)

LEMMA RangeBytes ==
  ASSUME NEW buf, NEW gs, NEW g, NEW n, NEW txt, Reads(buf, gs, g, n, txt),
         NEW s \in Nat, NEW e \in Nat, s <= e, e <= n
  PROVE  Ranges(buf, gs, g, txt, s, e)
<1> DEFINE r == SubSeq(txt, s + 1, e)
<1>0. /\ buf \in Seq(Chars) /\ gs \in Nat /\ g \in Nat /\ n \in Nat /\ gs <= n /\ Len(buf) = n + g
      /\ txt \in Seq(Chars) /\ Len(txt) = n
      /\ \A i \in 1 .. n : txt[i] = buf[Place(i, gs, g)]
  BY DEF Reads, Layout, Strings
<1>1. r \in Seq(Chars) /\ Len(r) = e - s /\ \A i \in 1 .. e - s : r[i] = txt[s + i]
  BY <1>0, RangeFacts
<1> HIDE DEF r
<1>2. ASSUME e <= gs
      PROVE  SubSeq(buf, s + 1, e) = r
  <2> DEFINE u == SubSeq(buf, s + 1, e)
  <2>1. u \in Seq(Chars) /\ Len(u) = e - s /\ \A i \in 1 .. e - s : u[i] = buf[s + i]
    BY <1>0, <1>2, RangeFacts
  <2> HIDE DEF u
  <2>2. ASSUME NEW i \in 1 .. e - s
        PROVE  u[i] = r[i]
    <3>1. s + i \in 1 .. n /\ Place(s + i, gs, g) = s + i
      BY <1>0, <1>2 DEF Place
    <3> QED
      BY <1>0, <1>1, <2>1, <3>1
  <2>3. u = r
    BY <1>1, <2>1, <2>2, SameString
  <2> QED
    BY <2>3 DEF u
<1>3. ASSUME s >= gs
      PROVE  SubSeq(buf, s + g + 1, e + g) = r
  <2> DEFINE p == s + g
             q == e + g
             u == SubSeq(buf, p + 1, q)
  <2>0. p \in Nat /\ q \in Nat /\ p <= q /\ q <= Len(buf) /\ q - p = e - s
    BY <1>0
  <2> HIDE DEF p, q
  <2>1. u \in Seq(Chars) /\ Len(u) = e - s /\ \A i \in 1 .. e - s : u[i] = buf[p + i]
    BY <1>0, <2>0, RangeFacts
  <2> HIDE DEF u
  <2>2. ASSUME NEW i \in 1 .. e - s
        PROVE  u[i] = r[i]
    <3>1. s + i \in 1 .. n /\ Place(s + i, gs, g) = p + i
      BY <1>0, <1>3 DEF Place, p
    <3> QED
      BY <1>0, <1>1, <2>1, <3>1
  <2>3. u = r
    BY <1>1, <2>1, <2>2, SameString
  <2> QED
    BY <2>3 DEF u, p, q
<1>4. ASSUME s <= gs, gs <= e
      PROVE  SubSeq(buf, s + 1, gs) \o SubSeq(buf, gs + g + 1, gs + g + e - gs) = r
  <2> DEFINE p == gs + g
             q == gs + g + e - gs
             u == SubSeq(buf, s + 1, gs)
             v == SubSeq(buf, p + 1, q)
             w == u \o v
  <2>0. p \in Nat /\ q \in Nat /\ p <= q /\ q <= Len(buf) /\ q - p = e - gs /\ gs <= Len(buf)
        /\ p = gs + g
    BY <1>0, <1>4
  <2> HIDE DEF p, q
  <2>1. u \in Seq(Chars) /\ Len(u) = gs - s /\ \A i \in 1 .. gs - s : u[i] = buf[s + i]
    BY <1>0, <1>4, <2>0, RangeFacts
  <2>2. v \in Seq(Chars) /\ Len(v) = e - gs /\ \A i \in 1 .. e - gs : v[i] = buf[p + i]
    BY <1>0, <2>0, RangeFacts
  <2> HIDE DEF u, v
  <2>3. /\ w \in Seq(Chars) /\ Len(w) = Len(u) + Len(v)
        /\ \A i \in 1 .. Len(u) + Len(v) : w[i] = IF i <= Len(u) THEN u[i] ELSE v[i - Len(u)]
    BY <2>1, <2>2, ConcatFacts
  <2> HIDE DEF w
  <2>4. Len(u) + Len(v) = e - s /\ Len(u) = gs - s
    BY <1>0, <2>1, <2>2
  <2>5. ASSUME NEW i \in 1 .. e - s
        PROVE  w[i] = r[i]
    <3>1. CASE i <= gs - s
      <4>1. s + i \in 1 .. n /\ Place(s + i, gs, g) = s + i /\ i \in 1 .. gs - s
        BY <1>0, <1>4, <3>1 DEF Place
      <4> QED
        BY <1>0, <1>1, <2>1, <2>3, <2>4, <4>1, SMTT(30)
    <3>2. CASE gs - s < i
      <4>1. /\ s + i \in 1 .. n /\ Place(s + i, gs, g) = p + (i - (gs - s)) /\ i - (gs - s) \in 1 .. e - gs
            /\ ~(i <= gs - s)
        BY <1>0, <1>4, <2>0, <3>2 DEF Place
      <4>2. w[i] = v[i - (gs - s)]
        BY <2>3, <2>4, <4>1
      <4>3. v[i - (gs - s)] = buf[p + (i - (gs - s))]
        BY <2>2, <4>1
      <4>4. r[i] = txt[s + i] /\ txt[s + i] = buf[p + (i - (gs - s))]
        BY <1>0, <1>1, <4>1
      <4> QED
        BY <4>2, <4>3, <4>4
    <3> QED
      BY <1>0, <3>1, <3>2
  <2>6. w = r
    BY <1>1, <2>3, <2>4, <2>5, SameString
  <2> QED
    BY <2>6 DEF u, v, w, p, q
<1> QED
  BY <1>2, <1>3, <1>4 DEF r, Ranges

\* text_range(), and the bytes that remove_() saves, are those of the text.
LEMMA RangeOf ==
  ASSUME NEW t \in Buffers, GapOK(t), NEW s \in Nat, NEW e \in Nat, s <= e, e <= t.length
  PROVE  /\ text_range(t, s, e) = SubSeq(TextOf(t), s + 1, e)
         /\ Removed(t, s, e) = SubSeq(TextOf(t), s + 1, e)
<1> DEFINE buf == t.buf
           gs == t.gapStart
           ge == t.gapEnd
           g == Gap(t)
           n == t.length
           txt == TextOf(t)
<1>1. Reads(buf, gs, g, n, txt) /\ ge = gs + g /\ gs \in Nat /\ g \in Nat /\ n \in Nat
  BY ReadsText, LayoutOf, GapFacts
<1>2. text_range(t, s, e) =
        IF e <= gs THEN SubSeq(buf, s + 1, e)
        ELSE IF s >= gs THEN SubSeq(buf, s + g + 1, e + g)
        ELSE SubSeq(buf, s + 1, gs) \o SubSeq(buf, ge + 1, ge + e - gs)
  BY DEF text_range
<1>3. Removed(t, s, e) =
        IF s > gs THEN SubSeq(buf, g + s + 1, g + e)
        ELSE IF e < gs THEN SubSeq(buf, s + 1, e)
        ELSE SubSeq(buf, s + 1, gs) \o SubSeq(buf, ge + 1, ge + e - gs)
  BY DEF Removed
<1>4. e <= n
  OBVIOUS
<1> HIDE DEF buf, gs, ge, g, n, txt
<1>5. Ranges(buf, gs, g, txt, s, e)
  BY <1>1, <1>4, RangeBytes
<1> USE DEF Ranges
<1>6. g + s + 1 = s + g + 1 /\ g + e = e + g
  BY <1>1
<1>7. text_range(t, s, e) = SubSeq(txt, s + 1, e)
  <2>1. CASE e <= gs
    BY <1>2, <1>5, <2>1
  <2>2. CASE ~(e <= gs) /\ s >= gs
    BY <1>2, <1>5, <2>2
  <2>3. CASE ~(e <= gs) /\ ~(s >= gs)
    <3>1. s <= gs /\ gs <= e
      BY <1>1, <2>3
    <3>2. text_range(t, s, e) = SubSeq(buf, s + 1, gs) \o SubSeq(buf, gs + g + 1, gs + g + e - gs)
      BY <1>1, <1>2, <2>3, Zenon
    <3> QED
      BY <1>5, <3>1, <3>2
  <2> QED
    BY <2>1, <2>2, <2>3
<1>8. Removed(t, s, e) = SubSeq(txt, s + 1, e)
  <2>1. CASE s > gs
    <3>1. s >= gs
      BY <1>1, <2>1
    <3> QED
      BY <1>3, <1>5, <1>6, <2>1, <3>1
  <2>2. CASE ~(s > gs) /\ e < gs
    <3>1. e <= gs
      BY <1>1, <2>2
    <3> QED
      BY <1>3, <1>5, <2>2, <3>1
  <2>3. CASE ~(s > gs) /\ ~(e < gs)
    <3>1. s <= gs /\ gs <= e
      BY <1>1, <2>3
    <3>2. Removed(t, s, e) = SubSeq(buf, s + 1, gs) \o SubSeq(buf, gs + g + 1, gs + g + e - gs)
      BY <1>1, <1>3, <2>3, Zenon
    <3> QED
      BY <1>5, <3>1, <3>2
  <2> QED
    BY <2>1, <2>2, <2>3
<1> QED
  BY <1>7, <1>8 DEF txt
-----------------------------------------------------------------------------
(* Changing the text at the gap *)

LEMMA PutBytes ==
  ASSUME NEW buf, NEW gs, NEW g, NEW n, NEW txt, Reads(buf, gs, g, n, txt),
         NEW ins \in Strings, Len(ins) <= g
  PROVE  Reads(Memcpy(buf, gs, ins, 0, Len(ins)), gs + Len(ins), g - Len(ins), n + Len(ins),
               Splice(txt, gs, gs, ins))
<1> DEFINE k == Len(ins)
           m == Memcpy(buf, gs, ins, 0, k)
           r == Splice(txt, gs, gs, ins)
<1>0. /\ buf \in Strings /\ gs \in Nat /\ g \in Nat /\ n \in Nat /\ gs <= n /\ Len(buf) = n + g
      /\ txt \in Strings /\ Len(txt) = n /\ \A i \in 1 .. n : txt[i] = buf[Place(i, gs, g)]
      /\ k \in Nat /\ k <= g /\ gs + k <= Len(buf) /\ 0 + k <= Len(ins)
  BY DEF Reads, Layout, Strings
<1>1. /\ m \in Strings /\ Len(m) = n + g
      /\ \A i \in 1 .. n + g : m[i] = IF gs < i /\ i <= gs + k THEN ins[i - gs + 0] ELSE buf[i]
  <2> HIDE DEF k
  <2>1. /\ m \in Strings /\ Len(m) = Len(buf)
        /\ \A i \in 1 .. Len(buf) : m[i] = IF gs < i /\ i <= gs + k THEN ins[i - gs + 0] ELSE buf[i]
    BY <1>0, MemcpyFacts
  <2> QED
    BY <1>0, <2>1
<1>2. /\ r \in Strings /\ Len(r) = n + k
      /\ \A i \in 1 .. n + k : r[i] = IF i <= gs THEN txt[i] ELSE IF i <= gs + k THEN ins[i - gs]
                                      ELSE txt[i - k]
  <2>1. Spliced(r, Chars, txt, gs, gs, ins)
    <3>1. txt \in Seq(Chars) /\ ins \in Seq(Chars) /\ gs <= gs /\ gs <= Len(txt)
      BY <1>0 DEF Strings
    <3> QED
      BY <1>0, <3>1, SpliceFacts, Zenon
  <2>2. gs - gs = 0 /\ n - 0 + k = n + k /\ \A i \in Int : i - k + 0 = i - k
    BY <1>0
  <2> HIDE DEF r
  <2> QED
    BY <1>0, <2>1, <2>2 DEF Spliced, Strings
<1> HIDE DEF m, r, k
<1>3. ASSUME NEW i \in 1 .. n + k
      PROVE  r[i] = m[Place(i, gs + k, g - k)]
  <2>1. CASE i <= gs
    <3>1. Place(i, gs + k, g - k) = i /\ Place(i, gs, g) = i /\ i \in 1 .. n + g /\ i \in 1 .. n /\ ~(gs < i)
      BY <1>0, <2>1 DEF Place
    <3> QED
      BY <1>0, <1>1, <1>2, <2>1, <3>1
  <2>2. CASE gs < i /\ i <= gs + k
    <3>1. Place(i, gs + k, g - k) = i /\ i \in 1 .. n + g /\ i - gs + 0 = i - gs /\ ~(i <= gs)
      BY <1>0, <2>2 DEF Place
    <3> QED
      BY <1>1, <1>2, <2>2, <3>1
  <2>3. CASE gs + k < i
    <3>1. /\ Place(i, gs + k, g - k) = i - k + g /\ i - k + g \in 1 .. n + g
          /\ i - k \in 1 .. n /\ Place(i - k, gs, g) = i - k + g
          /\ ~(i - k + g <= gs + k) /\ ~(i <= gs) /\ ~(i <= gs + k)
      BY <1>0, <2>3 DEF Place
    <3>2. m[i - k + g] = buf[i - k + g]
      BY <1>1, <3>1
    <3>3. r[i] = txt[i - k]
      BY <1>2, <3>1
    <3>4. txt[i - k] = buf[Place(i - k, gs, g)]
      BY <1>0, <3>1
    <3> QED
      BY <3>1, <3>2, <3>3, <3>4
  <2> QED
    BY <1>0, <2>1, <2>2, <2>3
<1>4. Layout(m, gs + k, g - k, n + k)
  BY <1>0, <1>1 DEF Layout
<1>5. Reads(m, gs + k, g - k, n + k, r)
  BY <1>2, <1>3, <1>4 DEF Reads
<1> QED
  BY <1>5 DEF m, r, k

LEMMA CutBytes ==
  ASSUME NEW buf, NEW gs, NEW g, NEW n, NEW txt, Reads(buf, gs, g, n, txt),
         NEW s \in Nat, NEW e \in Nat, s <= gs, gs <= e, e <= n
  PROVE  Reads(buf, s, g + (e - s), n - (e - s), Splice(txt, s, e, <<>>))
<1> DEFINE d == e - s
           r == Splice(txt, s, e, <<>>)
<1>0. /\ buf \in Strings /\ gs \in Nat /\ g \in Nat /\ n \in Nat /\ gs <= n /\ Len(buf) = n + g
      /\ txt \in Strings /\ Len(txt) = n /\ \A i \in 1 .. n : txt[i] = buf[Place(i, gs, g)]
      /\ d \in Nat /\ <<>> \in Strings /\ Len(<<>>) = 0 /\ s <= e /\ e = s + d /\ n - d \in Nat
  BY DEF Reads, Layout, Strings
<1>1. /\ r \in Strings /\ Len(r) = n - d
      /\ \A i \in 1 .. n - d : r[i] = IF i <= s THEN txt[i] ELSE txt[i + d]
  <2>1. Spliced(r, Chars, txt, s, e, <<>>)
    BY <1>0, SpliceFacts DEF Strings
  <2>2. n - d + 0 = n - d /\ s + 0 = s /\ \A i \in Int : i - 0 + d = i + d
    BY <1>0
  <2> HIDE DEF r
  <2> QED
    BY <1>0, <2>1, <2>2 DEF Spliced, Strings
<1> HIDE DEF r, d
<1>2. ASSUME NEW i \in 1 .. n - d
      PROVE  r[i] = buf[Place(i, s, g + d)]
  <2>1. CASE i <= s
    <3>1. Place(i, s, g + d) = i /\ Place(i, gs, g) = i /\ i \in 1 .. n
      BY <1>0, <2>1 DEF Place
    <3> QED
      BY <1>0, <1>1, <2>1, <3>1
  <2>2. CASE s < i
    <3>1. Place(i, s, g + d) = i + d + g /\ Place(i + d, gs, g) = i + d + g /\ i + d \in 1 .. n /\ ~(i <= s)
      BY <1>0, <2>2 DEF Place
    <3> QED
      BY <1>0, <1>1, <3>1
  <2> QED
    BY <1>0, <2>1, <2>2
<1>3. Layout(buf, s, g + d, n - d)
  BY <1>0 DEF Layout
<1>4. Reads(buf, s, g + d, n - d, r)
  BY <1>1, <1>2, <1>3 DEF Reads
<1> QED
  BY <1>4 DEF r, d

Selected(r, a, z)   == r = [selected |-> TRUE, start |-> a, end |-> z]
Deselected(r, a, z) == r = [selected |-> FALSE, start |-> a, end |-> z]

LEMMA SelectedFacts ==
  ASSUME NEW a \in Int, NEW z \in Int, NEW r, Selected(r, a, z)
  PROVE  r \in Selections /\ r.selected /\ r.start = a /\ r.end = z
BY DEF Selected, Selections

LEMMA DeselectedFacts ==
  ASSUME NEW a \in Int, NEW z \in Int, NEW r, Deselected(r, a, z)
  PROVE  r \in Selections /\ ~r.selected
BY DEF Deselected, Selections

LEMMA SelectedOK ==
  ASSUME NEW a \in Int, NEW z \in Int, NEW r, NEW len, Selected(r, a, z), 0 <= a, a < z, z <= len
  PROVE  r \in Selections /\ SelOK(r, len)
BY SelectedFacts DEF SelOK

LEMMA DeselectedOK ==
  ASSUME NEW a \in Int, NEW z \in Int, NEW r, NEW len, Deselected(r, a, z)
  PROVE  r \in Selections /\ SelOK(r, len)
BY DeselectedFacts DEF SelOK

\* What update() makes of a selection from a to z.
Updated(r, a, z, s, d, n) ==
  /\ s >= z => Selected(r, a, z)
  /\ s < z /\ s + d <= a => Selected(r, a + n - d, z + n - d)
  /\ s <= a /\ s + d >= z => Deselected(r, s, s)
  /\ s <= a /\ a < s + d /\ s + d < z =>
       Selected(r, s, z + n - d)
  /\ a < s /\ s < z /\ z + n - d > a => Selected(r, a, z + n - d)
  /\ a < s /\ s < z /\ z + n - d <= a => Deselected(r, a, z + n - d)

LEMMA UpdateCases ==
  ASSUME NEW sel \in Selections, sel.selected, 0 <= sel.start, sel.start < sel.end,
         NEW s \in Nat, NEW d \in Nat, NEW n \in Nat
  PROVE  Updated(Update(sel, s, d, n), sel.start, sel.end, s, d, n)
<1> DEFINE a == sel.start
           z == sel.end
           r == Update(sel, s, d, n)
           c == IF s + d >= z THEN [selected |-> FALSE, start |-> s, end |-> s]
                ELSE [sel EXCEPT !.start = s, !.end = z + n - d]
<1>0. a \in Nat /\ z \in Nat /\ a < z /\ sel = [selected |-> TRUE, start |-> a, end |-> z]
  BY DEF Selections
<1>1. r = CASE s > z -> sel
            [] s + d <= a -> [sel EXCEPT !.start = a + n - d, !.end = z + n - d]
            [] s <= a /\ s + d > a -> c
            [] a < s /\ s < z -> [sel EXCEPT !.end = z + n - d, !.selected = z + n - d > a]
            [] OTHER -> sel
  BY DEF Update
<1> HIDE DEF a, z, r, c
<1>2. ASSUME s >= z
      PROVE  Selected(r, a, z)
  <2>1. ~(s + d <= a) /\ ~(s <= a) /\ ~(s < z)
    BY <1>0, <1>2
  <2>2. r = sel
    BY <1>1, <2>1
  <2> QED
    BY <1>0, <2>2 DEF Selected, Deselected
<1>3. ASSUME s < z, s + d <= a
      PROVE  Selected(r, a + n - d, z + n - d)
  <2>1. r = [sel EXCEPT !.start = a + n - d, !.end = z + n - d]
    BY <1>0, <1>1, <1>3
  <2> QED
    BY <1>0, <2>1 DEF Selected, Deselected
<1>4. ASSUME s <= a, s + d >= z
      PROVE  Deselected(r, s, s)
  <2>1. ~(s > z) /\ ~(s + d <= a) /\ s + d > a /\ ~(a < s)
    BY <1>0, <1>4
  <2>2. r = c
    BY <1>1, <1>4, <2>1
  <2> QED
    BY <1>4, <2>2 DEF Selected, Deselected, c
<1>5. ASSUME s <= a, a < s + d, s + d < z
      PROVE  Selected(r, s, z + n - d)
  <2>1. ~(s > z) /\ ~(s + d <= a) /\ s + d > a /\ ~(s + d >= z) /\ ~(a < s)
    BY <1>0, <1>5
  <2>2. r = [sel EXCEPT !.start = s, !.end = z + n - d]
    <3>1. r = c
      BY <1>1, <1>5, <2>1
    <3> QED
      BY <2>1, <3>1 DEF c
  <2> QED
    BY <1>0, <2>2 DEF Selected, Deselected
<1>6. ASSUME a < s, s < z
      PROVE  /\ z + n - d > a => Selected(r, a, z + n - d)
             /\ z + n - d <= a => Deselected(r, a, z + n - d)
  <2>1. ~(s > z) /\ ~(s + d <= a) /\ ~(s <= a)
    BY <1>0, <1>6
  <2>2. r = [sel EXCEPT !.end = z + n - d, !.selected = z + n - d > a]
    BY <1>1, <1>6, <2>1
  <2>3. CASE z + n - d > a
    <3>1. (z + n - d > a) = TRUE /\ ~(z + n - d <= a)
      BY <1>0, <2>3
    <3>2. r = [sel EXCEPT !.end = z + n - d, !.selected = TRUE]
      BY <2>2, <3>1
    <3> QED
      BY <1>0, <3>1, <3>2 DEF Selected, Deselected
  <2>4. CASE z + n - d <= a
    <3>1. (z + n - d > a) = FALSE
      BY <1>0, <2>4
    <3>2. r = [sel EXCEPT !.end = z + n - d, !.selected = FALSE]
      BY <2>2, <3>1
    <3> QED
      BY <1>0, <3>1, <3>2 DEF Selected, Deselected
  <2> QED
    BY <1>0, <2>3, <2>4
<1>7. Updated(r, a, z, s, d, n)
  BY <1>0, <1>2, <1>3, <1>4, <1>5, <1>6 DEF Updated
<1> QED
  BY <1>7 DEF a, z, r

\* A selection stays in the text when n bytes go in at s, or d bytes go.
LEMMA SelectionKept ==
  ASSUME NEW sel \in Selections, NEW len \in Nat, SelOK(sel, len),
         NEW s \in Nat, NEW d \in Nat, s + d <= len, NEW n \in Nat, d = 0 \/ n = 0
  PROVE  Update(sel, s, d, n) \in Selections /\ SelOK(Update(sel, s, d, n), len - d + n)
<1> DEFINE r == Update(sel, s, d, n)
<1>1. CASE ~sel.selected
  <2>1. r = sel
    BY <1>1 DEF Update
  <2> QED
    BY <1>1, <2>1 DEF SelOK
<1>2. CASE sel.selected
  <2> DEFINE a == sel.start
             z == sel.end
  <2>1. a \in Nat /\ z \in Nat /\ a < z /\ z <= len
    BY <1>2 DEF SelOK, Selections
  <2>2. Updated(r, a, z, s, d, n)
    BY <1>2, <2>1, UpdateCases
  <2> HIDE DEF a, z, r
  <2> USE DEF Updated
  <2> DEFINE m == len - d + n
  <2> SUFFICES r \in Selections /\ SelOK(r, m)
    BY DEF r
  <2> HIDE DEF m
  <2>3. CASE s >= z
    <3>1. Selected(r, a, z) /\ z <= m
      BY <2>1, <2>2, <2>3 DEF m
    <3> QED
      BY <2>1, <3>1, SelectedOK
  <2>4. CASE s < z /\ s + d <= a
    <3>1. Selected(r, a + n - d, z + n - d)
      BY <2>2, <2>4
    <3>2. a + n - d \in Int /\ z + n - d \in Int /\ 0 <= a + n - d /\ a + n - d < z + n - d /\ z + n - d <= m
      BY <2>1, <2>4 DEF m
    <3> QED
      BY <3>1, <3>2, SelectedOK
  <2>5. CASE s <= a /\ s + d >= z
    BY <2>2, <2>5, DeselectedOK
  <2>6. CASE s <= a /\ a < s + d /\ s + d < z
    <3>1. Selected(r, s, z + n - d)
      BY <2>2, <2>6
    <3>2. z + n - d \in Int /\ 0 <= s /\ s < z + n - d /\ z + n - d <= m
      BY <2>1, <2>6 DEF m
    <3> QED
      BY <3>1, <3>2, SelectedOK
  <2>7. CASE a < s /\ s < z
    <3>1. z + n - d \in Int /\ a \in Int /\ z + n - d <= m /\ 0 <= a
      BY <2>1, <2>7 DEF m
    <3>2. CASE z + n - d > a
      <4>1. Selected(r, a, z + n - d) /\ a < z + n - d
        BY <2>1, <2>2, <2>7, <3>2
      <4> QED
        BY <3>1, <4>1, SelectedOK
    <3>3. CASE z + n - d <= a
      <4>1. Deselected(r, a, z + n - d)
        BY <2>2, <2>7, <3>3
      <4> QED
        BY <3>1, <4>1, DeselectedOK
    <3> QED
      BY <3>1, <3>2, <3>3
  <2> QED
    BY <2>1, <2>3, <2>4, <2>5, <2>6, <2>7
<1> QED
  BY <1>1, <1>2
-----------------------------------------------------------------------------
(* What is recorded *)

SameBody(t, r) ==
  /\ r \in Buffers /\ r.buf = t.buf /\ r.gapStart = t.gapStart /\ r.gapEnd = t.gapEnd
  /\ r.length = t.length /\ r.canUndo = t.canUndo /\ r.locked = t.locked
  /\ r.sel = t.sel /\ r.call = t.call

\* Nothing is recorded, the current event becomes a, a new event a begins.
Unrecorded(t, r) == r.undo = t.undo /\ r.undoList = t.undoList /\ r.redoList = t.redoList
Joined(t, r, a)  == r.undo = a /\ r.undoList = t.undoList /\ r.redoList = t.redoList
Fresh(t, r, a)   == /\ r.undo = a /\ r.undoList = Append(t.undoList, t.undo)
                    /\ r.redoList = IF t.locked THEN t.redoList ELSE <<>>

InsertJoins(u, pos)  == u.at = pos /\ ~Empty(u)
JoinedInsert(u, n)   == [buffer |-> u.buffer, at |-> u.at + n, cut |-> 0,
                         insert |-> u.insert + n, yankcut |-> Back(u)]
NewInsert(pos, n)    == [buffer |-> <<>>, at |-> pos + n, cut |-> 0, insert |-> n, yankcut |-> 0]
RemoveJoins(u, e)    == u.at = e /\ u.cut > 0
JoinedRemove(u, s, e, bytes) ==
  [buffer |-> bytes \o SubSeq(u.buffer, 1, u.cut), at |-> s, cut |-> u.cut + e - s,
   insert |-> 0, yankcut |-> 0]
NewRemove(s, e, bytes) ==
  [buffer |-> bytes, at |-> s, cut |-> e - s, insert |-> 0, yankcut |-> 0]

LEMMA BodyText ==
  ASSUME NEW t, NEW r, SameBody(t, r), GapOK(t)
  PROVE  GapOK(r) /\ TextOf(r) = TextOf(t)
BY DEF SameBody, GapOK, TextOf, Gap

LEMMA NewEventFacts ==
  ASSUME NEW t \in Buffers, NEW a \in Actions, NEW r, r = NewEvent(t, a)
  PROVE  SameBody(t, r) /\ Fresh(t, r, a)
<1> DEFINE L == Append(t.undoList, t.undo)
           R == IF t.locked THEN t.redoList ELSE <<>>
<1>1. L \in Seq(Actions) /\ R \in Seq(Actions)
  BY DEF Buffers
<1>2. r = [t EXCEPT !.undo = a, !.undoList = L, !.redoList = R]
  BY DEF NewEvent
<1> HIDE DEF L, R
<1>3. SameBody(t, r) /\ r.undo = a /\ r.undoList = L /\ r.redoList = R
  BY <1>1, <1>2 DEF Buffers, SameBody
<1> QED
  BY <1>3 DEF Fresh, L, R

LEMMA JoinEventFacts ==
  ASSUME NEW t \in Buffers, NEW a \in Actions, NEW r, r = JoinEvent(t, a)
  PROVE  SameBody(t, r) /\ Joined(t, r, a)
BY DEF JoinEvent, Buffers, SameBody, Joined

LEMMA ActionsMade ==
  ASSUME NEW u \in Actions, u.cut <= Len(u.buffer), NEW pos \in Nat, NEW n \in Nat,
         NEW s \in Nat, NEW e \in Nat, s <= e, NEW bytes \in Strings
  PROVE  /\ JoinedInsert(u, n) \in Actions /\ NewInsert(pos, n) \in Actions
         /\ JoinedRemove(u, s, e, bytes) \in Actions /\ NewRemove(s, e, bytes) \in Actions
<1>1. /\ u.buffer \in Strings /\ u.at \in Nat /\ u.cut \in Nat /\ u.insert \in Nat /\ u.yankcut \in Nat
      /\ Back(u) \in Nat /\ <<>> \in Strings
  BY DEF Actions, Back, Strings
<1>2. JoinedInsert(u, n) \in Actions /\ NewInsert(pos, n) \in Actions
  BY <1>1 DEF JoinedInsert, NewInsert, Actions
<1> DEFINE w == bytes \o SubSeq(u.buffer, 1, u.cut)
<1>3. w \in Strings
  <2> DEFINE f == u.buffer
             c == u.cut
             v == SubSeq(f, 0 + 1, c)
  <2>1. f \in Seq(Chars) /\ c \in Nat /\ c <= Len(f) /\ 0 <= c
    BY <1>1 DEF Strings
  <2>2. w = bytes \o v
    OBVIOUS
  <2> HIDE DEF f, c, w
  <2>3. v \in Seq(Chars)
    BY <2>1, RangeFacts
  <2> HIDE DEF v
  <2> QED
    BY <2>2, <2>3, ConcatFacts DEF Strings
<1> HIDE DEF w
<1>4. u.cut + e - s \in Nat /\ e - s \in Nat
  BY <1>1
<1>5. JoinedRemove(u, s, e, bytes) = [buffer |-> w, at |-> s, cut |-> u.cut + e - s, insert |-> 0, yankcut |-> 0]
  BY DEF JoinedRemove, w
<1>6. JoinedRemove(u, s, e, bytes) \in Actions /\ NewRemove(s, e, bytes) \in Actions
  BY <1>3, <1>4, <1>5 DEF NewRemove, Actions
<1> QED
  BY <1>2, <1>6

LEMMA ActionIs ==
  ASSUME NEW x \in Actions
  PROVE  x = [buffer |-> x.buffer, at |-> x.at, cut |-> x.cut, insert |-> x.insert, yankcut |-> x.yankcut]
BY DEF Actions

LEMMA EmptyActionFacts ==
  /\ EmptyAction \in Actions /\ EmptyAction.buffer = <<>> /\ EmptyAction.at = 0
  /\ EmptyAction.cut = 0 /\ EmptyAction.insert = 0 /\ EmptyAction.yankcut = 0
<1>1. <<>> \in Strings
  BY DEF Strings
<1> QED
  BY <1>1 DEF EmptyAction, Actions

LEMMA RecordInsertFacts ==
  ASSUME NEW t \in Buffers, t.undo.cut <= Len(t.undo.buffer), NEW pos \in Nat, NEW n \in Nat,
         NEW r, r = RecordInsert(t, pos, n)
  PROVE  /\ SameBody(t, r)
         /\ InsertJoins(t.undo, pos) => Joined(t, r, JoinedInsert(t.undo, n))
         /\ ~InsertJoins(t.undo, pos) => Fresh(t, r, NewInsert(pos, n))
<1> DEFINE u == t.undo
           m == pos + n
           k == u.insert + n
<1>1. u \in Actions /\ u.cut <= Len(u.buffer)
  BY DEF Buffers
<1>2. r = CASE u.at = pos /\ u.insert > 0 ->
                 JoinEvent(t, [u EXCEPT !.insert = k, !.at = m, !.cut = 0])
            [] u.at = pos /\ u.insert = 0 /\ u.cut > 0 ->
                 JoinEvent(t, [u EXCEPT !.insert = n, !.yankcut = u.cut, !.at = m, !.cut = 0])
            [] OTHER -> NewEvent(t, [EmptyAction EXCEPT !.insert = n, !.at = m])
  BY DEF RecordInsert
<1>9. m \in Nat /\ k \in Nat
  BY <1>1 DEF Actions
<1> HIDE DEF u, m, k
<1>3. u.insert \in Nat /\ u.cut \in Nat /\ u.at \in Nat
  BY <1>1 DEF Actions
<1>4. ASSUME InsertJoins(u, pos)
      PROVE  r = JoinEvent(t, JoinedInsert(u, n))
  <2>1. u.at = pos /\ (u.insert > 0 \/ (u.insert = 0 /\ u.cut > 0))
    BY <1>3, <1>4 DEF InsertJoins, Empty
  <2>2. CASE u.insert > 0
    <3>1. r = JoinEvent(t, [u EXCEPT !.insert = k, !.at = m, !.cut = 0])
      BY <1>2, <1>3, <2>1, <2>2
    <3>2. [u EXCEPT !.insert = k, !.at = m, !.cut = 0] = JoinedInsert(u, n)
      <4> DEFINE x == [u EXCEPT !.insert = k, !.at = m, !.cut = 0]
      <4>1. /\ x \in Actions /\ x.buffer = u.buffer /\ x.at = u.at + n /\ x.cut = 0
            /\ x.insert = u.insert + n /\ x.yankcut = Back(u)
        <5>1. /\ x \in Actions /\ x.buffer = u.buffer /\ x.at = m /\ x.cut = 0
              /\ x.insert = k /\ x.yankcut = u.yankcut
          BY <1>1, <1>9 DEF Actions
        <5>2. m = u.at + n /\ Back(u) = u.yankcut /\ k = u.insert + n
          BY <2>1, <2>2 DEF Back, m, k
        <5> QED
          BY <5>1, <5>2
      <4> HIDE DEF x
      <4>2. x = JoinedInsert(u, n)
        BY <4>1, ActionIs DEF JoinedInsert
      <4> QED
        BY <4>2 DEF x
    <3> QED
      BY <3>1, <3>2
  <2>3. CASE u.insert = 0 /\ u.cut > 0
    <3>1. r = JoinEvent(t, [u EXCEPT !.insert = n, !.yankcut = u.cut, !.at = m, !.cut = 0])
      BY <1>2, <1>3, <2>1, <2>3
    <3>2. [u EXCEPT !.insert = n, !.yankcut = u.cut, !.at = m, !.cut = 0] = JoinedInsert(u, n)
      <4> DEFINE x == [u EXCEPT !.insert = n, !.yankcut = u.cut, !.at = m, !.cut = 0]
      <4>1. /\ x \in Actions /\ x.buffer = u.buffer /\ x.at = u.at + n /\ x.cut = 0
            /\ x.insert = u.insert + n /\ x.yankcut = Back(u)
        <5>1. /\ x \in Actions /\ x.buffer = u.buffer /\ x.at = m /\ x.cut = 0
              /\ x.insert = n /\ x.yankcut = u.cut
          BY <1>1, <1>9 DEF Actions
        <5>2. m = u.at + n /\ Back(u) = u.cut /\ n = u.insert + n
          BY <2>1, <2>3 DEF Back, m
        <5> QED
          BY <5>1, <5>2
      <4> HIDE DEF x
      <4>2. x = JoinedInsert(u, n)
        BY <4>1, ActionIs DEF JoinedInsert
      <4> QED
        BY <4>2 DEF x
    <3> QED
      BY <3>1, <3>2
  <2> QED
    BY <2>1, <2>2, <2>3
<1>5. ASSUME ~InsertJoins(u, pos)
      PROVE  r = NewEvent(t, NewInsert(pos, n))
  <2>1. ~(u.at = pos /\ u.insert > 0) /\ ~(u.at = pos /\ u.insert = 0 /\ u.cut > 0)
    BY <1>3, <1>5 DEF InsertJoins, Empty
  <2>2. r = NewEvent(t, [EmptyAction EXCEPT !.insert = n, !.at = m])
    BY <1>2, <2>1
  <2>3. [EmptyAction EXCEPT !.insert = n, !.at = m] = NewInsert(pos, n)
    <3> DEFINE x == [EmptyAction EXCEPT !.insert = n, !.at = m]
    <3>1. /\ x \in Actions /\ x.buffer = <<>> /\ x.at = m /\ x.cut = 0
          /\ x.insert = n /\ x.yankcut = 0
      BY <1>9, EmptyActionFacts DEF Actions
    <3> HIDE DEF x
    <3>2. x = NewInsert(pos, n)
      BY <3>1, ActionIs DEF NewInsert, m
    <3> QED
      BY <3>2 DEF x
  <2> QED
    BY <2>2, <2>3
<1>6. JoinedInsert(u, n) \in Actions /\ NewInsert(pos, n) \in Actions
  <2>1. <<>> \in Strings /\ 0 \in Nat /\ 0 <= 0
    BY DEF Strings
  <2> QED
    BY <1>1, <2>1, ActionsMade
<1> HIDE DEF u
<1>7. CASE InsertJoins(u, pos)
  BY <1>4, <1>6, <1>7, JoinEventFacts DEF u
<1>8. CASE ~InsertJoins(u, pos)
  BY <1>5, <1>6, <1>8, NewEventFacts DEF u
<1> QED
  BY <1>7, <1>8

LEMMA RecordRemoveFacts ==
  ASSUME NEW t \in Buffers, t.undo.cut <= Len(t.undo.buffer), NEW s \in Nat, NEW e \in Nat, s <= e,
         NEW bytes \in Strings, NEW r, r = RecordRemove(t, s, e, bytes)
  PROVE  /\ SameBody(t, r)
         /\ RemoveJoins(t.undo, e) => Joined(t, r, JoinedRemove(t.undo, s, e, bytes))
         /\ ~RemoveJoins(t.undo, e) => Fresh(t, r, NewRemove(s, e, bytes))
<1> DEFINE u == t.undo
           w == bytes \o SubSeq(u.buffer, 1, u.cut)
<1>1. u \in Actions /\ u.cut <= Len(u.buffer)
  BY DEF Buffers
<1>2. r = IF RemoveJoins(u, e)
          THEN JoinEvent(t, [u EXCEPT !.buffer = w, !.cut = @ + e - s, !.at = s, !.insert = 0, !.yankcut = 0])
          ELSE NewEvent(t, [EmptyAction EXCEPT !.buffer = bytes, !.cut = e - s, !.at = s])
  BY DEF RecordRemove, RemoveJoins
<1>3. JoinedRemove(u, s, e, bytes) \in Actions /\ NewRemove(s, e, bytes) \in Actions
  BY <1>1, ActionsMade
<1>4. JoinedRemove(u, s, e, bytes) = [buffer |-> w, at |-> s, cut |-> u.cut + e - s, insert |-> 0, yankcut |-> 0]
  BY DEF JoinedRemove
<1> HIDE DEF u, w
<1>7. w \in Strings /\ u.cut + e - s \in Nat
  BY <1>3, <1>4 DEF Actions
<1>8. e - s \in Nat
  OBVIOUS
<1>5. CASE RemoveJoins(u, e)
  <2>1. [u EXCEPT !.buffer = w, !.cut = @ + e - s, !.at = s, !.insert = 0, !.yankcut = 0] = JoinedRemove(u, s, e, bytes)
    <3> DEFINE x == [u EXCEPT !.buffer = w, !.cut = @ + e - s, !.at = s, !.insert = 0, !.yankcut = 0]
    <3>1. /\ x \in Actions /\ x.buffer = w /\ x.at = s /\ x.cut = u.cut + e - s
          /\ x.insert = 0 /\ x.yankcut = 0
      BY <1>1, <1>7 DEF Actions
    <3> HIDE DEF x
    <3>2. x = JoinedRemove(u, s, e, bytes)
      BY <3>1, ActionIs DEF JoinedRemove, w
    <3> QED
      BY <3>2 DEF x
  <2>2. r = JoinEvent(t, JoinedRemove(u, s, e, bytes))
    BY <1>2, <1>5, <2>1
  <2> QED
    BY <1>3, <1>5, <2>2, JoinEventFacts DEF u
<1>6. CASE ~RemoveJoins(u, e)
  <2>1. [EmptyAction EXCEPT !.buffer = bytes, !.cut = e - s, !.at = s] = NewRemove(s, e, bytes)
    <3> DEFINE x == [EmptyAction EXCEPT !.buffer = bytes, !.cut = e - s, !.at = s]
    <3>1. /\ x \in Actions /\ x.buffer = bytes /\ x.at = s /\ x.cut = e - s
          /\ x.insert = 0 /\ x.yankcut = 0
      BY <1>8, EmptyActionFacts DEF Actions
    <3> HIDE DEF x
    <3>2. x = NewRemove(s, e, bytes)
      BY <3>1, ActionIs DEF NewRemove
    <3> QED
      BY <3>2 DEF x
  <2>2. r = NewEvent(t, NewRemove(s, e, bytes))
    BY <1>2, <1>6, <2>1
  <2> QED
    BY <1>3, <1>6, <2>2, NewEventFacts DEF u
<1> QED
  BY <1>5, <1>6
-----------------------------------------------------------------------------
(* insert_() and remove_() *)

\* r is t after the bytes from p to q were replaced by ins.
Edits(t, r, p, q, ins) ==
  /\ r \in Buffers /\ GapOK(r) /\ SelOK(r.sel, r.length)
  /\ TextOf(r) = Splice(TextOf(t), p, q, ins) /\ r.length = t.length - (q - p) + Len(ins)
  /\ r.canUndo = t.canUndo /\ r.locked = t.locked /\ r.call = t.call

LEMMA Roomy ==
  ASSUME NEW t \in Buffers, GapOK(t), NEW pos \in Nat, pos <= t.length, NEW n \in Nat,
         NEW q, q = IF n > Gap(t) THEN reallocate_with_gap(t, pos, n + PreferredGap)
                    ELSE IF pos # t.gapStart THEN move_gap(t, pos) ELSE t
  PROVE  /\ Same(t, q) /\ GapOK(q) /\ q.gapStart = pos /\ n <= Gap(q) /\ TextOf(q) = TextOf(t)
<1>0. /\ PreferredGap \in Nat /\ t.length \in Nat /\ pos \in 0 .. t.length /\ Gap(t) \in Nat
      /\ n + PreferredGap \in Nat /\ t.gapStart \in Nat
  BY TextBufferAssumption, GapFacts
<1>1. CASE n > Gap(t)
  <2>1. /\ Same(t, q) /\ GapOK(q) /\ q.gapStart = pos /\ q.gapEnd = pos + (n + PreferredGap)
        /\ TextOf(q) = TextOf(t)
    BY <1>0, <1>1, ReallocFacts
  <2>2. Gap(q) = n + PreferredGap
    BY <1>0, <2>1 DEF Gap
  <2> QED
    BY <1>0, <2>1, <2>2
<1>2. CASE ~(n > Gap(t)) /\ pos # t.gapStart
  <2>1. /\ Same(t, q) /\ GapOK(q) /\ q.gapStart = pos /\ q.gapEnd = pos + Gap(t)
        /\ TextOf(q) = TextOf(t)
    BY <1>0, <1>2, MoveGapFacts
  <2>2. Gap(q) = Gap(t)
    BY <1>0, <2>1 DEF Gap
  <2> QED
    BY <1>0, <1>2, <2>1, <2>2
<1>3. CASE ~(n > Gap(t)) /\ pos = t.gapStart
  BY <1>0, <1>3 DEF Same
<1> QED
  BY <1>1, <1>2, <1>3

LEMMA PutFacts ==
  ASSUME NEW t \in Buffers, GapOK(t), SelOK(t.sel, t.length), NEW ins \in Strings, Len(ins) <= Gap(t),
         NEW pos \in Nat, pos = t.gapStart,
         NEW r, r = [t EXCEPT !.buf = Memcpy(@, pos, ins, 0, Len(ins)), !.gapStart = @ + Len(ins),
                              !.length = @ + Len(ins), !.sel = Update(@, pos, 0, Len(ins))]
  PROVE  Edits(t, r, pos, pos, ins) /\ Unrecorded(t, r)
<1> DEFINE n == Len(ins)
           m == Memcpy(t.buf, pos, ins, 0, n)
           gs == t.gapStart + n
           l == t.length + n
           sel == Update(t.sel, pos, 0, n)
           g == Gap(t)
           txt == Splice(TextOf(t), pos, pos, ins)
<1>0. n \in Nat /\ n <= g /\ g \in Nat /\ pos + 0 <= t.length /\ t.length \in Nat /\ t.sel \in Selections
      /\ t.gapEnd \in Nat /\ t.gapEnd = t.gapStart + g /\ t.gapStart \in Nat /\ 0 \in Nat
  BY GapFacts, LayoutOf DEF Buffers, Strings
<1>1. Reads(m, pos + n, g - n, t.length + n, txt)
  BY ReadsText, PutBytes
<1>2. sel \in Selections /\ SelOK(sel, t.length - 0 + n)
  <2> HIDE DEF n
  <2> QED
    BY <1>0, SelectionKept
<1>3. m \in Strings /\ gs \in Nat /\ l \in Nat /\ gs = pos + n /\ t.length - 0 + n = l /\ g - n \in Nat
      /\ t.gapEnd = gs + (g - n)
  <2>1. m \in Strings
    BY <1>1 DEF Reads, Layout
  <2> HIDE DEF m, n, g
  <2> QED
    BY <1>0, <2>1, SMTT(30)
<1>4. r = [t EXCEPT !.buf = m, !.gapStart = gs, !.length = l, !.sel = sel]
  OBVIOUS
<1>5. Reads(m, gs, g - n, l, txt)
  BY <1>0, <1>1, <1>3
<1> HIDE DEF m, gs, l, sel, n, g, txt
<1>6. /\ r \in Buffers /\ r.buf = m /\ r.gapStart = gs /\ r.gapEnd = t.gapEnd /\ r.length = l
      /\ r.canUndo = t.canUndo /\ r.locked = t.locked /\ r.sel = sel /\ r.call = t.call
      /\ Unrecorded(t, r)
  BY <1>2, <1>3, <1>4 DEF Buffers, Unrecorded
<1>7. GapOK(r) /\ Gap(r) = g - n
  <2>1. Layout(r.buf, r.gapStart, g - n, r.length) /\ r.gapEnd = r.gapStart + (g - n)
    BY <1>3, <1>5, <1>6 DEF Reads
  <2> QED
    BY <1>3, <1>6, <2>1, LayoutIs
<1>8. TextOf(r) = txt
  BY <1>5, <1>6, <1>7, ReadsIs
<1>9. l = t.length - (pos - pos) + n
  BY <1>0 DEF l
<1> QED
  BY <1>2, <1>3, <1>6, <1>7, <1>8, <1>9 DEF Edits, txt, n

\* insert_() of a text that is not empty.
LEMMA InsertFacts ==
  ASSUME NEW t \in Buffers, GapOK(t), SelOK(t.sel, t.length), t.undo.cut <= Len(t.undo.buffer),
         NEW pos \in Nat, pos <= t.length, NEW ins \in Strings, ins # <<>>,
         NEW r, r = insert_(t, pos, ins)
  PROVE  /\ Edits(t, r, pos, pos, ins)
         /\ ~t.canUndo => Unrecorded(t, r)
         /\ t.canUndo /\ InsertJoins(t.undo, pos) => Joined(t, r, JoinedInsert(t.undo, Len(ins)))
         /\ t.canUndo /\ ~InsertJoins(t.undo, pos) => Fresh(t, r, NewInsert(pos, Len(ins)))
<1> DEFINE n == Len(ins)
           q == IF n > Gap(t) THEN reallocate_with_gap(t, pos, n + PreferredGap)
                ELSE IF pos # t.gapStart THEN move_gap(t, pos) ELSE t
           p == [q EXCEPT !.buf = Memcpy(@, pos, ins, 0, n), !.gapStart = @ + n,
                          !.length = @ + n, !.sel = Update(@, pos, 0, n)]
<1>0. n \in Nat
  BY DEF Strings
<1>1. r = IF t.canUndo THEN RecordInsert(p, pos, n) ELSE p
  BY DEF insert_
<1>2. Same(t, q) /\ GapOK(q) /\ q.gapStart = pos /\ n <= Gap(q) /\ TextOf(q) = TextOf(t)
  BY <1>0, Roomy
<1> HIDE DEF q
<1>3. q \in Buffers /\ SelOK(q.sel, q.length)
  BY <1>2 DEF Same
<1>4. Edits(q, p, pos, pos, ins) /\ Unrecorded(q, p)
  BY <1>2, <1>3, PutFacts
<1> HIDE DEF p, n
<1>5. Edits(t, p, pos, pos, ins) /\ Unrecorded(t, p)
  BY <1>2, <1>4 DEF Same, Edits, Unrecorded
<1>6. CASE ~t.canUndo
  BY <1>1, <1>5, <1>6
<1>7. CASE t.canUndo
  <2>1. p \in Buffers /\ p.undo = t.undo /\ p.undo.cut <= Len(p.undo.buffer) /\ GapOK(p)
    BY <1>5 DEF Edits, Unrecorded
  <2>2. /\ SameBody(p, r)
        /\ InsertJoins(p.undo, pos) => Joined(p, r, JoinedInsert(p.undo, n))
        /\ ~InsertJoins(p.undo, pos) => Fresh(p, r, NewInsert(pos, n))
    BY <1>0, <1>1, <1>7, <2>1, RecordInsertFacts
  <2>3. GapOK(r) /\ TextOf(r) = TextOf(p)
    BY <2>1, <2>2, BodyText
  <2>4. Edits(t, r, pos, pos, ins)
    BY <1>5, <2>2, <2>3 DEF Edits, SameBody
  <2>5. p.locked = t.locked
    BY <1>5 DEF Edits
  <2>6. InsertJoins(t.undo, pos) => Joined(t, r, JoinedInsert(t.undo, n))
    BY <1>5, <2>1, <2>2 DEF Joined, Unrecorded
  <2>7. ~InsertJoins(t.undo, pos) => Fresh(t, r, NewInsert(pos, n))
    BY <1>5, <2>1, <2>2, <2>5 DEF Fresh, Unrecorded
  <2> QED
    BY <1>7, <2>4, <2>6, <2>7 DEF n
<1> QED
  BY <1>6, <1>7

LEMMA CutFacts ==
  ASSUME NEW t \in Buffers, GapOK(t), SelOK(t.sel, t.length),
         NEW s \in Nat, NEW e \in Nat, s <= t.gapStart, t.gapStart <= e, e <= t.length,
         NEW r, r = Blank([t EXCEPT !.gapEnd = @ + e - t.gapStart, !.gapStart = s,
                                    !.length = @ - (e - s), !.sel = Update(@, s, e - s, 0)])
  PROVE  Edits(t, r, s, e, <<>>) /\ Unrecorded(t, r)
<1> DEFINE d == e - s
           ge == t.gapEnd + e - t.gapStart
           l == t.length - d
           sel == Update(t.sel, s, d, 0)
           g == Gap(t)
           txt == Splice(TextOf(t), s, e, <<>>)
           q == [t EXCEPT !.gapEnd = ge, !.gapStart = s, !.length = l, !.sel = sel]
<1>0. /\ g \in Nat /\ t.length \in Nat /\ t.sel \in Selections /\ t.buf \in Strings
      /\ t.gapEnd \in Nat /\ t.gapEnd = t.gapStart + g /\ t.gapStart \in Nat /\ 0 \in Nat
  BY GapFacts, LayoutOf DEF Buffers
<1>1. d \in Nat /\ s + d <= t.length /\ ge = s + (g + d) /\ ge \in Nat /\ l \in Nat /\ g + d \in Nat
      /\ t.length - d + 0 = l
  BY <1>0
<1>2. Reads(t.buf, s, g + d, l, txt)
  BY ReadsText, CutBytes
<1>3. r = Blank(q)
  OBVIOUS
<1> HIDE DEF d, ge
<1>4. sel \in Selections /\ SelOK(sel, l)
  BY <1>0, <1>1, SelectionKept
<1> HIDE DEF l, sel, g, txt
<1>5. /\ q \in Buffers /\ q.buf = t.buf /\ q.gapStart = s /\ q.gapEnd = ge /\ q.length = l
      /\ q.canUndo = t.canUndo /\ q.locked = t.locked /\ q.sel = sel /\ q.call = t.call
      /\ Unrecorded(t, q)
  BY <1>1, <1>4 DEF Buffers, Unrecorded
<1> HIDE DEF q
<1>6. GapOK(q) /\ Gap(q) = g + d
  <2>1. Layout(q.buf, q.gapStart, g + d, q.length) /\ q.gapEnd = q.gapStart + (g + d)
    BY <1>1, <1>2, <1>5 DEF Reads
  <2> QED
    BY <1>1, <1>5, <2>1, LayoutIs
<1>7. TextOf(q) = txt
  BY <1>2, <1>5, <1>6, ReadsIs
<1>8. Same(q, r) /\ GapOK(r) /\ TextOf(r) = TextOf(q)
  BY <1>3, <1>5, <1>6, BlankFacts
<1>9. l = t.length - (e - s) + Len(<<>>)
  BY <1>0, <1>1 DEF l, d
<1> QED
  BY <1>4, <1>5, <1>7, <1>8, <1>9 DEF Edits, Same, Unrecorded, txt

\* remove_() of a range that is not empty.
LEMMA RemoveFacts ==
  ASSUME NEW t \in Buffers, GapOK(t), SelOK(t.sel, t.length), t.undo.cut <= Len(t.undo.buffer),
         NEW s \in Nat, NEW e \in Nat, s < e, e <= t.length,
         NEW r, r = remove_(t, s, e)
  PROVE  LET bytes == SubSeq(TextOf(t), s + 1, e)
         IN  /\ Edits(t, r, s, e, <<>>)
             /\ ~t.canUndo => Unrecorded(t, r)
             /\ t.canUndo /\ RemoveJoins(t.undo, e) => Joined(t, r, JoinedRemove(t.undo, s, e, bytes))
             /\ t.canUndo /\ ~RemoveJoins(t.undo, e) => Fresh(t, r, NewRemove(s, e, bytes))
<1> DEFINE bytes == SubSeq(TextOf(t), s + 1, e)
           k == IF t.canUndo THEN RecordRemove(t, s, e, bytes) ELSE t
           m == IF s > t.gapStart THEN move_gap(k, s)
                ELSE IF e < t.gapStart THEN move_gap(k, e) ELSE k
<1>0. /\ s <= e /\ t.length \in Nat /\ t.gapStart \in Nat /\ TextOf(t) \in Seq(Chars)
      /\ Len(TextOf(t)) = t.length
  BY GapFacts, TextFacts DEF Strings
<1>1. bytes \in Strings
  BY <1>0, RangeFacts DEF Strings
<1>2. Removed(t, s, e) = bytes
  BY <1>0, RangeOf
<1>3. r = Blank([m EXCEPT !.gapEnd = @ + e - m.gapStart, !.gapStart = s,
                          !.length = @ - (e - s), !.sel = Update(@, s, e - s, 0)])
  BY <1>0, <1>2 DEF remove_
<1> HIDE DEF bytes
<1>4. /\ SameBody(t, k)
      /\ ~t.canUndo => Unrecorded(t, k)
      /\ t.canUndo /\ RemoveJoins(t.undo, e) => Joined(t, k, JoinedRemove(t.undo, s, e, bytes))
      /\ t.canUndo /\ ~RemoveJoins(t.undo, e) => Fresh(t, k, NewRemove(s, e, bytes))
  <2>1. CASE t.canUndo
    BY <1>0, <1>1, <2>1, RecordRemoveFacts
  <2>2. CASE ~t.canUndo
    BY <2>2 DEF SameBody, Unrecorded
  <2> QED
    BY <2>1, <2>2
<1> HIDE DEF k
<1>5. k \in Buffers /\ GapOK(k) /\ TextOf(k) = TextOf(t) /\ k.gapStart = t.gapStart /\ k.length = t.length
  BY <1>4, BodyText DEF SameBody
<1>6. Same(k, m) /\ GapOK(m) /\ s <= m.gapStart /\ m.gapStart <= e /\ TextOf(m) = TextOf(k)
  <2>1. s \in 0 .. k.length /\ e \in 0 .. k.length
    BY <1>0, <1>5
  <2>2. CASE s > t.gapStart
    BY <1>0, <1>5, <2>1, <2>2, MoveGapFacts
  <2>3. CASE ~(s > t.gapStart) /\ e < t.gapStart
    BY <1>0, <1>5, <2>1, <2>3, MoveGapFacts
  <2>4. CASE ~(s > t.gapStart) /\ ~(e < t.gapStart)
    BY <1>0, <1>5, <2>4 DEF Same
  <2> QED
    BY <2>2, <2>3, <2>4
<1> HIDE DEF m
<1>7. m \in Buffers /\ SelOK(m.sel, m.length) /\ m.length = t.length
  BY <1>4, <1>5, <1>6 DEF Same, SameBody
<1>8. Edits(m, r, s, e, <<>>) /\ Unrecorded(m, r)
  BY <1>3, <1>6, <1>7, CutFacts
<1>9. Edits(t, r, s, e, <<>>)
  BY <1>4, <1>5, <1>6, <1>7, <1>8 DEF Edits, Same, SameBody
<1>10. r.undo = k.undo /\ r.undoList = k.undoList /\ r.redoList = k.redoList
  BY <1>6, <1>8 DEF Same, Unrecorded
<1>11. /\ ~t.canUndo => Unrecorded(t, r)
       /\ t.canUndo /\ RemoveJoins(t.undo, e) => Joined(t, r, JoinedRemove(t.undo, s, e, bytes))
       /\ t.canUndo /\ ~RemoveJoins(t.undo, e) => Fresh(t, r, NewRemove(s, e, bytes))
  BY <1>4, <1>10 DEF Unrecorded, Joined, Fresh
<1> QED
  BY <1>9, <1>11 DEF bytes
-----------------------------------------------------------------------------
(* Texts: edits one after the other *)

LEMMA SplicedIs ==
  ASSUME NEW X, NEW s \in Seq(X), NEW ins \in Seq(X), NEW p \in Nat, NEW q \in Nat,
         p <= q, q <= Len(s), NEW r, Spliced(r, X, s, p, q, ins)
  PROVE  r = Splice(s, p, q, ins)
<1> DEFINE w == Splice(s, p, q, ins)
<1>1. Spliced(w, X, s, p, q, ins)
  BY SpliceFacts
<1> HIDE DEF w
<1> DEFINE n == Len(s) - (q - p) + Len(ins)
<1>2. /\ r \in Seq(X) /\ w \in Seq(X) /\ Len(r) = n /\ Len(w) = n
      /\ \A i \in 1 .. n : r[i] = w[i]
  BY <1>1 DEF Spliced
<1> HIDE DEF n
<1>3. r = w
  BY <1>2, SameString
<1> QED
  BY <1>3 DEF w

\* What was put in the place of a range is replaced by something else.
LEMMA SpliceAgain ==
  ASSUME NEW X, NEW s \in Seq(X), NEW x \in Seq(X), NEW y \in Seq(X),
         NEW p \in Nat, NEW q \in Nat, p <= q, q <= Len(s)
  PROVE  Splice(Splice(s, p, q, x), p, p + Len(x), y) = Splice(s, p, q, y)
<1> DEFINE m == Splice(s, p, q, x)
           k == p + Len(x)
           r == Splice(m, p, k, y)
<1>1. Spliced(m, X, s, p, q, x)
  BY SpliceFacts
<1> HIDE DEF m
<1>2. m \in Seq(X) /\ Len(m) = Len(s) - (q - p) + Len(x) /\ Len(x) \in Nat /\ Len(y) \in Nat /\ Len(s) \in Nat
  BY <1>1 DEF Spliced
<1>3. k \in Nat /\ p <= k /\ k <= Len(m)
  BY <1>2
<1>4. Spliced(r, X, m, p, k, y)
  BY <1>2, <1>3, SpliceFacts
<1>5. Len(m) - (k - p) + Len(y) = Len(s) - (q - p) + Len(y)
  BY <1>2
<1> HIDE DEF r
<1>6. ASSUME NEW i \in 1 .. Len(s) - (q - p) + Len(y)
      PROVE  r[i] = IF i <= p THEN s[i] ELSE IF i <= p + Len(y) THEN y[i - p]
                    ELSE s[i - Len(y) + (q - p)]
  <2>1. r[i] = IF i <= p THEN m[i] ELSE IF i <= p + Len(y) THEN y[i - p] ELSE m[i - Len(y) + (k - p)]
    BY <1>4, <1>5 DEF Spliced
  <2>2. CASE i <= p
    BY <1>1, <1>2, <2>1, <2>2 DEF Spliced
  <2>3. CASE p < i /\ i <= p + Len(y)
    BY <1>2, <2>1, <2>3
  <2>4. CASE p + Len(y) < i
    <3> DEFINE j == i - Len(y) + (k - p)
    <3>1. /\ j \in 1 .. Len(s) - (q - p) + Len(x) /\ ~(j <= p) /\ ~(j <= p + Len(x))
          /\ j - Len(x) + (q - p) = i - Len(y) + (q - p)
      BY <1>2, <2>4
    <3>2. r[i] = m[j]
      BY <1>2, <2>1, <2>4
    <3> HIDE DEF j
    <3>3. m[j] = s[j - Len(x) + (q - p)]
      BY <1>1, <3>1 DEF Spliced
    <3> QED
      BY <1>2, <2>4, <3>1, <3>2, <3>3, SMTT(30)
  <2> QED
    BY <1>2, <2>2, <2>3, <2>4
<1>7. Spliced(r, X, s, p, q, y)
  BY <1>4, <1>5, <1>6 DEF Spliced
<1>8. r = Splice(s, p, q, y)
  BY <1>7, SplicedIs
<1> QED
  BY <1>8 DEF r, m, k

\* A range replaced by its own bytes.
LEMMA SpliceSame ==
  ASSUME NEW X, NEW s \in Seq(X), NEW p \in Nat, NEW q \in Nat, p <= q, q <= Len(s)
  PROVE  Splice(s, p, q, SubSeq(s, p + 1, q)) = s
<1> DEFINE o == SubSeq(s, p + 1, q)
<1>1. o \in Seq(X) /\ Len(o) = q - p /\ \A i \in 1 .. q - p : o[i] = s[p + i]
  BY RangeFacts
<1> HIDE DEF o
<1>2. Len(s) \in Nat /\ Len(s) - (q - p) + Len(o) = Len(s)
  BY <1>1
<1>3. ASSUME NEW i \in 1 .. Len(s)
      PROVE  s[i] = IF i <= p THEN s[i] ELSE IF i <= p + Len(o) THEN o[i - p]
                    ELSE s[i - Len(o) + (q - p)]
  <2>1. CASE i <= p
    BY <2>1
  <2>2. CASE p < i /\ i <= q
    <3>1. i - p \in 1 .. q - p /\ p + (i - p) = i /\ ~(i <= p) /\ i <= p + Len(o)
      BY <1>1, <2>2
    <3> QED
      BY <1>1, <3>1
  <2>3. CASE q < i
    <3>1. i - Len(o) + (q - p) = i /\ ~(i <= p) /\ ~(i <= p + Len(o))
      BY <1>1, <2>3
    <3> QED
      BY <3>1
  <2> QED
    BY <2>1, <2>2, <2>3
<1>4. Spliced(s, X, s, p, q, o)
  BY <1>2, <1>3 DEF Spliced
<1>5. s = Splice(s, p, q, o)
  BY <1>1, <1>4, SplicedIs
<1> QED
  BY <1>5 DEF o

\* Undoing an edit.
LEMMA SpliceBack ==
  ASSUME NEW X, NEW s \in Seq(X), NEW x \in Seq(X), NEW p \in Nat, NEW q \in Nat, p <= q, q <= Len(s)
  PROVE  Splice(Splice(s, p, q, x), p, p + Len(x), SubSeq(s, p + 1, q)) = s
<1> DEFINE o == SubSeq(s, p + 1, q)
<1>1. o \in Seq(X)
  BY RangeFacts
<1>2. Splice(s, p, q, o) = s
  BY SpliceSame
<1> HIDE DEF o
<1>3. Splice(Splice(s, p, q, x), p, p + Len(x), o) = Splice(s, p, q, o)
  BY <1>1, SpliceAgain
<1> QED
  BY <1>2, <1>3 DEF o

\* Text that goes in behind a range goes out with it.
LEMMA SpliceGrown ==
  ASSUME NEW X, NEW s \in Seq(X), NEW x \in Seq(X), NEW o \in Seq(X),
         NEW p \in Nat, NEW q \in Nat, p <= q, q <= Len(s)
  PROVE  Splice(Splice(s, q, q, x), p, q + Len(x), o) = Splice(s, p, q, o)
<1> DEFINE m == Splice(s, q, q, x)
           k == q + Len(x)
           r == Splice(m, p, k, o)
<1>1. Spliced(m, X, s, q, q, x)
  BY SpliceFacts
<1> HIDE DEF m
<1>2. m \in Seq(X) /\ Len(m) = Len(s) - (q - q) + Len(x) /\ Len(x) \in Nat /\ Len(o) \in Nat /\ Len(s) \in Nat
  BY <1>1 DEF Spliced
<1>3. k \in Nat /\ p <= k /\ k <= Len(m)
  BY <1>2
<1>4. Spliced(r, X, m, p, k, o)
  BY <1>2, <1>3, SpliceFacts
<1>5. Len(m) - (k - p) + Len(o) = Len(s) - (q - p) + Len(o)
  BY <1>2
<1> HIDE DEF r
<1>6. ASSUME NEW i \in 1 .. Len(s) - (q - p) + Len(o)
      PROVE  r[i] = IF i <= p THEN s[i] ELSE IF i <= p + Len(o) THEN o[i - p]
                    ELSE s[i - Len(o) + (q - p)]
  <2>1. r[i] = IF i <= p THEN m[i] ELSE IF i <= p + Len(o) THEN o[i - p] ELSE m[i - Len(o) + (k - p)]
    BY <1>4, <1>5 DEF Spliced
  <2>2. CASE i <= p
    <3>1. i \in 1 .. Len(s) - (q - q) + Len(x) /\ i <= q
      BY <1>2, <2>2
    <3> QED
      BY <1>1, <2>1, <2>2, <3>1 DEF Spliced
  <2>3. CASE p < i /\ i <= p + Len(o)
    BY <1>2, <2>1, <2>3
  <2>4. CASE p + Len(o) < i
    <3> DEFINE j == i - Len(o) + (k - p)
    <3>1. /\ j \in 1 .. Len(s) - (q - q) + Len(x) /\ ~(j <= q) /\ ~(j <= q + Len(x))
          /\ j - Len(x) + (q - q) = i - Len(o) + (q - p)
      BY <1>2, <2>4
    <3>2. r[i] = m[j]
      BY <1>2, <2>1, <2>4
    <3> HIDE DEF j
    <3>3. m[j] = s[j - Len(x) + (q - q)]
      BY <1>1, <3>1 DEF Spliced
    <3> QED
      BY <1>2, <2>4, <3>1, <3>2, <3>3, SMTT(30)
  <2> QED
    BY <1>2, <2>2, <2>3, <2>4
<1>7. Spliced(r, X, s, p, q, o)
  BY <1>4, <1>5, <1>6 DEF Spliced
<1>8. r = Splice(s, p, q, o)
  BY <1>7, SplicedIs
<1> QED
  BY <1>8 DEF r, m, k

\* Bytes removed in front of a place, put back together with what goes in there.
LEMMA SpliceShrunk ==
  ASSUME NEW X, NEW s \in Seq(X), NEW o \in Seq(X),
         NEW p \in Nat, NEW q \in Nat, p <= q, q <= Len(s)
  PROVE  Splice(Splice(s, p, q, <<>>), p, p, SubSeq(s, p + 1, q) \o o) = Splice(s, q, q, o)
<1> DEFINE c == SubSeq(s, p + 1, q)
           y == c \o o
<1>1. c \in Seq(X) /\ Len(c) = q - p /\ \A i \in 1 .. q - p : c[i] = s[p + i]
  BY RangeFacts
<1> HIDE DEF c
<1>2. /\ y \in Seq(X) /\ Len(y) = Len(c) + Len(o)
      /\ \A i \in 1 .. Len(c) + Len(o) : y[i] = IF i <= Len(c) THEN c[i] ELSE o[i - Len(c)]
  BY <1>1, ConcatFacts
<1> HIDE DEF y
<1> DEFINE r == Splice(s, p, q, y)
<1>3. Spliced(r, X, s, p, q, y)
  BY <1>2, SpliceFacts
<1> HIDE DEF r
<1>4. Len(s) \in Nat /\ Len(o) \in Nat /\ Len(s) - (q - p) + Len(y) = Len(s) - (q - q) + Len(o)
      /\ Len(y) = (q - p) + Len(o)
  BY <1>1, <1>2
<1>5. ASSUME NEW i \in 1 .. Len(s) - (q - q) + Len(o)
      PROVE  r[i] = IF i <= q THEN s[i] ELSE IF i <= q + Len(o) THEN o[i - q]
                    ELSE s[i - Len(o) + (q - q)]
  <2>1. r[i] = IF i <= p THEN s[i] ELSE IF i <= p + Len(y) THEN y[i - p] ELSE s[i - Len(y) + (q - p)]
    BY <1>3, <1>4 DEF Spliced
  <2>2. CASE i <= p
    BY <2>1, <2>2
  <2>3. CASE p < i /\ i <= q
    <3>1. i - p \in 1 .. q - p /\ i - p \in 1 .. Len(c) + Len(o) /\ i - p <= Len(c) /\ p + (i - p) = i
          /\ ~(i <= p) /\ i <= p + Len(y)
      BY <1>1, <1>4, <2>3
    <3> QED
      BY <1>1, <1>2, <2>1, <2>3, <3>1
  <2>4. CASE q < i /\ i <= q + Len(o)
    <3>1. i - p \in 1 .. Len(c) + Len(o) /\ ~(i - p <= Len(c)) /\ (i - p) - Len(c) = i - q
          /\ ~(i <= p) /\ i <= p + Len(y)
      BY <1>1, <1>4, <2>4
    <3>2. r[i] = y[i - p]
      BY <2>1, <3>1
    <3>3. y[i - p] = o[(i - p) - Len(c)]
      BY <1>2, <3>1
    <3> QED
      BY <2>4, <3>1, <3>2, <3>3
  <2>5. CASE q + Len(o) < i
    <3>1. ~(i <= p) /\ ~(i <= p + Len(y)) /\ i - Len(y) + (q - p) = i - Len(o) + (q - q)
      BY <1>4, <2>5
    <3> QED
      BY <1>4, <2>1, <2>5, <3>1
  <2> QED
    BY <1>4, <2>2, <2>3, <2>4, <2>5
<1>6. Spliced(r, X, s, q, q, o)
  BY <1>3, <1>4, <1>5 DEF Spliced
<1>7. r = Splice(s, q, q, o)
  BY <1>6, SplicedIs
<1>8. Splice(Splice(s, p, q, <<>>), p, p + Len(<<>>), y) = r
  <2> DEFINE z == <<>>
  <2>1. z \in Seq(X)
    OBVIOUS
  <2> HIDE DEF z
  <2>2. Splice(Splice(s, p, q, z), p, p + Len(z), y) = Splice(s, p, q, y)
    BY <1>2, <2>1, SpliceAgain
  <2> QED
    BY <2>2 DEF r, z
<1>9. p + Len(<<>>) = p
  OBVIOUS
<1> QED
  BY <1>7, <1>8, <1>9 DEF y, c
-----------------------------------------------------------------------------
(* Events: where undoing them leads *)

Fields(x, f, a, c, i, y) ==
  x.buffer = f /\ x.at = a /\ x.cut = c /\ x.insert = i /\ x.yankcut = y

LeadsBy(f, a, c, i, o, s, r) ==
  /\ (i > 0 => c = 0) /\ (i = 0 => c > 0 /\ c = o) /\ i <= a /\ a <= Len(s) /\ o <= Len(f)
  /\ r = Splice(s, a - i, a, SubSeq(f, 1, o))

LEMMA FieldsOf ==
  ASSUME NEW f, NEW a, NEW c, NEW i, NEW y, NEW x,
         x = [buffer |-> f, at |-> a, cut |-> c, insert |-> i, yankcut |-> y]
  PROVE  Fields(x, f, a, c, i, y)
BY DEF Fields

LEMMA MadeFields ==
  ASSUME NEW u, NEW n, NEW pos, NEW s, NEW e, NEW bytes
  PROVE  /\ Fields(JoinedInsert(u, n), u.buffer, u.at + n, 0, u.insert + n, Back(u))
         /\ Fields(NewInsert(pos, n), <<>>, pos + n, 0, n, 0)
         /\ Fields(JoinedRemove(u, s, e, bytes), bytes \o SubSeq(u.buffer, 1, u.cut), s, u.cut + e - s, 0, 0)
         /\ Fields(NewRemove(s, e, bytes), bytes, s, e - s, 0, 0)
BY FieldsOf, Zenon DEF JoinedInsert, NewInsert, JoinedRemove, NewRemove

LEMMA InvFields ==
  ASSUME NEW u, NEW s
  PROVE  Fields(Inv(u, s), SubSeq(s, From(u) + 1, u.at), From(u) + Back(u),
                IF Back(u) = 0 THEN u.insert ELSE 0, Back(u), IF Back(u) = 0 THEN 0 ELSE u.insert)
BY FieldsOf, Zenon DEF Inv

LEMMA LeadsIf ==
  ASSUME NEW x, NEW f, NEW a \in Nat, NEW c \in Nat, NEW i \in Nat, NEW y \in Nat,
         Fields(x, f, a, c, i, y), NEW s, NEW r,
         LeadsBy(f, a, c, i, IF i > 0 THEN y ELSE c, s, r), i = 0 => y = 0
  PROVE  Leads(x, s, r)
<1>1. x.buffer = f /\ x.at = a /\ x.cut = c /\ x.insert = i /\ x.yankcut = y
  BY DEF Fields
<1>2. Back(x) = IF i > 0 THEN y ELSE c
  BY <1>1 DEF Back
<1> DEFINE o == IF i > 0 THEN y ELSE c
<1> HIDE DEF o
<1>3. LeadsBy(f, a, c, i, o, s, r) /\ Back(x) = o
  BY <1>2 DEF o
<1>4. ~Empty(x) /\ (i > 0 => c = 0) /\ i <= a /\ a <= Len(s) /\ o <= Len(f)
  BY <1>1, <1>3 DEF Empty, LeadsBy
<1>5. r = Splice(s, From(x), a, Old(x))
  BY <1>1, <1>3 DEF LeadsBy, From, Old
<1> QED
  BY <1>1, <1>3, <1>4, <1>5 DEF Leads

LEMMA LeadsThen ==
  ASSUME NEW u \in Actions, NEW s, NEW r, Leads(u, s, r)
  PROVE  /\ u.buffer \in Strings /\ u.at \in Nat /\ u.cut \in Nat /\ u.insert \in Nat /\ u.yankcut \in Nat
         /\ Back(u) \in Nat /\ From(u) \in Nat /\ From(u) + u.insert = u.at
         /\ LeadsBy(u.buffer, u.at, u.cut, u.insert, Back(u), s, r)
         /\ u.cut <= Len(u.buffer) /\ ~Empty(u) /\ (u.insert = 0 => u.yankcut = 0)
<1>1. u.buffer \in Strings /\ u.at \in Nat /\ u.cut \in Nat /\ u.insert \in Nat /\ u.yankcut \in Nat
  BY DEF Actions
<1>2. /\ ~Empty(u) /\ (u.insert > 0 => u.cut = 0) /\ (u.insert = 0 => u.yankcut = 0)
      /\ u.insert <= u.at /\ u.at <= Len(s) /\ Back(u) <= Len(u.buffer)
      /\ r = Splice(s, From(u), u.at, Old(u))
  BY DEF Leads
<1>3. Back(u) \in Nat /\ From(u) \in Nat /\ From(u) + u.insert = u.at /\ (u.insert = 0 => u.cut > 0 /\ u.cut = Back(u))
  BY <1>1, <1>2 DEF Back, From, Empty
<1>4. u.cut <= Len(u.buffer)
  <2>1. Len(u.buffer) \in Nat
    BY <1>1 DEF Strings
  <2> QED
    BY <1>1, <1>2, <1>3, <2>1
<1>5. LeadsBy(u.buffer, u.at, u.cut, u.insert, Back(u), s, r)
  BY <1>2, <1>3 DEF LeadsBy, From, Old
<1> QED
  BY <1>1, <1>2, <1>3, <1>4, <1>5

LEMMA NothingFacts ==
  ASSUME NEW s \in Strings, NEW p \in Nat, p <= Len(s)
  PROVE  SubSeq(s, p + 1, p) = <<>> /\ SubSeq(<<>>, 1, 0) = <<>> /\ <<>> \in Strings /\ Len(<<>>) = 0
<1>1. SubSeq(s, p + 1, p) \in Seq(Chars) /\ Len(SubSeq(s, p + 1, p)) = p - p
  BY RangeFacts DEF Strings
<1>2. p - p = 0
  OBVIOUS
<1>3. SubSeq(s, p + 1, p) = <<>>
  BY <1>1, <1>2
<1> QED
  BY <1>3 DEF Strings

LEMMA LeadsNewInsert ==
  ASSUME NEW s \in Strings, NEW ins \in Strings, ins # <<>>, NEW pos \in Nat, pos <= Len(s)
  PROVE  Leads(NewInsert(pos, Len(ins)), Splice(s, pos, pos, ins), s)
<1> DEFINE n == Len(ins)
           r == Splice(s, pos, pos, ins)
           a == pos + n
<1>1. n \in Nat /\ n > 0 /\ Len(s) \in Nat
  BY DEF Strings
<1>2. Spliced(r, Chars, s, pos, pos, ins)
  BY SpliceFacts DEF Strings
<1>3. Len(r) = Len(s) + n
  BY <1>1, <1>2 DEF Spliced
<1>4. Splice(r, pos, a, <<>>) = s
  <2>1. SubSeq(s, pos + 1, pos) = <<>>
    BY NothingFacts
  <2>2. Splice(r, pos, a, SubSeq(s, pos + 1, pos)) = s
    BY <1>1, SpliceBack DEF Strings
  <2> QED
    BY <2>1, <2>2
<1>5. Fields(NewInsert(pos, n), <<>>, a, 0, n, 0)
  BY MadeFields
<1>6. SubSeq(<<>>, 1, 0) = <<>> /\ Len(<<>>) = 0
  BY NothingFacts
<1> HIDE DEF r, n, a
<1>7. a \in Nat /\ a - n = pos /\ n <= a /\ a <= Len(r)
  BY <1>1, <1>3 DEF a
<1>8. LeadsBy(<<>>, a, 0, n, 0, r, s)
  <2>1. s = Splice(r, a - n, a, SubSeq(<<>>, 1, 0))
    BY <1>4, <1>6, <1>7, Zenon
  <2>2. /\ (n > 0 => 0 = 0) /\ (n = 0 => 0 > 0 /\ 0 = 0) /\ n <= a /\ a <= Len(r)
        /\ 0 <= Len(<<>>)
    BY <1>1, <1>6, <1>7
  <2> QED
    BY <2>1, <2>2, Zenon DEF LeadsBy
<1>9. (IF n > 0 THEN 0 ELSE 0) = 0
  OBVIOUS
<1>10. Leads(NewInsert(pos, n), r, s)
  BY <1>1, <1>5, <1>7, <1>8, <1>9, LeadsIf
<1> QED
  BY <1>10 DEF r, n

LEMMA LeadsNewRemove ==
  ASSUME NEW txt \in Strings, NEW s \in Nat, NEW e \in Nat, s < e, e <= Len(txt)
  PROVE  Leads(NewRemove(s, e, SubSeq(txt, s + 1, e)), Splice(txt, s, e, <<>>), txt)
<1> DEFINE bytes == SubSeq(txt, s + 1, e)
           r == Splice(txt, s, e, <<>>)
           d == e - s
<1>1. d \in Nat /\ d > 0 /\ Len(txt) \in Nat /\ s <= e /\ <<>> \in Seq(Chars) /\ Len(<<>>) = 0 /\ s + 0 = s
  BY DEF Strings
<1>2. Spliced(r, Chars, txt, s, e, <<>>)
  BY <1>1, SpliceFacts DEF Strings
<1>3. Len(r) = Len(txt) - d
  BY <1>1, <1>2 DEF Spliced
<1>4. bytes \in Seq(Chars) /\ Len(bytes) = d
  BY <1>1, RangeFacts DEF Strings
<1>5. Splice(r, s, s, bytes) = txt
  <2> DEFINE z == <<>>
  <2>1. z \in Seq(Chars)
    OBVIOUS
  <2> HIDE DEF z
  <2>2. Splice(Splice(txt, s, e, z), s, s + Len(z), SubSeq(txt, s + 1, e)) = txt
    BY <1>1, <2>1, SpliceBack DEF Strings
  <2> QED
    BY <1>1, <2>2 DEF z
<1>6. SubSeq(bytes, 1, d) = bytes
  <2> HIDE DEF bytes
  <2> QED
    BY <1>1, <1>4
<1>7. Fields(NewRemove(s, e, bytes), bytes, s, d, 0, 0)
  BY MadeFields
<1> HIDE DEF bytes, r, d
<1>8. LeadsBy(bytes, s, d, 0, d, r, txt)
  <2>0. s - 0 = s
    OBVIOUS
  <2>1. txt = Splice(r, s - 0, s, SubSeq(bytes, 1, d))
    BY <1>5, <1>6, <2>0, Zenon
  <2>2. /\ (0 > 0 => d = 0) /\ (0 = 0 => d > 0 /\ d = d) /\ 0 <= s /\ s <= Len(r)
        /\ d <= Len(bytes)
    BY <1>1, <1>3, <1>4 DEF d
  <2> QED
    BY <2>1, <2>2, Zenon DEF LeadsBy
<1>9. (IF 0 > 0 THEN 0 ELSE d) = d
  OBVIOUS
<1>10. Leads(NewRemove(s, e, bytes), r, txt)
  BY <1>1, <1>7, <1>8, <1>9, LeadsIf
<1> QED
  BY <1>10 DEF bytes, r
LEMMA PrefixFacts ==
  ASSUME NEW X, NEW s \in Seq(X), NEW k \in Nat, k <= Len(s)
  PROVE  SubSeq(s, 1, k) \in Seq(X) /\ Len(SubSeq(s, 1, k)) = k
<1>1. 0 \in Nat /\ 0 <= k /\ 0 + 1 = 1 /\ k - 0 = k
  OBVIOUS
<1>2. SubSeq(s, 0 + 1, k) \in Seq(X) /\ Len(SubSeq(s, 0 + 1, k)) = k - 0
  BY <1>1, RangeFacts
<1> QED
  BY <1>1, <1>2

\* Where the event that undoing u makes would end.
End(u) == From(u) + Back(u)

LEMMA NoJoinSame ==
  ASSUME NEW v, NEW u, NEW x, NEW s, NEW r, End(x) = End(u), Back(x) > 0 <=> Back(u) > 0,
         NoJoin(v, Inv(u, s))
  PROVE  NoJoin(v, Inv(x, r))
<1>1. Inv(u, s).at = End(u) /\ Inv(u, s).insert = Back(u) /\ Inv(x, r).at = End(x) /\ Inv(x, r).insert = Back(x)
  BY InvFields DEF Fields, End
<1> QED
  BY <1>1 DEF NoJoin

LEMMA LeadsJoinInsert ==
  ASSUME NEW u \in Actions, NEW s \in Strings, NEW r, Leads(u, s, r),
         NEW ins \in Strings, ins # <<>>
  PROVE  LET x == JoinedInsert(u, Len(ins))
         IN  /\ Leads(x, Splice(s, u.at, u.at, ins), r)
             /\ End(x) = End(u) /\ (Back(x) > 0 <=> Back(u) > 0)
<1> DEFINE n == Len(ins)
           f == u.buffer
           a == u.at
           i == u.insert
           o == Back(u)
           b2 == a + n
           i2 == i + n
           x == JoinedInsert(u, n)
           m == Splice(s, a, a, ins)
           w == SubSeq(f, 1, o)
<1>0. n \in Nat /\ n > 0 /\ Len(s) \in Nat
  BY DEF Strings
<1>1. /\ f \in Strings /\ a \in Nat /\ i \in Nat /\ o \in Nat /\ From(u) = a - i
      /\ LeadsBy(f, a, u.cut, i, o, s, r)
  BY LeadsThen DEF From
<1>2. Fields(x, f, b2, 0, i2, o)
  BY MadeFields
<1> HIDE DEF n, f, a, i, o, x, b2, i2
<1>3. i <= a /\ a <= Len(s) /\ o <= Len(f) /\ r = Splice(s, a - i, a, w)
  BY <1>1 DEF LeadsBy
<1>4. w \in Seq(Chars)
  BY <1>1, <1>3, PrefixFacts DEF Strings
<1> HIDE DEF w
<1>5. r = Splice(m, a - i, b2, w)
  <2>1. a - i \in Nat /\ a - i <= a
    BY <1>1, <1>3
  <2> DEFINE p == a - i
  <2> HIDE DEF p
  <2>2. p \in Nat /\ p <= a
    BY <2>1 DEF p
  <2>3. Splice(Splice(s, a, a, ins), p, a + Len(ins), w) = Splice(s, p, a, w)
    BY <1>1, <1>3, <1>4, <2>2, SpliceGrown DEF Strings
  <2> QED
    BY <1>3, <2>3 DEF p, n, b2
<1>6. Spliced(m, Chars, s, a, a, ins)
  BY <1>1, <1>3, SpliceFacts DEF Strings
<1>7. Len(m) = Len(s) + n
  BY <1>0, <1>1, <1>6 DEF Spliced, n
<1> HIDE DEF m
<1>8. b2 \in Nat /\ i2 \in Nat /\ i2 > 0 /\ i2 <= b2 /\ b2 <= Len(m) /\ b2 - i2 = a - i
  BY <1>0, <1>1, <1>3, <1>7 DEF b2, i2
<1>9. LeadsBy(f, b2, 0, i2, o, m, r)
  <2>1. r = Splice(m, b2 - i2, b2, SubSeq(f, 1, o))
    BY <1>5, <1>8, Zenon DEF w
  <2>2. /\ (i2 > 0 => 0 = 0) /\ (i2 = 0 => 0 > 0 /\ 0 = o) /\ i2 <= b2 /\ b2 <= Len(m) /\ o <= Len(f)
    BY <1>3, <1>8
  <2> QED
    BY <2>1, <2>2, Zenon DEF LeadsBy
<1>10. (IF i2 > 0 THEN o ELSE 0) = o /\ i2 # 0
  BY <1>8
<1>11. Leads(x, m, r)
  BY <1>1, <1>2, <1>8, <1>9, <1>10, LeadsIf
<1>12. Back(x) = o /\ From(x) = b2 - i2
  BY <1>2, <1>8 DEF Fields, Back, From
<1>13. End(x) = End(u) /\ (Back(x) > 0 <=> Back(u) > 0)
  BY <1>1, <1>8, <1>12 DEF End, o
<1> QED
  BY <1>11, <1>13 DEF x, m, n, a

LEMMA LeadsJoinRemove ==
  ASSUME NEW u \in Actions, NEW txt \in Strings, NEW r, Leads(u, txt, r),
         NEW s \in Nat, NEW e \in Nat, s < e, RemoveJoins(u, e)
  PROVE  LET x == JoinedRemove(u, s, e, SubSeq(txt, s + 1, e))
         IN  /\ Leads(x, Splice(txt, s, e, <<>>), r)
             /\ End(x) = End(u) /\ (Back(x) > 0 <=> Back(u) > 0)
<1> DEFINE f == u.buffer
           c == u.cut
           bytes == SubSeq(txt, s + 1, e)
           w == SubSeq(f, 1, c)
           f2 == bytes \o w
           c2 == c + e - s
           x == JoinedRemove(u, s, e, bytes)
           m == Splice(txt, s, e, <<>>)
<1>1. /\ f \in Strings /\ u.at = e /\ c \in Nat /\ c > 0 /\ u.insert \in Nat /\ c <= Len(f)
      /\ LeadsBy(f, e, c, u.insert, Back(u), txt, r) /\ Len(txt) \in Nat /\ Len(f) \in Nat
  BY LeadsThen DEF RemoveJoins, Strings
<1>2. u.insert = 0 /\ e <= Len(txt) /\ Back(u) = c
  BY <1>1 DEF LeadsBy, Back
<1>3. r = Splice(txt, e, e, w)
  <2>1. r = Splice(txt, e - 0, e, w) /\ e - 0 = e
    BY <1>1, <1>2 DEF LeadsBy
  <2> QED
    BY <2>1
<1>4. Fields(x, f2, s, c2, 0, 0)
  BY MadeFields
<1> HIDE DEF f, c
<1>5. w \in Seq(Chars) /\ Len(w) = c
  BY <1>1, PrefixFacts DEF Strings
<1>6. bytes \in Seq(Chars) /\ Len(bytes) = e - s
  BY <1>2, RangeFacts DEF Strings
<1>7. r = Splice(m, s, s, f2)
  <2> HIDE DEF w
  <2> QED
    BY <1>2, <1>3, <1>5, SpliceShrunk DEF Strings
<1>8. Spliced(m, Chars, txt, s, e, <<>>)
  <2>1. <<>> \in Seq(Chars) /\ s <= e /\ txt \in Seq(Chars) /\ e <= Len(txt)
    BY <1>2 DEF Strings
  <2> QED
    BY <2>1, SpliceFacts
<1>9. Len(m) = Len(txt) - (e - s)
  BY <1>1, <1>8 DEF Spliced
<1> HIDE DEF w, bytes, m, x
<1>10. f2 \in Seq(Chars) /\ Len(f2) = c2
  <2>1. f2 \in Seq(Chars) /\ Len(f2) = Len(bytes) + Len(w)
    BY <1>5, <1>6, ConcatFacts
  <2> QED
    BY <1>1, <1>5, <1>6, <2>1
<1> HIDE DEF f2
<1>11. c2 \in Nat /\ c2 > 0 /\ s <= Len(m) /\ s + c2 = e + c
  BY <1>1, <1>2, <1>9
<1> HIDE DEF c2
<1>12. SubSeq(f2, 1, c2) = f2
  BY <1>10, <1>11
<1>13. LeadsBy(f2, s, c2, 0, c2, m, r)
  <2>0. s - 0 = s
    OBVIOUS
  <2>1. r = Splice(m, s - 0, s, SubSeq(f2, 1, c2))
    BY <1>7, <1>12, <2>0, Zenon
  <2>2. /\ (0 > 0 => c2 = 0) /\ (0 = 0 => c2 > 0 /\ c2 = c2) /\ 0 <= s /\ s <= Len(m) /\ c2 <= Len(f2)
    BY <1>10, <1>11
  <2> QED
    BY <2>1, <2>2, Zenon DEF LeadsBy
<1>14. (IF 0 > 0 THEN 0 ELSE c2) = c2
  OBVIOUS
<1>15. Leads(x, m, r)
  BY <1>4, <1>11, <1>13, <1>14, LeadsIf
<1>16. Back(x) = c2 /\ From(x) = s
  BY <1>4 DEF Fields, Back, From
<1>17. From(u) = e
  BY <1>1, <1>2 DEF From
<1>18. End(x) = End(u) /\ (Back(x) > 0 <=> Back(u) > 0)
  BY <1>1, <1>2, <1>11, <1>16, <1>17 DEF End
<1> QED
  BY <1>15, <1>18 DEF x, m, bytes

\* Undoing an event makes one that leads back ...
LEMMA InvLeads ==
  ASSUME NEW u \in Actions, NEW s \in Strings, NEW r, Leads(u, s, r)
  PROVE  r \in Strings /\ Inv(u, s) \in Actions /\ Leads(Inv(u, s), r, s)
<1> DEFINE f == u.buffer
           a == u.at
           i == u.insert
           o == Back(u)
           p == From(u)
           x == Inv(u, s)
           w == SubSeq(f, 1, o)
           g == SubSeq(s, p + 1, a)
           a2 == p + o
           c2 == IF o = 0 THEN i ELSE 0
           y2 == IF o = 0 THEN 0 ELSE i
<1>1. /\ f \in Strings /\ a \in Nat /\ i \in Nat /\ o \in Nat /\ p \in Nat /\ p = a - i /\ p + i = a
      /\ LeadsBy(f, a, u.cut, i, o, s, r) /\ Len(s) \in Nat /\ (i = 0 => o > 0) /\ u.cut \in Nat
  BY LeadsThen DEF From, Strings, LeadsBy
<1>2. x = [buffer |-> g, at |-> a2, cut |-> c2, insert |-> o, yankcut |-> y2]
  BY DEF Inv
<1> HIDE DEF f, a, i, o, p, x
<1>3. p <= a /\ a <= Len(s) /\ o <= Len(f) /\ r = Splice(s, p, a, w)
  BY <1>1 DEF LeadsBy
<1>4. w \in Seq(Chars) /\ Len(w) = o
  BY <1>1, <1>3, PrefixFacts DEF Strings
<1>5. g \in Seq(Chars) /\ Len(g) = i
  <2>1. g \in Seq(Chars) /\ Len(g) = a - p
    BY <1>1, <1>3, RangeFacts DEF Strings
  <2> QED
    BY <1>1, <2>1
<1> HIDE DEF w
<1>6. Splice(r, p, a2, g) = s
  <2>0. s \in Seq(Chars) /\ w \in Seq(Chars) /\ p \in Nat /\ a \in Nat /\ p <= a /\ a <= Len(s)
    BY <1>1, <1>3, <1>4 DEF Strings
  <2>1. Splice(Splice(s, p, a, w), p, p + Len(w), SubSeq(s, p + 1, a)) = s
    BY <2>0, SpliceBack
  <2> QED
    BY <1>3, <1>4, <2>1
<1>7. Spliced(r, Chars, s, p, a, w)
  BY <1>1, <1>3, <1>4, SpliceFacts DEF Strings
<1>8. r \in Seq(Chars) /\ Len(r) = Len(s) - i + o
  BY <1>1, <1>4, <1>7 DEF Spliced
<1> HIDE DEF g
<1>9. a2 \in Nat /\ c2 \in Nat /\ y2 \in Nat /\ a2 - o = p /\ o <= a2 /\ a2 <= Len(r)
  BY <1>1, <1>3, <1>8
<1>10. /\ (o > 0 => c2 = 0 /\ y2 = i) /\ (o = 0 => c2 = i /\ c2 > 0 /\ y2 = 0)
  BY <1>1
<1> HIDE DEF a2, c2, y2
<1>11. x \in Actions
  BY <1>1, <1>2, <1>5, <1>9 DEF Actions, Strings
<1>12. Fields(x, g, a2, c2, o, y2)
  BY <1>2, FieldsOf
<1>13. SubSeq(g, 1, i) = g
  BY <1>1, <1>5
<1>14. LeadsBy(g, a2, c2, o, i, r, s)
  <2>1. s = Splice(r, a2 - o, a2, SubSeq(g, 1, i))
    BY <1>6, <1>9, <1>13, Zenon
  <2>2. /\ (o > 0 => c2 = 0) /\ (o = 0 => c2 > 0 /\ c2 = i) /\ o <= a2 /\ a2 <= Len(r) /\ i <= Len(g)
    BY <1>1, <1>5, <1>9, <1>10
  <2> QED
    BY <2>1, <2>2, Zenon DEF LeadsBy
<1>15. (IF o > 0 THEN y2 ELSE c2) = i /\ (o = 0 => y2 = 0)
  BY <1>1, <1>10
<1>16. Leads(x, r, s)
  BY <1>1, <1>9, <1>12, <1>14, <1>15, LeadsIf
<1> QED
  BY <1>8, <1>11, <1>16 DEF x, Strings

\* ... and undoing that one an event like the first.
LEMMA InvInv ==
  ASSUME NEW u \in Actions, NEW s \in Strings, NEW r, Leads(u, s, r)
  PROVE  LET x == Inv(Inv(u, s), r)
         IN  x.at = u.at /\ x.cut = u.cut /\ x.insert = u.insert
<1> DEFINE i == u.insert
           o == Back(u)
           p == From(u)
           y == Inv(u, s)
           x == Inv(y, r)
<1>1. /\ i \in Nat /\ o \in Nat /\ p \in Nat /\ p + i = u.at /\ u.cut \in Nat /\ u.at \in Nat
      /\ (i > 0 => u.cut = 0) /\ (i = 0 => u.cut > 0 /\ u.cut = o)
  BY LeadsThen DEF LeadsBy
<1>2. /\ y.at = p + o /\ y.cut = (IF o = 0 THEN i ELSE 0) /\ y.insert = o
      /\ y.yankcut = IF o = 0 THEN 0 ELSE i
  BY InvFields DEF Fields
<1> HIDE DEF i, o, p, y
<1>3. /\ x.at = From(y) + Back(y) /\ x.cut = (IF Back(y) = 0 THEN y.insert ELSE 0) /\ x.insert = Back(y)
  BY InvFields DEF Fields
<1> HIDE DEF x
<1>4. From(y) = p /\ Back(y) = i
  BY <1>1, <1>2 DEF From, Back
<1>5. x.at = u.at /\ x.cut = u.cut /\ x.insert = i
  BY <1>1, <1>2, <1>3, <1>4
<1> QED
  BY <1>5 DEF x, y, i
-----------------------------------------------------------------------------
(* Stories: the events and the texts *)

LEMMA StoryStep ==
  ASSUME NEW L \in Seq(Actions), NEW u \in Actions, NEW P \in Seq(Strings), NEW s \in Strings
  PROVE  Story(Append(L, u), Append(P, s)) <=>
           /\ Len(L) = Len(P) /\ (L = <<>> => Empty(u))
           /\ L # <<>> => Story(L, P) /\ Leads(u, s, P[Len(P)]) /\ NoJoin(L[Len(L)], Inv(u, s))
<1> DEFINE A == Append(L, u)
           X == Append(P, s)
           n == Len(L)
           Link(B, Y, k) == Leads(B[k], Y[k], Y[k - 1]) /\ NoJoin(B[k - 1], Inv(B[k], Y[k]))
<1>1. /\ n \in Nat /\ Len(P) \in Nat /\ Len(A) = n + 1 /\ Len(X) = Len(P) + 1
      /\ A[n + 1] = u /\ X[Len(P) + 1] = s
      /\ \A k \in 1 .. n : A[k] = L[k]
      /\ \A k \in 1 .. Len(P) : X[k] = P[k]
      /\ (L = <<>> <=> n = 0)
  OBVIOUS
<1>2. Story(A, X) <=> Len(A) = Len(X) /\ Len(A) >= 1 /\ Empty(A[1]) /\ \A k \in 2 .. Len(A) : Link(A, X, k)
  BY DEF Story
<1>3. Story(L, P) <=> n = Len(P) /\ n >= 1 /\ Empty(L[1]) /\ \A k \in 2 .. n : Link(L, P, k)
  BY DEF Story
<1> HIDE DEF A, X
<1>4. ASSUME n = Len(P), NEW k \in 2 .. n
      PROVE  Link(A, X, k) <=> Link(L, P, k)
  <2>1. A[k] = L[k] /\ A[k - 1] = L[k - 1] /\ X[k] = P[k] /\ X[k - 1] = P[k - 1]
    BY <1>1, <1>4
  <2> QED
    BY <2>1
<1>5. ASSUME n = Len(P), n >= 1
      PROVE  Link(A, X, n + 1) <=> Leads(u, s, P[n]) /\ NoJoin(L[n], Inv(u, s))
  <2>1. A[n + 1] = u /\ A[(n + 1) - 1] = L[n] /\ X[n + 1] = s /\ X[(n + 1) - 1] = P[n]
    BY <1>1, <1>5
  <2> QED
    BY <2>1
<1> HIDE DEF Link, n
<1>6. CASE n = 0
  <2>1. A[1] = u /\ 2 .. Len(A) = {}
    BY <1>1, <1>6
  <2>2. Story(A, X) <=> Len(P) = 0 /\ Empty(u)
    BY <1>1, <1>2, <1>6, <2>1
  <2> QED
    BY <1>1, <1>6, <2>2 DEF A, X, n
<1>7. CASE n # 0
  <2>0. n >= 1 /\ 1 \in 1 .. n /\ 2 .. Len(A) = (2 .. n) \union {n + 1}
    BY <1>1, <1>7
  <2>1. A[1] = L[1]
    BY <1>1, <2>0
  <2>2. ASSUME Story(A, X)
        PROVE  /\ n = Len(P) /\ Story(L, P) /\ Leads(u, s, P[n]) /\ NoJoin(L[n], Inv(u, s))
    <3>1. n = Len(P) /\ Empty(L[1]) /\ \A k \in 2 .. Len(A) : Link(A, X, k)
      BY <1>1, <1>2, <2>1, <2>2
    <3>2. \A k \in 2 .. n : Link(L, P, k)
      BY <1>4, <2>0, <3>1
    <3>3. Link(A, X, n + 1)
      BY <2>0, <3>1
    <3> QED
      BY <1>3, <1>5, <2>0, <3>1, <3>2, <3>3
  <2>3. ASSUME n = Len(P), Story(L, P), Leads(u, s, P[n]), NoJoin(L[n], Inv(u, s))
        PROVE  Story(A, X)
    <3>1. Empty(A[1]) /\ \A k \in 2 .. n : Link(L, P, k)
      BY <1>3, <2>1, <2>3
    <3>2. Link(A, X, n + 1)
      BY <1>5, <2>0, <2>3
    <3>3. \A k \in 2 .. Len(A) : Link(A, X, k)
      BY <1>4, <2>0, <2>3, <3>1, <3>2
    <3> QED
      BY <1>1, <1>2, <2>0, <2>3, <3>1, <3>3
  <2> QED
    BY <1>1, <1>7, <2>2, <2>3 DEF A, X, n
<1> QED
  BY <1>6, <1>7

\* The buffer t with the texts P behind it.
Tale(t, P) ==
  P \in Seq(Strings) /\ Story(Append(t.undoList, t.undo), Append(P, TextOf(t)))

\* What a story says of its last event.
LEMMA TaleFacts ==
  ASSUME NEW t \in Buffers, GapOK(t), NEW P, Tale(t, P)
  PROVE  /\ t.undo \in Actions /\ t.undoList \in Seq(Actions) /\ P \in Seq(Strings) /\ TextOf(t) \in Strings
         /\ Len(t.undoList) = Len(P) /\ t.undo.cut <= Len(t.undo.buffer)
         /\ Empty(t.undo) <=> P = <<>>
         /\ Empty(t.undo) => t.undoList = <<>>
         /\ ~Empty(t.undo) => /\ t.undoList # <<>> /\ P # <<>> /\ Story(t.undoList, P)
                              /\ Leads(t.undo, TextOf(t), P[Len(P)])
                              /\ NoJoin(t.undoList[Len(t.undoList)], Inv(t.undo, TextOf(t)))
<1> DEFINE u == t.undo
           L == t.undoList
           s == TextOf(t)
<1>1. u \in Actions /\ L \in Seq(Actions) /\ P \in Seq(Strings) /\ s \in Strings /\ Story(Append(L, u), Append(P, s))
  BY TextFacts DEF Buffers, Tale
<1> HIDE DEF u, L, s
<1>2. /\ Len(L) = Len(P) /\ (L = <<>> => Empty(u))
      /\ L # <<>> => Story(L, P) /\ Leads(u, s, P[Len(P)]) /\ NoJoin(L[Len(L)], Inv(u, s))
  BY <1>1, StoryStep
<1>3. L = <<>> <=> P = <<>>
  BY <1>1, <1>2
<1>4. L # <<>> => ~Empty(u)
  BY <1>2 DEF Leads
<1>5. u.cut <= Len(u.buffer)
  <2>1. CASE Empty(u)
    <3>1. u.buffer \in Strings /\ u.cut = 0
      BY <1>1, <2>1 DEF Actions, Empty
    <3> QED
      BY <3>1 DEF Strings
  <2>2. CASE ~Empty(u)
    BY <1>1, <1>2, <2>2, LeadsThen
  <2> QED
    BY <2>1, <2>2
<1> QED
  BY <1>1, <1>2, <1>3, <1>4, <1>5 DEF u, L, s

\* A new event.
LEMMA TaleFresh ==
  ASSUME NEW t \in Buffers, GapOK(t), NEW P, Tale(t, P), NEW r \in Buffers, GapOK(r),
         r.undoList = Append(t.undoList, t.undo), Leads(r.undo, TextOf(r), TextOf(t)),
         NoJoin(t.undo, Inv(r.undo, TextOf(r)))
  PROVE  Tale(r, Append(P, TextOf(t)))
<1> DEFINE u == t.undo
           L == t.undoList
           s == TextOf(t)
           u2 == r.undo
           s2 == TextOf(r)
           M == Append(L, u)
           Q == Append(P, s)
<1>1. u \in Actions /\ L \in Seq(Actions) /\ P \in Seq(Strings) /\ s \in Strings /\ Story(M, Q)
      /\ u2 \in Actions /\ s2 \in Strings
  BY TextFacts DEF Buffers, Tale
<1>2. Leads(u2, s2, s) /\ NoJoin(u, Inv(u2, s2)) /\ r.undoList = M
  OBVIOUS
<1> HIDE DEF u, L, s, u2, s2
<1>3. M \in Seq(Actions) /\ Q \in Seq(Strings) /\ M # <<>> /\ M[Len(M)] = u /\ Q[Len(Q)] = s
  BY <1>1
<1>4. Len(M) = Len(Q)
  BY <1>1 DEF Story
<1> HIDE DEF M, Q
<1>5. Story(Append(M, u2), Append(Q, s2))
  BY <1>1, <1>2, <1>3, <1>4, StoryStep
<1> QED
  BY <1>2, <1>3, <1>5 DEF Tale, Q, s, u2, s2

\* An edit that joins the current event.
LEMMA TaleJoined ==
  ASSUME NEW t \in Buffers, GapOK(t), NEW P, Tale(t, P), ~Empty(t.undo),
         NEW r \in Buffers, GapOK(r), r.undoList = t.undoList,
         Leads(r.undo, TextOf(r), P[Len(P)]), End(r.undo) = End(t.undo),
         Back(r.undo) > 0 <=> Back(t.undo) > 0
  PROVE  Tale(r, P)
<1> DEFINE L == t.undoList
           u2 == r.undo
           s2 == TextOf(r)
<1>1. /\ L \in Seq(Actions) /\ P \in Seq(Strings) /\ Len(L) = Len(P) /\ L # <<>> /\ Story(L, P)
      /\ NoJoin(L[Len(L)], Inv(t.undo, TextOf(t)))
  BY TaleFacts
<1>2. u2 \in Actions /\ s2 \in Strings /\ Leads(u2, s2, P[Len(P)]) /\ r.undoList = L
  BY TextFacts DEF Buffers
<1>3. NoJoin(L[Len(L)], Inv(u2, s2))
  BY <1>1, NoJoinSame
<1> HIDE DEF L, u2, s2
<1>4. Story(Append(L, u2), Append(P, s2))
  BY <1>1, <1>2, <1>3, StoryStep
<1> QED
  BY <1>1, <1>2, <1>4 DEF Tale, u2, s2

\* No event.
LEMMA TaleNone ==
  ASSUME NEW r \in Buffers, GapOK(r), r.undoList = <<>>, Empty(r.undo)
  PROVE  Tale(r, <<>>)
<1> DEFINE u == r.undo
           s == TextOf(r)
<1>1. u \in Actions /\ s \in Strings /\ <<>> \in Seq(Actions) /\ <<>> \in Seq(Strings) /\ Empty(u)
  BY TextFacts DEF Buffers
<1> HIDE DEF u, s
<1>2. Story(Append(<<>>, u), Append(<<>>, s))
  BY <1>1, StoryStep
<1> QED
  BY <1>1, <1>2 DEF Tale, u, s

\* The events are counted right.
LEMMA TaleEvents ==
  ASSUME NEW t \in Buffers, GapOK(t), NEW P, Tale(t, P)
  PROVE  Events(t) = Len(P)
<1> DEFINE L == t.undoList
           I == {i \in DOMAIN L : ~Empty(L[i])}
<1>1. CASE Empty(t.undo)
  <2>1. P = <<>>
    BY <1>1, TaleFacts
  <2> QED
    BY <1>1, <2>1 DEF Events
<1>2. CASE ~Empty(t.undo)
  <2>1. L \in Seq(Actions) /\ Len(L) = Len(P) /\ L # <<>> /\ Story(L, P)
    BY <1>2, TaleFacts
  <2>2. Events(t) = 1 + Cardinality(I)
    BY <1>2 DEF Events
  <2> HIDE DEF L
  <2>3. Len(L) \in Nat /\ Len(L) >= 1 /\ DOMAIN L = 1 .. Len(L)
    BY <2>1
  <2>4. Empty(L[1]) /\ \A k \in 2 .. Len(L) : Leads(L[k], P[k], P[k - 1])
    BY <2>1 DEF Story
  <2>5. \A k \in 2 .. Len(L) : ~Empty(L[k])
    BY <2>4 DEF Leads
  <2>6. I = 2 .. Len(L)
    BY <2>3, <2>4, <2>5
  <2>7. Cardinality(2 .. Len(L)) = Len(L) - 2 + 1
    <3>1. Cardinality(2 .. Len(L)) = IF 2 > Len(L) THEN 0 ELSE Len(L) - 2 + 1
      BY <2>3, FS_Interval
    <3> QED
      BY <2>3, <3>1
  <2>8. Events(t) = 1 + (Len(L) - 2 + 1)
    BY <2>2, <2>6, <2>7, Zenon
  <2> QED
    BY <2>1, <2>3, <2>8
<1> QED
  BY <1>1, <1>2
-----------------------------------------------------------------------------
(* Edits make one more event, or join the current one *)

Good(t) == t \in Buffers /\ GapOK(t) /\ SelOK(t.sel, t.length)

Recorded(t, r, P) ==
  /\ Tale(r, P) \/ (t.canUndo /\ Tale(r, Append(P, TextOf(t))))
  /\ t.canUndo => ~Empty(r.undo) /\ ~(r.undo = t.undo /\ r.undoList = t.undoList)

\* Without undo there is no event.
LEMMA TaleOff ==
  ASSUME NEW t, Good(t), NEW P, Tale(t, P), P = <<>>, NEW r \in Buffers, GapOK(r), Unrecorded(t, r)
  PROVE  Tale(r, P)
<1>1. t.undoList = <<>> /\ Empty(t.undo)
  BY TaleFacts DEF Good
<1> QED
  BY <1>1, TaleNone DEF Unrecorded

LEMMA LongerList ==
  ASSUME NEW t \in Buffers, NEW r, r.undoList = Append(t.undoList, t.undo)
  PROVE  r.undoList # t.undoList
<1> DEFINE L == t.undoList
           u == t.undo
<1>1. L \in Seq(Actions) /\ u \in Actions
  BY DEF Buffers
<1> HIDE DEF L, u
<1>2. Append(L, u) # L
  BY <1>1
<1> QED
  BY <1>2 DEF L, u

LEMMA InsertTale ==
  ASSUME NEW t, Good(t), NEW P, Tale(t, P), ~t.canUndo => P = <<>>,
         NEW pos \in Nat, pos <= t.length, NEW ins \in Strings, ins # <<>>,
         NEW r, r = insert_(t, pos, ins)
  PROVE  /\ Edits(t, r, pos, pos, ins) /\ Recorded(t, r, P)
         /\ t.canUndo => r.undo.insert > 0
         /\ t.canUndo /\ InsertJoins(t.undo, pos) => Tale(r, P) /\ r.undoList = t.undoList
<1> DEFINE n == Len(ins)
           u == t.undo
           s == TextOf(t)
<1>0. n \in Nat /\ n > 0
  BY DEF Strings
<1>1. /\ t \in Buffers /\ GapOK(t) /\ u \in Actions /\ s \in Strings /\ Len(s) = t.length
      /\ u.cut <= Len(u.buffer) /\ u.insert \in Nat
  BY TaleFacts, TextFacts DEF Good, Actions
<1>2. /\ Edits(t, r, pos, pos, ins)
      /\ ~t.canUndo => Unrecorded(t, r)
      /\ t.canUndo /\ InsertJoins(u, pos) => Joined(t, r, JoinedInsert(u, n))
      /\ t.canUndo /\ ~InsertJoins(u, pos) => Fresh(t, r, NewInsert(pos, n))
  BY <1>1, InsertFacts DEF Good
<1>3. r \in Buffers /\ GapOK(r) /\ TextOf(r) = Splice(s, pos, pos, ins)
  BY <1>2 DEF Edits
<1>4. CASE ~t.canUndo
  BY <1>2, <1>3, <1>4, TaleOff DEF Recorded
<1>5. CASE t.canUndo /\ InsertJoins(u, pos)
  <2> DEFINE x == JoinedInsert(u, n)
  <2>1. r.undo = x /\ r.undoList = t.undoList
    BY <1>2, <1>5 DEF Joined
  <2>2. ~Empty(u) /\ u.at = pos /\ Leads(u, s, P[Len(P)])
    BY <1>1, <1>5, TaleFacts DEF InsertJoins
  <2>3. Leads(x, Splice(s, u.at, u.at, ins), P[Len(P)]) /\ End(x) = End(u) /\ (Back(x) > 0 <=> Back(u) > 0)
    BY <1>1, <2>2, LeadsJoinInsert
  <2>0. Fields(x, u.buffer, u.at + n, 0, u.insert + n, Back(u))
    BY MadeFields
  <2> HIDE DEF x
  <2>4. x.insert = u.insert + n
    BY <2>0 DEF Fields
  <2>5. Tale(r, P)
    BY <1>1, <1>3, <2>1, <2>2, <2>3, TaleJoined
  <2>6. r.undo.insert = u.insert + n /\ ~Empty(r.undo) /\ r.undo # u
    BY <1>0, <1>1, <2>1, <2>4 DEF Empty
  <2> QED
    BY <1>0, <1>1, <1>2, <1>5, <2>1, <2>5, <2>6 DEF Recorded
<1>6. CASE t.canUndo /\ ~InsertJoins(u, pos)
  <2> DEFINE x == NewInsert(pos, n)
  <2>1. r.undo = x /\ r.undoList = Append(t.undoList, u)
    BY <1>2, <1>6 DEF Fresh
  <2>2. Leads(x, TextOf(r), s)
    BY <1>1, <1>3, LeadsNewInsert
  <2>0. Fields(x, <<>>, pos + n, 0, n, 0)
    BY MadeFields
  <2> HIDE DEF x
  <2>3. x.insert = n /\ x.at = pos + n /\ x.yankcut = 0
    BY <2>0 DEF Fields
  <2>4. Back(x) = 0 /\ From(x) = pos
    BY <1>0, <2>3 DEF Back, From
  <2>5. Inv(x, TextOf(r)).at = pos + 0
    BY <2>4, InvFields DEF Fields
  <2>6. NoJoin(u, Inv(x, TextOf(r)))
    BY <1>6, <2>5 DEF NoJoin, InsertJoins
  <2>7. Tale(r, Append(P, s))
    BY <1>1, <1>3, <2>1, <2>2, <2>6, TaleFresh
  <2>8. ~Empty(r.undo) /\ r.undo.insert > 0 /\ r.undoList # t.undoList
    BY <1>0, <1>1, <2>1, <2>3, LongerList DEF Empty
  <2> QED
    BY <1>2, <1>6, <2>7, <2>8 DEF Recorded
<1> QED
  BY <1>4, <1>5, <1>6

LEMMA RemoveTale ==
  ASSUME NEW t, Good(t), NEW P, Tale(t, P), ~t.canUndo => P = <<>>,
         NEW s \in Nat, NEW e \in Nat, s < e, e <= t.length, NEW r, r = remove_(t, s, e)
  PROVE  /\ Edits(t, r, s, e, <<>>) /\ Recorded(t, r, P)
         /\ t.canUndo => /\ InsertJoins(r.undo, s) /\ r.undo.insert = 0
                         /\ r.undoList = t.undoList => t.undo.insert = 0
<1> DEFINE u == t.undo
           txt == TextOf(t)
           bytes == SubSeq(txt, s + 1, e)
<1>1. /\ t \in Buffers /\ GapOK(t) /\ u \in Actions /\ txt \in Strings /\ Len(txt) = t.length
      /\ u.cut <= Len(u.buffer) /\ u.insert \in Nat /\ u.cut \in Nat
  BY TaleFacts, TextFacts DEF Good, Actions
<1>2. /\ Edits(t, r, s, e, <<>>)
      /\ ~t.canUndo => Unrecorded(t, r)
      /\ t.canUndo /\ RemoveJoins(u, e) => Joined(t, r, JoinedRemove(u, s, e, bytes))
      /\ t.canUndo /\ ~RemoveJoins(u, e) => Fresh(t, r, NewRemove(s, e, bytes))
  BY <1>1, RemoveFacts DEF Good
<1>3. r \in Buffers /\ GapOK(r) /\ TextOf(r) = Splice(txt, s, e, <<>>)
  BY <1>2 DEF Edits
<1>4. CASE ~t.canUndo
  BY <1>2, <1>3, <1>4, TaleOff DEF Recorded
<1>5. CASE t.canUndo /\ RemoveJoins(u, e)
  <2> DEFINE x == JoinedRemove(u, s, e, bytes)
  <2>1. r.undo = x /\ r.undoList = t.undoList
    BY <1>2, <1>5 DEF Joined
  <2>2. ~Empty(u) /\ Leads(u, txt, P[Len(P)])
    BY <1>1, <1>5, TaleFacts DEF RemoveJoins, Empty
  <2>3. Leads(x, Splice(txt, s, e, <<>>), P[Len(P)]) /\ End(x) = End(u) /\ (Back(x) > 0 <=> Back(u) > 0)
    BY <1>1, <1>5, <2>2, LeadsJoinRemove
  <2>0. Fields(x, bytes \o SubSeq(u.buffer, 1, u.cut), s, u.cut + e - s, 0, 0)
    BY MadeFields
  <2> HIDE DEF x
  <2>4. x.cut = u.cut + e - s /\ x.insert = 0 /\ x.at = s
    BY <2>0 DEF Fields
  <2>5. Tale(r, P)
    BY <1>1, <1>3, <2>1, <2>2, <2>3, TaleJoined
  <2>6. r.undo.insert = 0 /\ r.undo.cut > 0 /\ r.undo # u /\ r.undo.at = s
    BY <1>1, <2>1, <2>4
  <2>7. u.insert = 0
    BY <1>1, <1>5, <2>2 DEF Leads, RemoveJoins
  <2> QED
    BY <1>2, <1>5, <2>1, <2>5, <2>6, <2>7 DEF Recorded, Empty, InsertJoins
<1>6. CASE t.canUndo /\ ~RemoveJoins(u, e)
  <2> DEFINE x == NewRemove(s, e, bytes)
  <2>1. r.undo = x /\ r.undoList = Append(t.undoList, u)
    BY <1>2, <1>6 DEF Fresh
  <2>2. Leads(x, TextOf(r), txt)
    BY <1>1, <1>3, LeadsNewRemove
  <2>0. Fields(x, bytes, s, e - s, 0, 0)
    BY MadeFields
  <2> HIDE DEF x
  <2>3. x.insert = 0 /\ x.at = s /\ x.cut = e - s
    BY <2>0 DEF Fields
  <2>4. Back(x) = e - s /\ From(x) = s - 0
    BY <2>3 DEF Back, From
  <2>5. Inv(x, TextOf(r)).at = (s - 0) + (e - s) /\ Inv(x, TextOf(r)).insert = e - s
    BY <2>4, InvFields DEF Fields
  <2>6. (s - 0) + (e - s) = e /\ e - s > 0
    OBVIOUS
  <2>7. NoJoin(u, Inv(x, TextOf(r)))
    BY <1>1, <1>6, <2>5, <2>6 DEF NoJoin, RemoveJoins
  <2>8. Tale(r, Append(P, txt))
    BY <1>1, <1>3, <2>1, <2>2, <2>7, TaleFresh
  <2>9. ~Empty(r.undo) /\ r.undo.at = s /\ r.undo.insert = 0 /\ r.undoList # t.undoList
    BY <1>1, <2>1, <2>3, <2>6, LongerList DEF Empty
  <2> QED
    BY <1>2, <1>6, <2>8, <2>9 DEF Recorded, InsertJoins
<1> QED
  BY <1>4, <1>5, <1>6

\* remove_() and then insert_() at the same place is one edit, and one event.
LEMMA ReplaceTale ==
  ASSUME NEW t, Good(t), NEW P, Tale(t, P), ~t.canUndo => P = <<>>,
         NEW s \in Nat, NEW e \in Nat, s < e, e <= t.length, NEW ins \in Strings,
         NEW r, r = insert_(remove_(t, s, e), s, ins)
  PROVE  Edits(t, r, s, e, ins) /\ Recorded(t, r, P)
<1> DEFINE m == remove_(t, s, e)
           txt == TextOf(t)
<1>1. /\ Edits(t, m, s, e, <<>>) /\ Recorded(t, m, P)
      /\ t.canUndo => /\ InsertJoins(m.undo, s) /\ m.undo.insert = 0
                      /\ m.undoList = t.undoList => t.undo.insert = 0
  BY RemoveTale
<1>2. /\ txt \in Seq(Chars) /\ Len(txt) = t.length /\ t.length \in Nat /\ Len(ins) \in Nat
      /\ ins \in Seq(Chars) /\ Len(<<>>) = 0 /\ s <= e
  BY TextFacts, GapFacts DEF Good, Strings
<1> HIDE DEF m
<1>3. /\ Good(m) /\ m.length = t.length - (e - s) + Len(<<>>) /\ m.canUndo = t.canUndo
      /\ TextOf(m) = Splice(txt, s, e, <<>>) /\ m.locked = t.locked /\ m.call = t.call
  BY <1>1 DEF Edits, Good
<1>4. s <= m.length
  BY <1>2, <1>3
<1>5. CASE ins = <<>>
  <2>1. r = m
    BY <1>5 DEF insert_, m
  <2> QED
    BY <1>1, <1>5, <2>1
<1>6. CASE ins # <<>>
  <2>1. PICK Q \in {P, Append(P, txt)} : Tale(m, Q) /\ (Q = P \/ t.canUndo)
    BY <1>1 DEF Recorded
  <2>2. ~m.canUndo => Q = <<>>
    BY <1>3, <2>1
  <2>3. /\ Edits(m, r, s, s, ins) /\ Recorded(m, r, Q)
        /\ m.canUndo => r.undo.insert > 0
        /\ m.canUndo /\ InsertJoins(m.undo, s) => Tale(r, Q) /\ r.undoList = m.undoList
    BY <1>3, <1>4, <1>6, <2>1, <2>2, InsertTale DEF m
  <2>4. Splice(Splice(txt, s, e, <<>>), s, s, ins) = Splice(txt, s, e, ins)
    <3> DEFINE z == <<>>
    <3>1. z \in Seq(Chars) /\ s + Len(z) = s
      OBVIOUS
    <3> HIDE DEF z
    <3>2. Splice(Splice(txt, s, e, z), s, s + Len(z), ins) = Splice(txt, s, e, ins)
      BY <1>2, <3>1, SpliceAgain
    <3> QED
      BY <3>1, <3>2 DEF z
  <2>5. Edits(t, r, s, e, ins)
    <3>1. r.length = m.length - (s - s) + Len(ins)
      BY <2>3 DEF Edits
    <3>2. r.length = t.length - (e - s) + Len(ins)
      BY <1>2, <1>3, <3>1
    <3> QED
      BY <1>3, <2>3, <2>4, <3>2 DEF Edits
  <2>6. Recorded(t, r, P)
    <3>1. CASE t.canUndo
      <4>1. Tale(r, Q) /\ r.undoList = m.undoList /\ r.undo.insert > 0
        BY <1>1, <1>3, <2>3, <3>1
      <4>2. ~Empty(r.undo) /\ ~(r.undo = t.undo /\ r.undoList = t.undoList)
        BY <1>1, <3>1, <4>1 DEF Empty
      <4> QED
        BY <2>1, <3>1, <4>1, <4>2 DEF Recorded
    <3>2. CASE ~t.canUndo
      <4>1. Q = P /\ ~m.canUndo
        BY <1>3, <2>1, <3>2
      <4> QED
        BY <2>3, <3>2, <4>1 DEF Recorded
    <3> QED
      BY <3>1, <3>2
  <2> QED
    BY <2>5, <2>6
<1> QED
  BY <1>5, <1>6
-----------------------------------------------------------------------------
(* The modify callbacks *)

\* A listener that knows the text of t knows the one of r.
Told(t, r) == Heard(TextOf(t), r) = TextOf(r)

\* A member function leads from t to r.
Serves(t, r) == Good(r) /\ r.canUndo = t.canUndo /\ r.locked = t.locked /\ Told(t, r)

\* Only what undo() and redo() know, and what they may do, is different.
SameBytes(t, r) ==
  /\ r \in Buffers /\ r.buf = t.buf /\ r.gapStart = t.gapStart /\ r.gapEnd = t.gapEnd
  /\ r.length = t.length /\ r.sel = t.sel /\ r.call = t.call

LEMMA HeardSame ==
  ASSUME NEW t, NEW r, r.call = t.call,
         \A i, j : text_range(r, i, j) = text_range(t, i, j)
  PROVE  \A m : Heard(m, r) = Heard(m, t)
<1>1. text_range(r, t.call.pos, t.call.pos + t.call.nInserted)
        = text_range(t, t.call.pos, t.call.pos + t.call.nInserted)
  OBVIOUS
<1> QED
  BY <1>1, Zenon DEF Heard

LEMMA BytesText ==
  ASSUME NEW t, Good(t), NEW r, SameBytes(t, r)
  PROVE  Good(r) /\ TextOf(r) = TextOf(t) /\ \A m : Heard(m, r) = Heard(m, t)
<1>1. GapOK(r) /\ TextOf(r) = TextOf(t)
  BY DEF Good, GapOK, Gap, SameBytes, TextOf
<1>2. Good(r)
  BY <1>1 DEF Good, SameBytes
<1>3. ASSUME NEW i, NEW j
      PROVE  text_range(r, i, j) = text_range(t, i, j)
  BY DEF text_range, SameBytes, Gap
<1>4. r.call = t.call /\ \A m : Heard(m, r) = Heard(m, t)
  BY <1>3, HeardSame DEF SameBytes
<1> QED
  BY <1>1, <1>2, <1>4

\* The bytes put in are where they were put.
LEMMA SpliceRange ==
  ASSUME NEW X, NEW s \in Seq(X), NEW ins \in Seq(X), NEW p \in Nat, NEW q \in Nat,
         p <= q, q <= Len(s)
  PROVE  SubSeq(Splice(s, p, q, ins), p + 1, p + Len(ins)) = ins
<1> DEFINE r == Splice(s, p, q, ins)
           n == Len(ins)
           k == p + n
           x == SubSeq(r, p + 1, k)
<1>0. n \in Nat /\ Len(s) \in Nat /\ k \in Nat /\ k = p + n
  OBVIOUS
<1>1. Spliced(r, X, s, p, q, ins)
  BY SpliceFacts
<1> HIDE DEF r
<1>2. r \in Seq(X) /\ Len(r) = Len(s) - (q - p) + n
  BY <1>1 DEF Spliced
<1>3. \A i \in 1 .. Len(s) - (q - p) + n :
         r[i] = IF i <= p THEN s[i] ELSE IF i <= p + n THEN ins[i - p] ELSE s[i - n + (q - p)]
  BY <1>1 DEF Spliced
<1>4. p <= k /\ k <= Len(r)
  BY <1>0, <1>2
<1> HIDE DEF n, k
<1>5. x \in Seq(X) /\ Len(x) = k - p /\ \A i \in 1 .. k - p : x[i] = r[p + i]
  BY <1>0, <1>2, <1>4, RangeFacts
<1> HIDE DEF x
<1>6. Len(x) = n /\ n = Len(ins)
  BY <1>0, <1>5 DEF n
<1>7. ASSUME NEW i \in 1 .. n
      PROVE  x[i] = ins[i]
  <2>1. p + i \in 1 .. Len(s) - (q - p) + n /\ ~(p + i <= p) /\ p + i <= p + n /\ (p + i) - p = i /\ i \in 1 .. k - p
    BY <1>0
  <2>2. x[i] = r[p + i]
    BY <1>5, <2>1
  <2>3. r[p + i] = ins[(p + i) - p]
    BY <1>3, <2>1
  <2> QED
    BY <2>1, <2>2, <2>3
<1>8. x = ins
  BY <1>5, <1>6, <1>7, SameString
<1> QED
  BY <1>8 DEF x, r, k, n

\* call_modify_callbacks() after an edit tells the listeners what it did.
LEMMA NotifyFacts ==
  ASSUME NEW t, Good(t), NEW p \in Nat, NEW q \in Nat, p <= q, q <= t.length, NEW ins \in Strings,
         NEW m, Edits(t, m, p, q, ins),
         NEW r, r = Notify(m, p, SubSeq(TextOf(t), p + 1, q), Len(ins))
  PROVE  /\ Serves(t, r) /\ TextOf(r) = Splice(TextOf(t), p, q, ins)
         /\ Unrecorded(m, r) /\ r.sel = m.sel /\ r.length = m.length
<1> DEFINE txt == TextOf(t)
           d == SubSeq(txt, p + 1, q)
           n == Len(ins)
           c == [pos |-> p, nDeleted |-> Len(d), nInserted |-> n, deleted |-> d]
           k == p + n
<1>1. txt \in Strings /\ Len(txt) = t.length /\ t.length \in Nat
  BY TextFacts, GapFacts DEF Good
<1>2. d \in Strings /\ Len(d) = q - p
  BY <1>1, RangeFacts DEF Strings
<1>3. /\ m \in Buffers /\ GapOK(m) /\ SelOK(m.sel, m.length) /\ TextOf(m) = Splice(txt, p, q, ins)
      /\ m.length = t.length - (q - p) + n /\ m.canUndo = t.canUndo /\ m.locked = t.locked
  BY DEF Edits
<1>4. n \in Nat /\ k = p + n /\ k \in Nat
  BY DEF Strings
<1>5. c \in Calls
  BY <1>2, <1>4 DEF Calls
<1>6. r = [m EXCEPT !.call = c]
  BY DEF Notify
<1> HIDE DEF c
<1>7. /\ r \in Buffers /\ r.buf = m.buf /\ r.gapStart = m.gapStart /\ r.gapEnd = m.gapEnd
      /\ r.length = m.length /\ r.sel = m.sel /\ r.call = c /\ Unrecorded(m, r)
      /\ r.canUndo = m.canUndo /\ r.locked = m.locked
  BY <1>3, <1>5, <1>6 DEF Buffers, Unrecorded
<1>8. GapOK(r) /\ TextOf(r) = TextOf(m)
  BY <1>3, <1>7 DEF GapOK, Gap, TextOf
<1>d. d = SubSeq(txt, p + 1, q)
  OBVIOUS
<1> HIDE DEF n, k, txt, d
<1>9. p <= k /\ k <= r.length
  BY <1>1, <1>3, <1>4, <1>7
<1>10. text_range(r, p, k) = ins
  <2>1. text_range(r, p, k) = SubSeq(TextOf(r), p + 1, k)
    BY <1>4, <1>7, <1>8, <1>9, RangeOf
  <2>2. SubSeq(Splice(txt, p, q, ins), p + 1, p + Len(ins)) = ins
    BY <1>1, SpliceRange DEF Strings
  <2> QED
    BY <1>3, <1>8, <2>1, <2>2 DEF n, k
<1>11. Heard(txt, r) = TextOf(r)
  <2>1. r.call.pos = p /\ r.call.nDeleted = Len(d) /\ r.call.nInserted = n /\ r.call.deleted = d
    BY <1>7 DEF c
  <2>2. p + Len(d) = q
    BY <1>2
  <2>3. r.call.deleted = SubSeq(txt, r.call.pos + 1, r.call.pos + r.call.nDeleted)
    BY <1>d, <2>1, <2>2
  <2>4. Heard(txt, r) = SubSeq(txt, 1, p) \o text_range(r, p, k) \o SubSeq(txt, q + 1, Len(txt))
    BY <2>1, <2>2, <2>3, Zenon DEF Heard, k
  <2> QED
    BY <1>3, <1>8, <1>10, <2>4, Zenon DEF Splice
<1> QED
  BY <1>3, <1>7, <1>8, <1>11 DEF Serves, Good, Told, txt

LEMMA TaleSame ==
  ASSUME NEW m, NEW P, Tale(m, P), NEW r, Unrecorded(m, r), TextOf(r) = TextOf(m)
  PROVE  Tale(r, P)
BY DEF Tale, Unrecorded

LEMMA RecordedSame ==
  ASSUME NEW t, NEW m, NEW P, Recorded(t, m, P), NEW r, Unrecorded(m, r), TextOf(r) = TextOf(m)
  PROVE  Recorded(t, r, P)
BY TaleSame DEF Recorded, Unrecorded
-----------------------------------------------------------------------------
(* insert(), remove() and replace() *)

\* A member function puts ins in the place of the bytes from p to q of t.
Changes(t, r, P, p, q, ins) ==
  Serves(t, r) /\ Recorded(t, r, P) /\ TextOf(r) = Splice(TextOf(t), p, q, ins)

LEMMA NotifyChanges ==
  ASSUME NEW t, Good(t), NEW P, NEW p \in Nat, NEW q \in Nat, p <= q, q <= t.length, NEW ins \in Strings,
         NEW m, Edits(t, m, p, q, ins), Recorded(t, m, P),
         NEW r, r = Notify(m, p, SubSeq(TextOf(t), p + 1, q), Len(ins))
  PROVE  Changes(t, r, P, p, q, ins)
<1>1. /\ Serves(t, r) /\ TextOf(r) = Splice(TextOf(t), p, q, ins)
      /\ Unrecorded(m, r) /\ r.sel = m.sel /\ r.length = m.length
  BY NotifyFacts
<1>2. TextOf(r) = TextOf(m)
  BY <1>1 DEF Edits
<1> QED
  BY <1>1, <1>2, RecordedSame DEF Changes

LEMMA InsertCall ==
  ASSUME NEW t, Good(t), NEW pos \in Nat, pos <= t.length, NEW ins, ins # <<>>
  PROVE  insert(t, pos, ins) = Notify(insert_(t, pos, ins), pos, <<>>, Len(ins))
<1>1. t.length \in Nat
  BY GapFacts DEF Good
<1>2. Clamp(t, pos) = pos
  BY <1>1 DEF Clamp
<1> QED
  BY <1>2 DEF insert

LEMMA RemoveCall ==
  ASSUME NEW t, Good(t), NEW s \in Nat, NEW e \in Nat, s < e, e <= t.length
  PROVE  /\ remove(t, s, e) = Notify(remove_(t, s, e), s, SubSeq(TextOf(t), s + 1, e), 0)
         /\ remove(t, e, s) = remove(t, s, e)
<1>1. t.length \in Nat
  BY GapFacts DEF Good
<1>2. Clamp(t, s) = s /\ Clamp(t, e) = e
  BY <1>1 DEF Clamp
<1>3. ~(s > e) /\ e > s /\ s # e
  OBVIOUS
<1>4. text_range(t, s, e) = SubSeq(TextOf(t), s + 1, e)
  BY RangeOf DEF Good
<1>5. remove(t, s, e) = Notify(remove_(t, s, e), s, text_range(t, s, e), 0)
  BY <1>2, <1>3 DEF remove
<1>6. remove(t, e, s) = Notify(remove_(t, s, e), s, text_range(t, s, e), 0)
  BY <1>2, <1>3 DEF remove
<1> QED
  BY <1>4, <1>5, <1>6

LEMMA ReplaceCall ==
  ASSUME NEW t, Good(t), NEW s \in Nat, NEW e \in Nat, s < e, e <= t.length, NEW ins
  PROVE  replace(t, s, e, ins) =
           Notify(insert_(remove_(t, s, e), s, ins), s, SubSeq(TextOf(t), s + 1, e), Len(ins))
<1>1. t.length \in Nat
  BY GapFacts DEF Good
<1>2. ~(s < 0) /\ ~(e > t.length)
  BY <1>1
<1>3. text_range(t, s, e) = SubSeq(TextOf(t), s + 1, e)
  BY RangeOf DEF Good
<1> QED
  BY <1>2, <1>3 DEF replace

LEMMA InsertChanges ==
  ASSUME NEW t, Good(t), NEW P, Tale(t, P), ~t.canUndo => P = <<>>,
         NEW pos \in Nat, pos <= t.length, NEW ins \in Strings, ins # <<>>
  PROVE  Changes(t, insert(t, pos, ins), P, pos, pos, ins)
<1> DEFINE m == insert_(t, pos, ins)
<1>1. Edits(t, m, pos, pos, ins) /\ Recorded(t, m, P)
  BY InsertTale
<1>2. TextOf(t) \in Strings /\ Len(TextOf(t)) = t.length /\ pos <= pos
  BY TextFacts DEF Good
<1>3. <<>> = SubSeq(TextOf(t), pos + 1, pos)
  BY <1>2, NothingFacts
<1>4. insert(t, pos, ins) = Notify(m, pos, <<>>, Len(ins))
  BY InsertCall
<1> HIDE DEF m
<1> QED
  BY <1>1, <1>2, <1>3, <1>4, NotifyChanges

LEMMA RemoveChanges ==
  ASSUME NEW t, Good(t), NEW P, Tale(t, P), ~t.canUndo => P = <<>>,
         NEW s \in Nat, NEW e \in Nat, s < e, e <= t.length
  PROVE  Changes(t, remove(t, s, e), P, s, e, <<>>)
<1> DEFINE m == remove_(t, s, e)
           z == <<>>
<1>1. Edits(t, m, s, e, z) /\ Recorded(t, m, P)
  BY RemoveTale
<1>2. z \in Strings /\ Len(z) = 0 /\ s <= e
  BY DEF Strings
<1>3. remove(t, s, e) = Notify(m, s, SubSeq(TextOf(t), s + 1, e), 0)
  BY RemoveCall
<1> HIDE DEF m, z
<1>4. Changes(t, remove(t, s, e), P, s, e, z)
  BY <1>1, <1>2, <1>3, NotifyChanges
<1> QED
  BY <1>4 DEF z

LEMMA ReplaceChanges ==
  ASSUME NEW t, Good(t), NEW P, Tale(t, P), ~t.canUndo => P = <<>>,
         NEW s \in Nat, NEW e \in Nat, s < e, e <= t.length, NEW ins \in Strings
  PROVE  Changes(t, replace(t, s, e, ins), P, s, e, ins)
<1> DEFINE m == insert_(remove_(t, s, e), s, ins)
<1>1. Edits(t, m, s, e, ins) /\ Recorded(t, m, P)
  BY ReplaceTale
<1>2. replace(t, s, e, ins) = Notify(m, s, SubSeq(TextOf(t), s + 1, e), Len(ins))
  BY ReplaceCall
<1>3. s <= e
  OBVIOUS
<1> HIDE DEF m
<1> QED
  BY <1>1, <1>2, <1>3, NotifyChanges

\* Only the selection is different.
LEMMA Reselected ==
  ASSUME NEW m, Good(m), NEW x \in Selections, SelOK(x, m.length), NEW r, r = [m EXCEPT !.sel = x]
  PROVE  /\ Good(r) /\ TextOf(r) = TextOf(m) /\ Unrecorded(m, r) /\ r.canUndo = m.canUndo
         /\ r.locked = m.locked /\ r.call = m.call /\ \A s : Heard(s, r) = Heard(s, m)
<1>1. /\ r \in Buffers /\ r.buf = m.buf /\ r.gapStart = m.gapStart /\ r.gapEnd = m.gapEnd
      /\ r.length = m.length /\ r.sel = x /\ r.call = m.call /\ Unrecorded(m, r)
      /\ r.canUndo = m.canUndo /\ r.locked = m.locked
  BY DEF Good, Buffers, Unrecorded
<1>2. GapOK(r) /\ TextOf(r) = TextOf(m)
  BY <1>1 DEF Good, GapOK, Gap, TextOf
<1>3. ASSUME NEW i, NEW j
      PROVE  text_range(r, i, j) = text_range(m, i, j)
  BY <1>1 DEF text_range, Gap
<1>4. \A s : Heard(s, r) = Heard(s, m)
  <2>1. text_range(r, m.call.pos, m.call.pos + m.call.nInserted)
          = text_range(m, m.call.pos, m.call.pos + m.call.nInserted)
    BY <1>3
  <2> QED
    BY <1>1, <2>1 DEF Heard
<1> QED
  BY <1>1, <1>2, <1>4 DEF Good

LEMMA ReselectedChanges ==
  ASSUME NEW t, NEW P, NEW p, NEW q, NEW ins, NEW m, Changes(t, m, P, p, q, ins),
         NEW x \in Selections, ~x.selected, NEW r, r = [m EXCEPT !.sel = x]
  PROVE  Changes(t, r, P, p, q, ins)
<1>1. Good(m) /\ SelOK(x, m.length)
  BY DEF Changes, Serves, SelOK
<1>2. /\ Good(r) /\ TextOf(r) = TextOf(m) /\ Unrecorded(m, r) /\ r.canUndo = m.canUndo
      /\ r.locked = m.locked /\ \A s : Heard(s, r) = Heard(s, m)
  BY <1>1, Reselected
<1>3. Recorded(t, r, P)
  BY <1>2, RecordedSame DEF Changes
<1> QED
  BY <1>2, <1>3 DEF Changes, Serves, Told
-----------------------------------------------------------------------------
(* apply_undo() *)

\* Two actions with the same fields are one.
LEMMA SameFields ==
  ASSUME NEW x \in Actions, NEW y \in Actions, NEW f, NEW a, NEW c, NEW i, NEW k,
         Fields(x, f, a, c, i, k), Fields(y, f, a, c, i, k)
  PROVE  x = y
BY DEF Fields, Actions

\* The range that undoing u replaces, and what it puts there.
LEMMA LeadsRange ==
  ASSUME NEW u \in Actions, NEW s \in Strings, NEW r, Leads(u, s, r)
  PROVE  /\ From(u) \in Nat /\ u.at \in Nat /\ u.at <= Len(s) /\ u.insert \in Nat /\ From(u) + u.insert = u.at
         /\ Back(u) \in Nat /\ Old(u) \in Strings /\ Len(Old(u)) = Back(u) /\ r = Splice(s, From(u), u.at, Old(u))
         /\ u.insert = 0 => u.yankcut = 0 /\ Back(u) > 0
         /\ Back(u) = IF u.insert > 0 /\ u.cut = 0 THEN u.yankcut ELSE u.cut
<1>1. /\ u.buffer \in Strings /\ u.at \in Nat /\ u.cut \in Nat /\ u.insert \in Nat /\ u.yankcut \in Nat
      /\ Back(u) \in Nat /\ From(u) \in Nat /\ From(u) + u.insert = u.at
      /\ ~Empty(u) /\ (u.insert = 0 => u.yankcut = 0)
  BY LeadsThen
<1>2. /\ u.at <= Len(s) /\ Back(u) <= Len(u.buffer) /\ r = Splice(s, From(u), u.at, Old(u))
      /\ (u.insert > 0 => u.cut = 0)
  BY DEF Leads
<1>3. Old(u) \in Strings /\ Len(Old(u)) = Back(u)
  BY <1>1, <1>2, PrefixFacts DEF Old, Strings
<1>4. u.insert = 0 => Back(u) > 0
  BY <1>1 DEF Back, Empty
<1>5. Back(u) = IF u.insert > 0 /\ u.cut = 0 THEN u.yankcut ELSE u.cut
  BY <1>1, <1>2 DEF Back
<1> QED
  BY <1>1, <1>2, <1>3, <1>4, <1>5

\* The events that undoing u makes, one way or the other, are Inv(u, s).
LEMMA InvMade ==
  ASSUME NEW u \in Actions, NEW s \in Strings, NEW r, Leads(u, s, r)
  PROVE  LET x == NewRemove(From(u), u.at, SubSeq(s, From(u) + 1, u.at))
         IN  /\ x \in Actions
             /\ u.insert = 0 => NewInsert(u.at, Back(u)) = Inv(u, s)
             /\ u.insert > 0 /\ Back(u) = 0 => x = Inv(u, s)
             /\ u.insert > 0 /\ Back(u) > 0 => JoinedInsert(x, Back(u)) = Inv(u, s)
<1> DEFINE fr == From(u)
           a == u.at
           k == Back(u)
           n == u.insert
           f == SubSeq(s, fr + 1, a)
           x == NewRemove(fr, a, f)
           i == Inv(u, s)
           j == JoinedInsert(x, k)
           m == NewInsert(a, k)
           z == <<>>
<1>1. fr \in Nat /\ a \in Nat /\ n \in Nat /\ fr + n = a /\ k \in Nat /\ a <= Len(s)
  BY LeadsRange
<1>2. i \in Actions
  BY InvLeads
<1>3. Fields(i, f, fr + k, IF k = 0 THEN n ELSE 0, k, IF k = 0 THEN 0 ELSE n)
  BY InvFields
<1>z. z \in Strings /\ z = <<>>
  BY DEF Strings
<1>e. n = 0 => f = z
  <2>1. CASE n = 0
    <3>1. fr = a
      BY <1>1, <2>1
    <3>2. SubSeq(s, a + 1, a) = <<>>
      BY <1>1, NothingFacts
    <3> QED
      BY <3>1, <3>2
  <2> QED
    BY <2>1
<1>4. f \in Strings /\ fr <= a
  <2>1. fr <= a
    BY <1>1
  <2> QED
    BY <1>1, <2>1, RangeFacts DEF Strings
<1>5. Fields(x, f, fr, a - fr, 0, 0)
  BY MadeFields
<1>6. Fields(m, z, a + k, 0, k, 0)
  BY MadeFields
<1>7. Fields(j, x.buffer, x.at + k, 0, x.insert + k, Back(x))
  BY MadeFields
<1>8. x \in Actions /\ m \in Actions
  BY <1>1, <1>4, EmptyActionFacts, NothingFacts, ActionsMade DEF EmptyAction
<1> HIDE DEF fr, a, k, n, f, i, m, z
<1>9. a - fr = n /\ (n = 0 => a + k = fr + k) /\ (k = 0 => fr = fr + k) /\ fr + k \in Nat
  BY <1>1
<1>10. ASSUME n = 0
       PROVE  m = i
  <2>1. Fields(m, f, fr + k, 0, k, 0)
    BY <1>6, <1>9, <1>10, <1>e
  <2>2. Fields(i, f, fr + k, 0, k, 0)
    BY <1>3, <1>10
  <2> QED
    BY <1>2, <1>8, <2>1, <2>2, SameFields
<1> HIDE DEF x
<1>11. ASSUME k = 0
       PROVE  x = i
  <2>1. Fields(x, f, fr, n, 0, 0)
    BY <1>5, <1>9
  <2>2. Fields(i, f, fr, n, 0, 0)
    BY <1>3, <1>9, <1>11
  <2> QED
    BY <1>2, <1>8, <2>1, <2>2, SameFields
<1>12. ASSUME k > 0
       PROVE  j = i
  <2>1. x.buffer = f /\ x.at = fr /\ x.cut = n /\ x.insert = 0
    BY <1>5, <1>9 DEF Fields
  <2>2. Back(x) = n
    BY <2>1 DEF Back
  <2>3. Fields(j, f, fr + k, 0, k, n)
    <3>1. 0 + k = k
      BY <1>1
    <3> QED
      BY <1>7, <2>1, <2>2, <3>1
  <2>4. Fields(i, f, fr + k, 0, k, n)
    BY <1>1, <1>3, <1>12
  <2>5. j \in Actions
    <3>1. x.cut <= Len(x.buffer)
      BY <1>1, <1>4, <1>9, <2>1, RangeFacts DEF f, Strings
    <3> QED
      BY <1>1, <1>4, <1>8, <3>1, ActionsMade
  <2> HIDE DEF j
  <2> QED
    BY <1>2, <2>3, <2>4, <2>5, SameFields
<1> QED
  BY <1>8, <1>10, <1>11, <1>12 DEF fr, a, k, n, f, i, m, x

\* The event is undone, and an event that undoes that is made of it.
Reversed(t, u, r, s) ==
  /\ Serves(t, r) /\ TextOf(r) = s /\ r.undo = Inv(u, TextOf(t))
  /\ r.undoList = Append(t.undoList, t.undo) /\ r.redoList = t.redoList

LEMMA ReversedBy ==
  ASSUME NEW t, Good(t), t.locked, NEW u \in Actions, NEW s, Leads(u, TextOf(t), s),
         NEW m, Edits(t, m, From(u), u.at, Old(u)), m.undo = Inv(u, TextOf(t)),
         m.undoList = Append(t.undoList, t.undo), m.redoList = t.redoList,
         NEW r, r = Notify(m, From(u), SubSeq(TextOf(t), From(u) + 1, u.at), Len(Old(u)))
  PROVE  Reversed(t, u, r, s)
<1> DEFINE p == From(u)
           q == u.at
           o == Old(u)
<1>1. TextOf(t) \in Strings /\ Len(TextOf(t)) = t.length
  BY TextFacts DEF Good
<1>2. p \in Nat /\ q \in Nat /\ q <= t.length /\ o \in Strings /\ s = Splice(TextOf(t), p, q, o)
      /\ u.insert \in Nat /\ p + u.insert = q
  BY <1>1, LeadsRange
<1>3. p <= q
  BY <1>2
<1>4. Edits(t, m, p, q, o) /\ r = Notify(m, p, SubSeq(TextOf(t), p + 1, q), Len(o))
  OBVIOUS
<1> HIDE DEF p, q, o
<1>5. /\ Serves(t, r) /\ TextOf(r) = Splice(TextOf(t), p, q, o) /\ Unrecorded(m, r)
  BY <1>2, <1>3, <1>4, NotifyFacts
<1> QED
  BY <1>2, <1>5 DEF Reversed, Unrecorded

LEMMA ReverseDone ==
  ASSUME NEW t, Good(t), t.locked, t.canUndo, t.undo.cut <= Len(t.undo.buffer),
         NEW u \in Actions, NEW s, Leads(u, TextOf(t), s), NoJoin(t.undo, u),
         NEW r, r = IF u.insert > 0 /\ Back(u) > 0 THEN replace(t, From(u), u.at, Old(u))
                    ELSE IF u.insert > 0 THEN remove(t, From(u), u.at)
                    ELSE insert(t, u.at, Old(u))
  PROVE  Reversed(t, u, r, s)
<1> DEFINE p == From(u)
           q == u.at
           o == Old(u)
           k == Back(u)
           n == u.insert
           txt == TextOf(t)
           bytes == SubSeq(txt, p + 1, q)
           x == NewRemove(p, q, bytes)
           i == Inv(u, txt)
<1>0. t \in Buffers /\ GapOK(t) /\ SelOK(t.sel, t.length) /\ t.undo \in Actions /\ t.undo.cut \in Nat
  BY DEF Good, Buffers, Actions
<1>1. txt \in Strings /\ Len(txt) = t.length /\ t.length \in Nat
  BY <1>0, TextFacts, GapFacts
<1>2. /\ p \in Nat /\ q \in Nat /\ q <= t.length /\ n \in Nat /\ p + n = q
      /\ k \in Nat /\ o \in Strings /\ Len(o) = k
      /\ n = 0 => k > 0
  BY <1>1, LeadsRange
<1>3. /\ x \in Actions
      /\ n = 0 => NewInsert(q, k) = i
      /\ n > 0 /\ k = 0 => x = i
      /\ n > 0 /\ k > 0 => JoinedInsert(x, k) = i
  BY <1>1, InvMade
<1>4. t.undo.at # q \/ Empty(t.undo) \/ (n > 0 /\ t.undo.cut = 0)
  BY DEF NoJoin
<1>5. r = IF n > 0 /\ k > 0 THEN replace(t, p, q, o)
          ELSE IF n > 0 THEN remove(t, p, q) ELSE insert(t, q, o)
  OBVIOUS
<1>by. ASSUME NEW m, Edits(t, m, p, q, o), m.undo = i, m.undoList = Append(t.undoList, t.undo),
              m.redoList = t.redoList, r = Notify(m, p, bytes, Len(o))
       PROVE  Reversed(t, u, r, s)
  BY <1>by, ReversedBy
<1> HIDE DEF p, q, o, k, n, i
<1>6. CASE n = 0
  <2> DEFINE m == insert_(t, q, o)
  <2>1. o # <<>> /\ p = q /\ bytes = <<>>
    <3>1. p = q /\ o # <<>>
      BY <1>2, <1>6
    <3> QED
      BY <1>1, <1>2, <3>1, NothingFacts
  <2>2. r = Notify(m, q, <<>>, Len(o))
    BY <1>2, <1>5, <1>6, <2>1, InsertCall
  <2>3. ~InsertJoins(t.undo, q)
    BY <1>4, <1>6 DEF InsertJoins
  <2>4. Edits(t, m, q, q, o) /\ Fresh(t, m, NewInsert(q, Len(o)))
    BY <1>0, <1>2, <2>1, <2>3, InsertFacts
  <2> HIDE DEF m, bytes
  <2>5. m.undo = i /\ m.undoList = Append(t.undoList, t.undo) /\ m.redoList = t.redoList
    BY <1>2, <1>3, <1>6, <2>4 DEF Fresh
  <2> QED
    BY <1>by, <2>1, <2>2, <2>4, <2>5
<1>7. CASE n > 0
  <2> DEFINE m == remove_(t, p, q)
  <2>1. p < q
    BY <1>2, <1>7
  <2>2. ~RemoveJoins(t.undo, q)
    BY <1>0, <1>4 DEF RemoveJoins, Empty
  <2>3. Edits(t, m, p, q, <<>>) /\ Fresh(t, m, x)
    BY <1>0, <1>2, <2>1, <2>2, RemoveFacts
  <2>4. m.undo = x /\ m.undoList = Append(t.undoList, t.undo) /\ m.redoList = t.redoList
    BY <2>3 DEF Fresh
  <2>5. CASE k = 0
    <3>1. o = <<>> /\ Len(o) = 0
      BY <1>2, <2>5 DEF Strings
    <3>2. r = Notify(m, p, bytes, 0)
      BY <1>2, <1>5, <1>7, <2>1, <2>5, RemoveCall
    <3> HIDE DEF m, x, bytes
    <3>3. m.undo = i /\ Edits(t, m, p, q, o) /\ r = Notify(m, p, bytes, Len(o))
      BY <1>3, <1>7, <2>3, <2>4, <2>5, <3>1, <3>2
    <3> QED
      BY <1>by, <2>4, <3>3
  <2>6. CASE k > 0
    <3> DEFINE w == insert_(m, p, o)
    <3>1. r = Notify(w, p, bytes, Len(o))
      BY <1>2, <1>5, <1>7, <2>1, <2>6, ReplaceCall
    <3>2. Fields(x, bytes, p, q - p, 0, 0)
      BY MadeFields
    <3>b. Len(bytes) = q - p
      BY <1>1, <1>2, <2>1, RangeFacts DEF Strings
    <3> HIDE DEF m, x, bytes
    <3>3. /\ m \in Buffers /\ GapOK(m) /\ SelOK(m.sel, m.length) /\ TextOf(m) = Splice(txt, p, q, <<>>)
          /\ m.length = t.length - (q - p) + Len(<<>>) /\ m.canUndo = t.canUndo /\ m.locked = t.locked
          /\ m.call = t.call
      BY <2>3 DEF Edits
    <3>4. p <= m.length /\ o # <<>>
      BY <1>1, <1>2, <2>1, <2>6, <3>3 DEF Strings
    <3>5. m.undo.cut <= Len(m.undo.buffer) /\ InsertJoins(m.undo, p)
      BY <1>2, <2>1, <2>4, <3>2, <3>b DEF Fields, InsertJoins, Empty
    <3>6. Edits(m, w, p, p, o) /\ Joined(m, w, JoinedInsert(m.undo, Len(o)))
      BY <1>2, <3>3, <3>4, <3>5, InsertFacts
    <3> HIDE DEF w
    <3>7. w.undo = i /\ w.undoList = Append(t.undoList, t.undo) /\ w.redoList = t.redoList
      BY <1>2, <1>3, <1>7, <2>4, <2>6, <3>6 DEF Joined
    <3>8. Splice(Splice(txt, p, q, <<>>), p, p, o) = Splice(txt, p, q, o)
      <4> DEFINE z == <<>>
      <4>1. z \in Seq(Chars) /\ p + Len(z) = p /\ txt \in Seq(Chars) /\ o \in Seq(Chars) /\ p <= q /\ q <= Len(txt)
        BY <1>1, <1>2, <2>1 DEF Strings
      <4> HIDE DEF z
      <4>2. Splice(Splice(txt, p, q, z), p, p + Len(z), o) = Splice(txt, p, q, o)
        BY <1>2, <4>1, SpliceAgain
      <4> QED
        BY <4>1, <4>2 DEF z
    <3>9. Edits(t, w, p, q, o)
      <4>1. w.length = m.length - (p - p) + Len(o)
        BY <3>6 DEF Edits
      <4>2. w.length = t.length - (q - p) + Len(o)
        BY <1>1, <1>2, <3>3, <4>1
      <4> QED
        BY <3>3, <3>6, <3>8, <4>2 DEF Edits
    <3> QED
      BY <1>by, <3>1, <3>7, <3>9
  <2> QED
    BY <1>2, <2>5, <2>6
<1> QED
  BY <1>2, <1>6, <1>7

\* The redo list is locked or unlocked.
LEMMA LockFacts ==
  ASSUME NEW t, Good(t), NEW v \in BOOLEAN, NEW r, r = [t EXCEPT !.locked = v]
  PROVE  /\ Good(r) /\ TextOf(r) = TextOf(t) /\ (\A m : Heard(m, r) = Heard(m, t))
         /\ Unrecorded(t, r) /\ r.canUndo = t.canUndo /\ r.locked = v
<1>1. SameBytes(t, r) /\ Unrecorded(t, r) /\ r.canUndo = t.canUndo /\ r.locked = v
  BY DEF Good, Buffers, SameBytes, Unrecorded
<1> QED
  BY <1>1, BytesText

LEMMA ApplyFacts ==
  ASSUME NEW t, Good(t), ~t.locked, t.canUndo, t.undo.cut <= Len(t.undo.buffer),
         NEW u \in Actions, NEW s, Leads(u, TextOf(t), s), NoJoin(t.undo, u),
         NEW r, r = apply_undo(t, u)
  PROVE  Reversed(t, u, r, s)
<1> DEFINE h == [t EXCEPT !.locked = TRUE]
           d == IF u.insert > 0 /\ Back(u) > 0 THEN replace(h, From(u), u.at, Old(u))
                ELSE IF u.insert > 0 THEN remove(h, From(u), u.at)
                ELSE insert(h, u.at, Old(u))
<1>1. /\ Good(h) /\ TextOf(h) = TextOf(t) /\ Unrecorded(t, h) /\ h.canUndo = t.canUndo /\ h.locked = TRUE
  BY LockFacts
<1>2. TextOf(t) \in Strings
  BY TextFacts DEF Good
<1>3. Back(u) = IF u.insert > 0 /\ u.cut = 0 THEN u.yankcut ELSE u.cut
  BY <1>2, LeadsRange
<1>4. r = [d EXCEPT !.locked = FALSE]
  BY <1>3, Zenon DEF apply_undo, Old, From
<1>f. t.locked = FALSE
  BY DEF Good, Buffers
<1> HIDE DEF h
<1>5. Reversed(h, u, d, s)
  <2>1. /\ h.locked /\ h.canUndo /\ h.undo = t.undo /\ h.undo.cut <= Len(h.undo.buffer)
        /\ Leads(u, TextOf(h), s) /\ NoJoin(h.undo, u)
    BY <1>1 DEF Unrecorded
  <2> QED
    BY <1>1, <2>1, ReverseDone
<1> HIDE DEF d
<1>6. Good(d) /\ TextOf(d) = s /\ d.undo = Inv(u, TextOf(t)) /\ d.canUndo = t.canUndo
      /\ d.undoList = Append(t.undoList, t.undo) /\ d.redoList = t.redoList /\ Heard(TextOf(t), d) = TextOf(d)
  BY <1>1, <1>5 DEF Reversed, Serves, Told, Unrecorded
<1>7. /\ Good(r) /\ TextOf(r) = TextOf(d) /\ (\A m : Heard(m, r) = Heard(m, d))
      /\ Unrecorded(d, r) /\ r.canUndo = d.canUndo /\ r.locked = FALSE
  <2> DEFINE v == FALSE
  <2>1. v \in BOOLEAN /\ Good(d) /\ r = [d EXCEPT !.locked = v]
    BY <1>4, <1>6
  <2>2. v = FALSE
    OBVIOUS
  <2> HIDE DEF v
  <2> QED
    BY <2>1, <2>2, LockFacts
<1> QED
  BY <1>6, <1>7, <1>f DEF Reversed, Serves, Told, Unrecorded
-----------------------------------------------------------------------------
(* text(t), canUndo() and the end of a member function *)

LEMMA SetTextFacts ==
  ASSUME NEW t, Good(t), NEW txt \in Strings, NEW r, r = SetText(t, txt)
  PROVE  /\ Serves(t, r) /\ TextOf(r) = txt
         /\ t.canUndo => r.undo = EmptyAction /\ r.undoList = <<>> /\ r.redoList = <<>>
         /\ ~t.canUndo => Unrecorded(t, r)
<1> DEFINE n == Len(txt)
           old == TextOf(t)
           buf == txt \o Fill(PreferredGap)
           ge == n + PreferredGap
           sel == Update(t.sel, 0, t.length, 0)
           c == [pos |-> 0, nDeleted |-> Len(old), nInserted |-> n, deleted |-> old]
           set == [t EXCEPT !.buf = buf, !.length = n, !.gapStart = n, !.gapEnd = ge, !.sel = sel, !.call = c]
<1>0. PreferredGap \in Nat /\ n \in Nat /\ ge \in Nat
  BY TextBufferAssumption DEF Strings
<1>1. t \in Buffers /\ GapOK(t) /\ t.length \in Nat /\ t.sel \in Selections /\ SelOK(t.sel, t.length)
  BY DEF Good, Buffers
<1>2. old \in Strings /\ Len(old) = t.length
  BY <1>1, TextFacts
<1>3. buf \in Strings /\ Len(buf) = n + PreferredGap /\ \A i \in 1 .. n : buf[i] = txt[i]
  <2>1. Fill(PreferredGap) \in Strings /\ Len(Fill(PreferredGap)) = PreferredGap
    BY <1>0, FillFacts
  <2>2. /\ buf \in Strings /\ Len(buf) = Len(txt) + Len(Fill(PreferredGap))
        /\ \A i \in 1 .. Len(txt) + Len(Fill(PreferredGap)) :
             buf[i] = IF i <= Len(txt) THEN txt[i] ELSE Fill(PreferredGap)[i - Len(txt)]
    BY <2>1, ConcatFacts DEF Strings
  <2> QED
    BY <1>0, <2>1, <2>2
<1>4. sel \in Selections /\ ~sel.selected
  <2>1. CASE ~t.sel.selected
    <3>1. sel = t.sel
      BY <2>1 DEF Update
    <3> QED
      BY <1>1, <2>1, <3>1
  <2>2. CASE t.sel.selected
    <3>1. 0 <= t.sel.start /\ t.sel.start < t.sel.end /\ t.sel.end <= t.length /\ t.sel.start \in Int /\ t.sel.end \in Int
      BY <1>1, <2>2 DEF SelOK, Selections
    <3>2. Updated(sel, t.sel.start, t.sel.end, 0, t.length, 0)
      BY <1>1, <2>2, <3>1, UpdateCases
    <3> HIDE DEF sel
    <3>3. Deselected(sel, 0, 0)
      BY <1>1, <3>1, <3>2 DEF Updated
    <3> QED
      BY <3>3, DeselectedFacts
  <2> QED
    BY <2>1, <2>2
<1>5. c \in Calls
  BY <1>0, <1>1, <1>2 DEF Calls
<1>6. r = IF ~t.canUndo THEN set
          ELSE [set EXCEPT !.undo = EmptyAction, !.undoList = <<>>, !.redoList = <<>>]
  BY DEF SetText, Notify
<1>c. c.pos = 0 /\ c.nDeleted = Len(old) /\ c.nInserted = n /\ c.deleted = old
  OBVIOUS
<1> HIDE DEF n, old, buf, ge, sel, c
<1>7. /\ r \in Buffers /\ r.buf = buf /\ r.length = n /\ r.gapStart = n /\ r.gapEnd = ge
      /\ r.sel = sel /\ r.call = c /\ r.canUndo = t.canUndo /\ r.locked = t.locked
      /\ t.canUndo => r.undo = EmptyAction /\ r.undoList = <<>> /\ r.redoList = <<>>
      /\ ~t.canUndo => Unrecorded(t, r)
  <2>1. /\ set \in Buffers /\ set.buf = buf /\ set.length = n /\ set.gapStart = n /\ set.gapEnd = ge
        /\ set.sel = sel /\ set.call = c /\ set.canUndo = t.canUndo /\ set.locked = t.locked
        /\ Unrecorded(t, set)
    BY <1>0, <1>1, <1>3, <1>4, <1>5 DEF Buffers, Unrecorded
  <2> HIDE DEF set
  <2>2. CASE ~t.canUndo
    BY <1>6, <2>1, <2>2
  <2>3. CASE t.canUndo
    <3>1. EmptyAction \in Actions /\ <<>> \in Seq(Actions) /\ r = [set EXCEPT !.undo = EmptyAction, !.undoList = <<>>, !.redoList = <<>>]
      BY <1>6, <2>3, EmptyActionFacts
    <3> QED
      BY <2>1, <2>3, <3>1 DEF Buffers
  <2> QED
    BY <2>2, <2>3
<1>8. GapOK(r) /\ Gap(r) = PreferredGap
  <2>1. r.gapEnd = r.gapStart + PreferredGap /\ Layout(r.buf, r.gapStart, PreferredGap, r.length)
    BY <1>0, <1>3, <1>7 DEF Layout, ge
  <2> QED
    BY <1>0, <1>7, <2>1, LayoutIs
<1>9. TextOf(r) = txt
  <2>1. \A i \in 1 .. n : Place(i, n, PreferredGap) = i
    BY <1>0 DEF Place
  <2>2. Layout(buf, n, PreferredGap, n) /\ txt \in Strings /\ Len(txt) = n
    BY <1>0, <1>3 DEF Layout, n
  <2>3. Reads(buf, n, PreferredGap, n, txt)
    BY <1>3, <2>1, <2>2 DEF Reads
  <2> QED
    BY <1>7, <1>8, <2>3, ReadsIs
<1>10. Good(r)
  BY <1>4, <1>7, <1>8 DEF Good, SelOK
<1>11. Heard(old, r) = txt
  <2>1. SubSeq(old, 0 + 1, 0 + Len(old)) = old /\ SubSeq(txt, 0 + 1, 0 + n) = txt /\ SubSeq(old, 1, 0) = <<>> /\ SubSeq(old, 0 + Len(old) + 1, Len(old)) = <<>>
    <3>1. 0 + 1 = 1 /\ 0 + n = n /\ n = Len(txt) /\ 0 + Len(old) = Len(old) /\ Len(old) + 1 > Len(old)
      BY <1>0, <1>1, <1>2 DEF n
    <3>2. SubSeq(old, 1, Len(old)) = old /\ SubSeq(txt, 1, n) = txt /\ SubSeq(old, 1, 0) = <<>> /\ SubSeq(old, Len(old) + 1, Len(old)) = <<>>
      BY <1>2, <3>1 DEF Strings
    <3> QED
      BY <3>1, <3>2
  <2>2. text_range(r, 0, 0 + n) = txt
    <3>1. 0 \in Nat /\ 0 + n \in Nat /\ 0 <= 0 + n /\ 0 + n <= r.length
      BY <1>0, <1>7
    <3>2. text_range(r, 0, 0 + n) = SubSeq(TextOf(r), 0 + 1, 0 + n)
      BY <1>7, <1>8, <3>1, RangeOf
    <3> QED
      BY <1>9, <2>1, <3>2
  <2>3. /\ r.call = c /\ c.pos = 0 /\ c.nDeleted = Len(old) /\ c.nInserted = n /\ c.deleted = old
    BY <1>7, <1>c
  <2>4. Heard(old, r) = SubSeq(old, 1, 0) \o text_range(r, 0, 0 + n) \o SubSeq(old, 0 + Len(old) + 1, Len(old))
    BY <2>1, <2>3, Zenon DEF Heard
  <2>5. Heard(old, r) = <<>> \o txt \o <<>>
    BY <2>1, <2>2, <2>4
  <2> QED
    BY <2>5 DEF Strings
<1> QED
  BY <1>7, <1>9, <1>10, <1>11 DEF Serves, Told, old

LEMMA SetCanUndoFacts ==
  ASSUME NEW t, Good(t), NEW flag \in BOOLEAN, NEW r, r = SetCanUndo(t, flag)
  PROVE  /\ Good(r) /\ TextOf(r) = TextOf(t) /\ (\A m : Heard(m, r) = Heard(m, t))
         /\ r.canUndo = flag /\ r.locked = t.locked
         /\ flag \/ ~t.canUndo => Unrecorded(t, r)
         /\ ~(flag \/ ~t.canUndo) => r.undo = EmptyAction /\ r.undoList = <<>> /\ r.redoList = <<>>
<1>1. EmptyAction \in Actions /\ <<>> \in Seq(Actions)
  BY EmptyActionFacts
<1>2. /\ SameBytes(t, r) /\ r.canUndo = flag /\ r.locked = t.locked
      /\ flag \/ ~t.canUndo => Unrecorded(t, r)
      /\ ~(flag \/ ~t.canUndo) => r.undo = EmptyAction /\ r.undoList = <<>> /\ r.redoList = <<>>
  <2>1. CASE flag \/ ~t.canUndo
    <3>1. r = [t EXCEPT !.canUndo = flag]
      BY <2>1 DEF SetCanUndo
    <3> QED
      BY <2>1, <3>1 DEF Good, Buffers, SameBytes, Unrecorded
  <2>2. CASE ~(flag \/ ~t.canUndo)
    <3>1. r = [t EXCEPT !.canUndo = FALSE, !.undo = EmptyAction, !.undoList = <<>>, !.redoList = <<>>] /\ flag = FALSE
      BY <2>2 DEF SetCanUndo
    <3> QED
      BY <1>1, <2>2, <3>1 DEF Good, Buffers, SameBytes
  <2> QED
    BY <2>1, <2>2
<1> QED
  BY <1>2, BytesText
-----------------------------------------------------------------------------
(* What can be redone *)

LEMMA AheadNone ==
  ASSUME NEW R \in Seq(Actions), NEW u, NEW s
  PROVE  Ahead(R, u, <<>>, s)
<1>1. Len(<<>>) = 0 /\ Len(R) \in Nat /\ 1 .. 0 = {}
  OBVIOUS
<1> QED
  BY <1>1 DEF Ahead

\* Only where the current event ends, and what it cut and inserted, matters.
LEMMA AheadSame ==
  ASSUME NEW R, NEW u, NEW x, NEW F, NEW s, Ahead(R, u, F, s),
         x.at = u.at, x.cut = u.cut, x.insert = u.insert
  PROVE  Ahead(R, x, F, s)
<1>1. ASSUME NEW r, NoJoin(u, r)
      PROVE  NoJoin(x, r)
  BY <1>1 DEF NoJoin, Empty
<1> QED
  BY <1>1 DEF Ahead

\* The last event on the list is the next to be redone.
LEMMA AheadStep ==
  ASSUME NEW R \in Seq(Actions), NEW x \in Actions, NEW u, NEW F \in Seq(Strings),
         NEW f \in Strings, NEW s \in Strings
  PROVE  Ahead(Append(R, x), u, Append(F, f), s) <=>
           Leads(x, s, f) /\ NoJoin(u, x) /\ Ahead(R, Inv(x, s), F, f)
<1> DEFINE R2 == Append(R, x)
           F2 == Append(F, f)
           Y2 == Append(F2, s)
           n == Len(F)
           o == Len(R) - n
           v == Inv(x, s)
           Each(j) == /\ Leads(R2[o + j], Y2[j + 1], Y2[j])
                      /\ NoJoin(IF j = n + 1 THEN u ELSE Inv(R2[o + j + 1], Y2[j + 2]), R2[o + j])
           Was(j)  == /\ Leads(R[o + j], F2[j + 1], F2[j])
                      /\ NoJoin(IF j = n THEN v ELSE Inv(R[o + j + 1], F2[j + 2]), R[o + j])
<1>1. /\ Len(R) \in Nat /\ n \in Nat /\ Len(R2) = Len(R) + 1 /\ Len(F2) = n + 1
      /\ R2[Len(R) + 1] = x /\ (\A i \in 1 .. Len(R) : R2[i] = R[i])
      /\ F2[n + 1] = f /\ (\A i \in 1 .. n : F2[i] = F[i])
      /\ Y2[n + 2] = s /\ (\A i \in 1 .. n + 1 : Y2[i] = F2[i])
  OBVIOUS
<1>2. Len(R2) - Len(F2) = o
  BY <1>1
<1>3. Ahead(R2, u, F2, s) <=> n + 1 <= Len(R) + 1 /\ \A j \in 1 .. n + 1 : Each(j)
  BY <1>1, <1>2 DEF Ahead
<1>4. Ahead(R, v, F, f) <=> n <= Len(R) /\ \A j \in 1 .. n : Was(j)
  BY DEF Ahead
<1> HIDE DEF R2, F2, Y2, v
<1>p. n + 1 <= Len(R) + 1 <=> n <= Len(R)
  BY <1>1
<1>e. (Ahead(Append(R, x), u, Append(F, f), s) <=> Ahead(R2, u, F2, s)) /\ (Ahead(R, Inv(x, s), F, f) <=> Ahead(R, v, F, f))
  BY DEF R2, F2, v
<1>5. SUFFICES ASSUME n <= Len(R)
               PROVE  (\A j \in 1 .. n + 1 : Each(j)) <=> Leads(x, s, f) /\ NoJoin(u, x) /\ \A j \in 1 .. n : Was(j)
  <2> DEFINE All == \A j \in 1 .. n + 1 : Each(j)
             Rest == \A j \in 1 .. n : Was(j)
  <2>1. Ahead(R2, u, F2, s) <=> n + 1 <= Len(R) + 1 /\ All
    BY <1>3
  <2>2. Ahead(R, v, F, f) <=> n <= Len(R) /\ Rest
    BY <1>4
  <2>3. n <= Len(R) => (All <=> Leads(x, s, f) /\ NoJoin(u, x) /\ Rest)
    BY <1>5
  <2> HIDE DEF All, Rest
  <2> QED
    BY <1>p, <1>e, <2>1, <2>2, <2>3
<1>6. o \in Nat /\ o + n = Len(R)
  BY <1>1, <1>5
<1>7. Each(n + 1) <=> Leads(x, s, f) /\ NoJoin(u, x)
  <2>1. o + (n + 1) = Len(R) + 1 /\ (n + 1) + 1 = n + 2 /\ n + 1 \in 1 .. n + 1
    BY <1>1, <1>6
  <2>2. R2[o + (n + 1)] = x /\ Y2[(n + 1) + 1] = s /\ Y2[n + 1] = f
    BY <1>1, <2>1
  <2> QED
    BY <2>2
<1>8. ASSUME NEW j \in 1 .. n
      PROVE  Each(j) <=> Was(j)
  <2>1. /\ o + j \in 1 .. Len(R) /\ j + 1 \in 1 .. n + 1 /\ j \in 1 .. n + 1 /\ j # n + 1
        /\ (j = n => o + j + 1 = Len(R) + 1 /\ j + 2 = n + 2)
        /\ (j # n => o + j + 1 \in 1 .. Len(R) /\ j + 2 \in 1 .. n + 1)
    BY <1>1, <1>6
  <2>2. R2[o + j] = R[o + j] /\ Y2[j + 1] = F2[j + 1] /\ Y2[j] = F2[j]
    BY <1>1, <2>1
  <2>3. CASE j = n
    <3>1. R2[o + j + 1] = x /\ Y2[j + 2] = s
      BY <1>1, <2>1, <2>3
    <3> QED
      BY <2>1, <2>2, <2>3, <3>1 DEF v
  <2>4. CASE j # n
    <3>1. R2[o + j + 1] = R[o + j + 1] /\ Y2[j + 2] = F2[j + 2]
      BY <1>1, <2>1, <2>4
    <3> QED
      BY <2>1, <2>2, <2>4, <3>1
  <2> QED
    BY <2>3, <2>4
<1> HIDE DEF Each, Was
<1>9. (\A j \in 1 .. n + 1 : Each(j)) <=> Each(n + 1) /\ \A j \in 1 .. n : Each(j)
  <2>1. n + 1 \in 1 .. n + 1 /\ \A j : j \in 1 .. n + 1 <=> j \in 1 .. n \/ j = n + 1
    BY <1>1
  <2> QED
    BY <2>1, Zenon
<1> QED
  BY <1>7, <1>8, <1>9
-----------------------------------------------------------------------------
(* A member function returns *)

\* The inductive invariant, of a buffer, a listener and a history.
View(x, m, P, F) ==
  /\ Good(x) /\ ~x.locked /\ x.call = NoCall /\ m = TextOf(x)
  /\ Tale(x, P) /\ F \in Seq(Strings) /\ Ahead(x.redoList, x.undo, F, TextOf(x))
  /\ ~x.canUndo => P = <<>> /\ F = <<>>

LEMMA InvIsView == IInv <=> View(b, mirror, past, future)
BY DEF IInv, View, Good, Tale

LEMMA NextInvIsView == IInv' <=> View(b', mirror', past', future')
BY DEF IInv, View, Good, Tale

LEMMA NoCallFacts ==
  ASSUME NEW t, Good(t), t.call = NoCall
  PROVE  Told(t, t)
<1> DEFINE txt == TextOf(t)
<1>1. txt \in Strings /\ Len(txt) \in Nat /\ t.length \in Nat
  BY TextFacts, GapFacts DEF Good, Strings
<1>2. SubSeq(txt, 0 + 1, 0 + 0) = <<>> /\ SubSeq(txt, 1, 0) = <<>> /\ SubSeq(txt, 0 + 0 + 1, Len(txt)) = txt
  BY <1>1 DEF Strings
<1>3. text_range(t, 0, 0 + 0) = <<>>
  <2>1. 0 \in Nat /\ 0 + 0 \in Nat /\ 0 <= 0 + 0 /\ 0 + 0 <= t.length
    BY <1>1
  <2>2. text_range(t, 0, 0 + 0) = SubSeq(txt, 0 + 1, 0 + 0)
    BY <2>1, RangeOf DEF Good
  <2> QED
    BY <1>2, <2>2
<1>4. t.call.pos = 0 /\ t.call.nDeleted = 0 /\ t.call.nInserted = 0 /\ t.call.deleted = <<>>
  BY DEF NoCall
<1>5. Heard(txt, t) = SubSeq(txt, 1, 0) \o text_range(t, 0, 0 + 0) \o SubSeq(txt, 0 + 0 + 1, Len(txt))
  <2>1. SubSeq(txt, 0 + 1, 0 + 0) = <<>>
    BY <1>2
  <2> HIDE DEF txt
  <2> QED
    BY <1>4, <2>1, Zenon DEF Heard
<1>6. Heard(txt, t) = <<>> \o <<>> \o txt
  BY <1>2, <1>3, <1>5
<1> QED
  BY <1>1, <1>6 DEF Told, Strings

LEMMA BecomeFacts ==
  ASSUME NEW t, Good(t), Become(t)
  PROVE  /\ Good(b') /\ TextOf(b') = TextOf(t) /\ Unrecorded(t, b') /\ b'.canUndo = t.canUndo
         /\ b'.locked = t.locked /\ b'.call = NoCall /\ mirror' = Heard(mirror, t)
<1> DEFINE x == IF t.sel.selected THEN t.sel ELSE Unselected
           c == NoCall
           m == [t EXCEPT !.sel = x]
<1>1. x \in Selections /\ SelOK(x, t.length) /\ c \in Calls
  <2>1. Unselected \in Selections /\ ~Unselected.selected
    BY DEF Unselected, Selections
  <2>2. t.sel \in Selections /\ SelOK(t.sel, t.length)
    BY DEF Good, Buffers
  <2>3. c \in Calls
    BY DEF NoCall, Calls, Strings
  <2> QED
    BY <2>1, <2>2, <2>3 DEF SelOK
<1>2. b' = [t EXCEPT !.call = c, !.sel = x] /\ mirror' = Heard(mirror, t)
  BY DEF Become
<1> HIDE DEF x, c
<1>3. Good(m) /\ TextOf(m) = TextOf(t) /\ Unrecorded(t, m) /\ m.canUndo = t.canUndo /\ m.locked = t.locked
  BY <1>1, Reselected
<1>4. b' = [m EXCEPT !.call = c]
  BY <1>2 DEF Good, Buffers
<1> HIDE DEF m
<1>5. /\ b' \in Buffers /\ b'.buf = m.buf /\ b'.gapStart = m.gapStart /\ b'.gapEnd = m.gapEnd
      /\ b'.length = m.length /\ b'.sel = m.sel /\ b'.call = c /\ Unrecorded(m, b')
      /\ b'.canUndo = m.canUndo /\ b'.locked = m.locked
  BY <1>1, <1>3, <1>4 DEF Good, Buffers, Unrecorded
<1>6. GapOK(b') /\ TextOf(b') = TextOf(m)
  BY <1>3, <1>5 DEF Good, GapOK, Gap, TextOf
<1> QED
  BY <1>2, <1>3, <1>5, <1>6 DEF Good, Unrecorded, c

LEMMA ReturnFacts ==
  ASSUME IInv, NEW t, Good(t), Become(t), ~t.locked, Told(b, t), NEW P, Tale(t, P),
         NEW F \in Seq(Strings), Ahead(t.redoList, t.undo, F, TextOf(t)),
         ~t.canUndo => P = <<>> /\ F = <<>>
  PROVE  View(b', mirror', P, F) /\ TextOf(b') = TextOf(t) /\ b'.canUndo = t.canUndo
<1>1. /\ Good(b') /\ TextOf(b') = TextOf(t) /\ Unrecorded(t, b') /\ b'.canUndo = t.canUndo
      /\ b'.locked = t.locked /\ b'.call = NoCall /\ mirror' = Heard(mirror, t)
  BY BecomeFacts
<1>2. mirror' = TextOf(b')
  BY <1>1 DEF IInv, Told
<1>3. Tale(b', P)
  BY <1>1, TaleSame
<1>4. Ahead(b'.redoList, b'.undo, F, TextOf(b'))
  BY <1>1 DEF Unrecorded
<1> QED
  BY <1>1, <1>2, <1>3, <1>4 DEF View
-----------------------------------------------------------------------------
(* The actions keep the invariant, and walk through the history *)

LEMMA TextsAreStrings ==
  ASSUME NEW x \in Texts
  PROVE  x \in Strings
<1>1. x \in Seq(Bytes)
  BY TextBufferAssumption
<1>2. Len(x) \in Nat /\ DOMAIN x = 1 .. Len(x) /\ \A i \in 1 .. Len(x) : x[i] \in Bytes
  BY <1>1
<1>3. x = [i \in 1 .. Len(x) |-> x[i]]
  BY <1>1, <1>2
<1>4. x \in [1 .. Len(x) -> Chars]
  BY <1>2, <1>3 DEF Chars
<1> QED
  BY <1>2, <1>4, FunctionIsSeq DEF Strings

\* An edit of some bytes.
LEMMA EditedFacts ==
  ASSUME IInv, NEW p, NEW q, NEW ins, NEW t, Changes(b, t, past, p, q, ins), Edited(t)
  PROVE  IInv' /\ History!Edit(p, q, ins)
<1>1. /\ Good(b) /\ ~b.locked /\ Tale(b, past) /\ past \in Seq(Strings) /\ TextOf(b) \in Strings
      /\ future \in Seq(Strings) /\ (~b.canUndo => past = <<>> /\ future = <<>>) /\ mirror = TextOf(b)
  BY InvIsView, TextFacts DEF View, Good, Tale
<1>2. /\ Good(t) /\ t.canUndo = b.canUndo /\ ~t.locked /\ Told(b, t) /\ Recorded(b, t, past)
      /\ TextOf(t) = Splice(TextOf(b), p, q, ins)
  BY <1>1 DEF Changes, Serves
<1>3. /\ Become(t) /\ past' = (IF Events(t) > Events(b) THEN Append(past, TextOf(b)) ELSE past)
      /\ future' = (IF t.undo = b.undo /\ t.undoList = b.undoList THEN future ELSE <<>>)
  BY DEF Edited
<1>4. future' = <<>>
  BY <1>1, <1>2, <1>3 DEF Recorded
<1>5. PICK Q : /\ Tale(t, Q)
               /\ Q = past \/ (b.canUndo /\ Q = Append(past, TextOf(b)))
  BY <1>2 DEF Recorded
<1>6. Events(t) = Len(Q) /\ Events(b) = Len(past)
  BY <1>1, <1>2, <1>5, TaleEvents DEF Good
<1>7. past' = Q
  <2>1. Len(Append(past, TextOf(b))) > Len(past) /\ ~(Len(past) > Len(past))
    BY <1>1
  <2>2. CASE Q = past
    BY <1>3, <1>6, <2>1, <2>2
  <2>3. CASE Q = Append(past, TextOf(b))
    BY <1>3, <1>6, <2>1, <2>3
  <2> QED
    BY <1>5, <2>2, <2>3
<1>8. b.canUndo => Q # <<>>
  BY <1>2, <1>5, TaleFacts DEF Recorded, Good
<1>9. Ahead(t.redoList, t.undo, <<>>, TextOf(t))
  BY <1>2, AheadNone DEF Good, Buffers
<1>10. ~t.canUndo => Q = <<>> /\ <<>> = <<>>
  BY <1>1, <1>2, <1>5
<1>11. <<>> \in Seq(Strings)
  OBVIOUS
<1>12. View(b', mirror', Q, <<>>) /\ TextOf(b') = TextOf(t) /\ b'.canUndo = t.canUndo
  <2> DEFINE z == <<>>
  <2>1. z \in Seq(Strings) /\ Ahead(t.redoList, t.undo, z, TextOf(t)) /\ (~t.canUndo => Q = <<>> /\ z = <<>>)
    BY <1>9, <1>10, <1>11
  <2> HIDE DEF z
  <2>2. View(b', mirror', Q, z) /\ TextOf(b') = TextOf(t) /\ b'.canUndo = t.canUndo
    BY <1>2, <1>3, <1>5, <2>1, ReturnFacts
  <2> QED
    BY <2>2 DEF z
<1>13. IInv'
  BY <1>4, <1>7, <1>12, NextInvIsView
<1>14. \/ ~b.canUndo /\ past' = past
       \/ b.canUndo /\ past' = Append(past, TextOf(b))
       \/ b.canUndo /\ past # <<>> /\ past' = past
  BY <1>5, <1>7, <1>8
<1>15. TextOf(b') = Splice(TextOf(b), p, q, ins) /\ b'.canUndo = b.canUndo
  BY <1>2, <1>12
<1>16. History!Edit(p, q, ins)
  BY <1>4, <1>14, <1>15 DEF History!Edit, History!Splice, Splice
<1> QED
  BY <1>13, <1>16

\* No edit at all.
LEMMA EditedNothing ==
  ASSUME IInv, Edited(b)
  PROVE  IInv' /\ UNCHANGED <<TextOf(b), past, future, b.canUndo>>
<1>1. View(b, mirror, past, future)
  BY InvIsView
<1>2. Events(b) \in Int
  <2>1. Events(b) = Len(past) /\ past \in Seq(Strings)
    BY <1>1, TaleEvents DEF View, Good, Tale
  <2> QED
    BY <2>1
<1>3. Become(b) /\ past' = past /\ future' = future
  BY <1>2 DEF Edited
<1>4. Told(b, b)
  BY <1>1, NoCallFacts DEF View
<1>5. View(b', mirror', past, future) /\ TextOf(b') = TextOf(b) /\ b'.canUndo = b.canUndo
  BY <1>1, <1>3, <1>4, ReturnFacts DEF View
<1>6. IInv'
  BY <1>3, <1>5, NextInvIsView
<1> QED
  BY <1>3, <1>5, <1>6

\* Some edit of the text.
EditStep ==
  \E p, q \in 0 .. Len(TextOf(b)), x \in Texts \union {<<>>} : p <= q /\ History!Edit(p, q, x)

LEMMA EditStepBy ==
  ASSUME NEW p \in Nat, NEW q \in Nat, p <= q, q <= Len(TextOf(b)), Len(TextOf(b)) \in Nat,
         NEW x \in Texts \union {<<>>}, History!Edit(p, q, x)
  PROVE  EditStep
<1>1. p \in 0 .. Len(TextOf(b)) /\ q \in 0 .. Len(TextOf(b))
  OBVIOUS
<1> QED
  BY <1>1 DEF EditStep

LEMMA HereFacts ==
  ASSUME IInv
  PROVE  /\ Good(b) /\ Tale(b, past) /\ (~b.canUndo => past = <<>>)
         /\ b.length \in Nat /\ TextOf(b) \in Strings /\ Len(TextOf(b)) = b.length
BY InvIsView, TextFacts, GapFacts DEF View, Good

LEMMA InsertStep ==
  ASSUME IInv, Insert
  PROVE  IInv' /\ (EditStep \/ UNCHANGED <<TextOf(b), past, future, b.canUndo>>)
<1>1. PICK pos \in 0 .. b.length, x \in Texts : Edited(insert(b, pos, x))
  BY DEF Insert, Positions
<1>2. /\ Good(b) /\ Tale(b, past) /\ (~b.canUndo => past = <<>>)
      /\ b.length \in Nat /\ TextOf(b) \in Strings /\ Len(TextOf(b)) = b.length
  BY HereFacts
<1>3. x \in Strings /\ pos \in Nat /\ pos <= b.length
  BY <1>2, TextsAreStrings
<1>4. CASE x = <<>>
  <2>1. insert(b, pos, x) = b
    BY <1>4 DEF insert
  <2> QED
    BY <1>1, <2>1, EditedNothing
<1>5. CASE x # <<>>
  <2>1. Changes(b, insert(b, pos, x), past, pos, pos, x)
    BY <1>2, <1>3, <1>5, InsertChanges
  <2>2. IInv' /\ History!Edit(pos, pos, x)
    BY <1>1, <2>1, EditedFacts
  <2> QED
    BY <1>2, <1>3, <2>2, EditStepBy
<1> QED
  BY <1>4, <1>5

LEMMA DeleteStep ==
  ASSUME IInv, Delete
  PROVE  IInv' /\ EditStep
<1>1. PICK s \in 0 .. b.length, e \in 0 .. b.length : s # e /\ Edited(remove(b, s, e))
  BY DEF Delete, Positions
<1>2. /\ Good(b) /\ Tale(b, past) /\ (~b.canUndo => past = <<>>)
      /\ b.length \in Nat /\ TextOf(b) \in Strings /\ Len(TextOf(b)) = b.length
  BY HereFacts
<1>3. ASSUME NEW lo \in Nat, NEW hi \in Nat, lo < hi, hi <= b.length, Edited(remove(b, lo, hi))
      PROVE  IInv' /\ EditStep
  <2> DEFINE z == <<>>
  <2>1. Changes(b, remove(b, lo, hi), past, lo, hi, z)
    BY <1>2, <1>3, RemoveChanges
  <2>2. z \in Texts \union {<<>>} /\ lo <= hi
    BY <1>3
  <2> HIDE DEF z
  <2>3. IInv' /\ History!Edit(lo, hi, z)
    BY <1>3, <2>1, EditedFacts
  <2> QED
    BY <1>2, <1>3, <2>2, <2>3, EditStepBy
<1>4. CASE s < e
  BY <1>1, <1>2, <1>3, <1>4
<1>5. CASE e < s
  <2>1. remove(b, s, e) = remove(b, e, s)
    BY <1>2, <1>5, RemoveCall
  <2> QED
    BY <1>1, <1>2, <1>3, <1>5, <2>1
<1> QED
  BY <1>1, <1>2, <1>4, <1>5

LEMMA ReplaceStep ==
  ASSUME IInv, Replace
  PROVE  IInv' /\ EditStep
<1>1. PICK s \in 0 .. b.length, e \in 0 .. b.length, x \in Texts : s < e /\ Edited(replace(b, s, e, x))
  BY DEF Replace, Positions
<1>2. /\ Good(b) /\ Tale(b, past) /\ (~b.canUndo => past = <<>>)
      /\ b.length \in Nat /\ TextOf(b) \in Strings /\ Len(TextOf(b)) = b.length
  BY HereFacts
<1>3. x \in Strings /\ s \in Nat /\ e \in Nat /\ e <= b.length /\ s < e /\ s <= e
  BY <1>1, <1>2, TextsAreStrings
<1>4. Changes(b, replace(b, s, e, x), past, s, e, x)
  BY <1>2, <1>3, ReplaceChanges
<1>5. IInv' /\ History!Edit(s, e, x)
  BY <1>1, <1>4, EditedFacts
<1> QED
  BY <1>2, <1>3, <1>5, EditStepBy

LEMMA EditSelectionStep ==
  ASSUME IInv, EditSelection
  PROVE  IInv' /\ (EditStep \/ UNCHANGED <<TextOf(b), past, future, b.canUndo>>)
<1>1. /\ Good(b) /\ Tale(b, past) /\ (~b.canUndo => past = <<>>)
      /\ b.length \in Nat /\ TextOf(b) \in Strings /\ Len(TextOf(b)) = b.length
  BY HereFacts
<1>2. CASE ~b.sel.selected
  <2>1. RemoveSelection(b) = b /\ \A x : ReplaceSelection(b, x) = b
    BY <1>2 DEF RemoveSelection, ReplaceSelection
  <2>2. Edited(b)
    BY <2>1 DEF EditSelection
  <2> QED
    BY <2>2, EditedNothing
<1>3. CASE b.sel.selected
  <2> DEFINE s == b.sel.start
             e == b.sel.end
  <2>1. s \in Nat /\ e \in Nat /\ s < e /\ e <= b.length /\ s <= e
    BY <1>1, <1>3 DEF Good, SelOK, Buffers, Selections
  <2>2. RemoveSelection(b) = remove(b, s, e)
    BY <1>3 DEF RemoveSelection
  <2>3. \A x : ReplaceSelection(b, x) = [replace(b, s, e, x) EXCEPT !.sel.selected = FALSE]
    BY <1>3 DEF ReplaceSelection
  <2> HIDE DEF s, e
  <2>4. CASE Edited(RemoveSelection(b))
    <3> DEFINE z == <<>>
    <3>1. Changes(b, remove(b, s, e), past, s, e, z)
      BY <1>1, <2>1, RemoveChanges
    <3>2. z \in Texts \union {<<>>}
      OBVIOUS
    <3> HIDE DEF z
    <3>3. IInv' /\ History!Edit(s, e, z)
      BY <2>2, <2>4, <3>1, EditedFacts
    <3> QED
      BY <1>1, <2>1, <3>2, <3>3, EditStepBy
  <2>5. CASE \E x \in Texts : Edited(ReplaceSelection(b, x))
    <3>1. PICK x \in Texts : Edited(ReplaceSelection(b, x))
      BY <2>5
    <3> DEFINE m == replace(b, s, e, x)
               v == [m.sel EXCEPT !.selected = FALSE]
               r == [m EXCEPT !.sel = v]
    <3>2. x \in Strings
      BY TextsAreStrings
    <3>3. Changes(b, m, past, s, e, x)
      BY <1>1, <2>1, <3>2, ReplaceChanges
    <3>4. ReplaceSelection(b, x) = r
      BY <2>3
    <3> HIDE DEF m
    <3>5. m.sel \in Selections
      BY <3>3 DEF Changes, Serves, Good, Buffers
    <3>6. v \in Selections /\ ~v.selected
      BY <3>5 DEF Selections
    <3> HIDE DEF v
    <3>7. Changes(b, r, past, s, e, x)
      BY <3>3, <3>6, ReselectedChanges
    <3> HIDE DEF r
    <3>8. IInv' /\ History!Edit(s, e, x)
      BY <3>1, <3>4, <3>7, EditedFacts
    <3> QED
      BY <1>1, <2>1, <3>8, EditStepBy
  <2> QED
    BY <2>4, <2>5 DEF EditSelection
<1> QED
  BY <1>2, <1>3

LEMMA ResetStep ==
  ASSUME IInv, Reset
  PROVE  IInv' /\ \E x \in Texts : History!SetText(x)
<1>1. PICK x \in Texts : Become(SetText(b, x)) /\ past' = <<>> /\ future' = <<>>
  BY DEF Reset
<1> DEFINE t == SetText(b, x)
           z == <<>>
<1>2. /\ Good(b) /\ Tale(b, past) /\ (~b.canUndo => past = <<>>) /\ ~b.locked
  BY InvIsView DEF View
<1>3. /\ Serves(b, t) /\ TextOf(t) = x
      /\ b.canUndo => t.undo = EmptyAction /\ t.undoList = <<>> /\ t.redoList = <<>>
      /\ ~b.canUndo => Unrecorded(b, t)
  BY <1>2, TextsAreStrings, SetTextFacts
<1> HIDE DEF t
<1>4. Good(t) /\ t.canUndo = b.canUndo /\ ~t.locked /\ Told(b, t)
  BY <1>2, <1>3 DEF Serves
<1>5. Tale(t, z)
  <2>1. CASE b.canUndo
    <3>1. Empty(t.undo) /\ t.undoList = <<>>
      BY <1>3, <2>1, EmptyActionFacts DEF Empty
    <3> QED
      BY <1>4, <3>1, TaleNone DEF Good
  <2>2. CASE ~b.canUndo
    <3>1. Tale(t, past)
      BY <1>2, <1>3, <1>4, <2>2, TaleOff DEF Good
    <3> QED
      BY <1>2, <2>2, <3>1
  <2> QED
    BY <2>1, <2>2
<1>6. z \in Seq(Strings) /\ z = <<>> /\ Ahead(t.redoList, t.undo, z, TextOf(t))
  BY <1>4, AheadNone DEF Good, Buffers
<1>7. Become(t)
  BY <1>1 DEF t
<1> HIDE DEF z
<1>8. View(b', mirror', z, z) /\ TextOf(b') = TextOf(t) /\ b'.canUndo = t.canUndo
  BY <1>4, <1>5, <1>6, <1>7, ReturnFacts
<1>9. IInv'
  BY <1>1, <1>6, <1>8, NextInvIsView
<1>10. History!SetText(x)
  BY <1>1, <1>3, <1>4, <1>8 DEF History!SetText
<1> QED
  BY <1>9, <1>10

LEMMA UndoStep ==
  ASSUME IInv, Undo
  PROVE  IInv' /\ History!Undo
<1> DEFINE u == b.undo
           L == b.undoList
           R == b.redoList
           T == TextOf(b)
           h == [b EXCEPT !.undo = EmptyAction]
           d == apply_undo(h, u)
           t == undo(b)
           i == Inv(u, T)
           s == Last(past)
<1>1. /\ Good(b) /\ Tale(b, past) /\ ~b.locked /\ future \in Seq(Strings) /\ Ahead(R, u, future, T)
  BY InvIsView DEF View
<1>2. b.canUndo /\ ~Empty(u) /\ Become(t)
  BY DEF Undo, can_undo
<1>3. /\ u \in Actions /\ L \in Seq(Actions) /\ R \in Seq(Actions) /\ T \in Strings /\ past \in Seq(Strings)
      /\ L # <<>> /\ past # <<>> /\ Story(L, past)
      /\ Leads(u, T, past[Len(past)]) /\ NoJoin(L[Len(L)], i)
  BY <1>1, <1>2, TaleFacts DEF Good, Buffers
<1>4. past' = Front(past) /\ future' = Append(future, T)
  BY <1>3 DEF Undo
<1>5. /\ s = past[Len(past)] /\ s \in Strings /\ Front(past) \in Seq(Strings) /\ past = Append(Front(past), s)
      /\ Front(L) \in Seq(Actions) /\ Last(L) = L[Len(L)] /\ Last(L) \in Actions /\ L = Append(Front(L), Last(L))
  BY <1>3, FrontLast DEF Last
<1>6. /\ SameBytes(b, h) /\ h.undo = EmptyAction /\ h.undoList = L /\ h.redoList = R
      /\ h.canUndo = b.canUndo /\ h.locked = b.locked
  BY <1>1, EmptyActionFacts DEF Good, Buffers, SameBytes
<1>7. t = [d EXCEPT !.redoList = Append(@, d.undo),
                    !.undoList = IF Front(d.undoList) = <<>> THEN <<>> ELSE Front(Front(d.undoList)),
                    !.undo = IF Front(d.undoList) = <<>> THEN EmptyAction ELSE Last(Front(d.undoList))]
  BY <1>2 DEF undo
<1> HIDE DEF u, L, R, T, h, t, i, s
<1>8. Good(h) /\ TextOf(h) = T /\ \A m : Heard(m, h) = Heard(m, b)
  BY <1>1, <1>6, BytesText DEF T
<1>9. Reversed(h, u, d, s)
  <2>1. ~h.locked /\ h.canUndo
    BY <1>1, <1>2, <1>6
  <2>2. h.undo.cut <= Len(h.undo.buffer) /\ NoJoin(h.undo, u)
    BY <1>6, EmptyActionFacts DEF NoJoin, Empty
  <2>3. Leads(u, TextOf(h), s)
    BY <1>3, <1>5, <1>8
  <2> QED
    BY <1>3, <1>8, <2>1, <2>2, <2>3, ApplyFacts
<1> HIDE DEF d
<1>10. /\ Good(d) /\ d.canUndo = b.canUndo /\ d.locked = b.locked /\ Heard(T, d) = TextOf(d) /\ TextOf(d) = s
       /\ d.undo = i /\ d.undoList = Append(L, EmptyAction) /\ d.redoList = R
  BY <1>6, <1>8, <1>9 DEF Reversed, Serves, Told, i
<1>11. Front(d.undoList) = L
  <2>1. EmptyAction \in Actions
    BY EmptyActionFacts
  <2>2. Append(L, EmptyAction) \in Seq(Actions) /\ Append(L, EmptyAction) # <<>> /\ Len(Append(L, EmptyAction)) = Len(L) + 1 /\ Len(L) \in Nat
    BY <1>3, <2>1
  <2>3. Front(Append(L, EmptyAction)) = L
    <3> DEFINE M == Append(L, EmptyAction)
    <3>1. /\ Front(M) \in Seq(Actions) /\ Len(Front(M)) = Len(M) - 1
          /\ \A k \in 1 .. Len(M) - 1 : Front(M)[k] = M[k]
      BY <2>2, FrontLast
    <3>2. \A k \in 1 .. Len(L) : M[k] = L[k]
      BY <1>3, <2>1
    <3> HIDE DEF M
    <3>3. Len(M) - 1 = Len(L)
      BY <2>2 DEF M
    <3>4. Front(M) = L
      BY <1>3, <3>1, <3>2, <3>3, SeqEqual
    <3> QED
      BY <3>4 DEF M
  <2> QED
    BY <1>10, <2>3
<1>12. t = [d EXCEPT !.redoList = Append(R, i), !.undoList = Front(L), !.undo = Last(L)]
  BY <1>3, <1>7, <1>10, <1>11
<1>13. i \in Actions /\ Leads(i, s, T)
  BY <1>3, <1>5, InvLeads DEF i
<1>14. /\ SameBytes(d, t) /\ t.redoList = Append(R, i) /\ t.undoList = Front(L) /\ t.undo = Last(L)
       /\ t.canUndo = d.canUndo /\ t.locked = d.locked
  <2> DEFINE R2 == Append(R, i)
             L2 == Front(L)
             u2 == Last(L)
  <2>1. R2 \in Seq(Actions) /\ L2 \in Seq(Actions) /\ u2 \in Actions
    BY <1>3, <1>5, <1>13
  <2>2. t = [d EXCEPT !.redoList = R2, !.undoList = L2, !.undo = u2]
    BY <1>12
  <2> HIDE DEF R2, L2, u2
  <2>3. SameBytes(d, t) /\ t.redoList = R2 /\ t.undoList = L2 /\ t.undo = u2 /\ t.canUndo = d.canUndo /\ t.locked = d.locked
    BY <1>10, <2>1, <2>2 DEF Good, Buffers, SameBytes
  <2> QED
    BY <2>3 DEF R2, L2, u2
<1>15. Good(t) /\ TextOf(t) = s /\ Heard(T, t) = TextOf(t)
  BY <1>10, <1>14, BytesText
<1>16. Tale(t, Front(past))
  BY <1>3, <1>5, <1>14, <1>15 DEF Tale
<1>17. Ahead(t.redoList, t.undo, Append(future, T), TextOf(t))
  <2>1. Inv(i, s).at = u.at /\ Inv(i, s).cut = u.cut /\ Inv(i, s).insert = u.insert
    BY <1>3, <1>5, InvInv DEF i
  <2>2. Ahead(R, Inv(i, s), future, T)
    BY <1>1, <2>1, AheadSame
  <2>3. NoJoin(Last(L), i)
    BY <1>3, <1>5
  <2>4. Ahead(Append(R, i), Last(L), Append(future, T), s)
    BY <1>1, <1>3, <1>5, <1>13, <2>2, <2>3, AheadStep
  <2> QED
    BY <1>14, <1>15, <2>4
<1>18. Append(future, T) \in Seq(Strings) /\ t.canUndo /\ ~t.locked
  BY <1>1, <1>2, <1>3, <1>10, <1>14
<1>19. View(b', mirror', Front(past), Append(future, T)) /\ TextOf(b') = TextOf(t) /\ b'.canUndo = t.canUndo
  <2> DEFINE P == Front(past)
             F == Append(future, T)
  <2>1. Tale(t, P) /\ F \in Seq(Strings) /\ Ahead(t.redoList, t.undo, F, TextOf(t)) /\ Told(b, t)
    BY <1>15, <1>16, <1>17, <1>18 DEF Told, T
  <2> HIDE DEF P, F
  <2>2. View(b', mirror', P, F) /\ TextOf(b') = TextOf(t) /\ b'.canUndo = t.canUndo
    BY <1>2, <1>15, <1>18, <2>1, ReturnFacts
  <2> QED
    BY <2>2 DEF P, F
<1>20. IInv'
  BY <1>4, <1>19, NextInvIsView
<1>21. TextOf(b') = Last(past) /\ b'.canUndo = b.canUndo
  BY <1>10, <1>14, <1>15, <1>19 DEF s
<1>22. History!Undo
  BY <1>3, <1>4, <1>21 DEF History!Undo, History!Last, History!Front, Last, Front, T
<1> QED
  BY <1>20, <1>22

LEMMA RedoStep ==
  ASSUME IInv, Redo
  PROVE  IInv' /\ History!Redo
<1> DEFINE u == b.undo
           L == b.undoList
           R == b.redoList
           T == TextOf(b)
           x == Last(R)
           f == Last(future)
           h == [b EXCEPT !.redoList = Front(R)]
           t == redo(b)
<1>1. /\ Good(b) /\ Tale(b, past) /\ ~b.locked /\ future \in Seq(Strings) /\ Ahead(R, u, future, T)
  BY InvIsView DEF View
<1>2. future # <<>> /\ b.canUndo /\ R # <<>> /\ Become(t) /\ future' = Front(future) /\ past' = Append(past, T)
  BY DEF Redo, can_redo
<1>3. u \in Actions /\ L \in Seq(Actions) /\ R \in Seq(Actions) /\ T \in Strings /\ u.cut <= Len(u.buffer) /\ past \in Seq(Strings)
  BY <1>1, TaleFacts DEF Good, Buffers
<1>4. /\ x \in Actions /\ Front(R) \in Seq(Actions) /\ R = Append(Front(R), x)
      /\ f \in Strings /\ Front(future) \in Seq(Strings) /\ future = Append(Front(future), f)
  BY <1>1, <1>2, <1>3, FrontLast
<1>5. /\ SameBytes(b, h) /\ h.undo = u /\ h.undoList = L /\ h.redoList = Front(R)
      /\ h.canUndo = b.canUndo /\ h.locked = b.locked
  <2> DEFINE Q == Front(R)
  <2>1. Q \in Seq(Actions) /\ h = [b EXCEPT !.redoList = Q]
    BY <1>4
  <2> HIDE DEF Q, h
  <2>2. SameBytes(b, h) /\ h.undo = u /\ h.undoList = L /\ h.redoList = Q /\ h.canUndo = b.canUndo /\ h.locked = b.locked
    BY <1>1, <2>1 DEF Good, Buffers, SameBytes
  <2> QED
    BY <2>2 DEF Q
<1>6. t = IF Empty(x) THEN h ELSE apply_undo(h, x)
  BY <1>2 DEF redo, can_redo
<1>7. Leads(x, T, f) /\ NoJoin(u, x) /\ Ahead(Front(R), Inv(x, T), Front(future), f)
  <2> DEFINE R0 == Front(R)
             F0 == Front(future)
  <2>1. R0 \in Seq(Actions) /\ F0 \in Seq(Strings) /\ x \in Actions /\ f \in Strings /\ T \in Strings
    BY <1>3, <1>4
  <2>2. Ahead(Append(R0, x), u, Append(F0, f), T)
    BY <1>1, <1>4
  <2> HIDE DEF R0, F0, x, f, T, u
  <2>3. Leads(x, T, f) /\ NoJoin(u, x) /\ Ahead(R0, Inv(x, T), F0, f)
    BY <2>1, <2>2, AheadStep
  <2> QED
    BY <2>3 DEF R0, F0
<1> HIDE DEF u, L, R, T, x, f, h, t
<1>8. Good(h) /\ TextOf(h) = T
  BY <1>1, <1>5, BytesText DEF T
<1>9. t = apply_undo(h, x)
  BY <1>6, <1>7 DEF Leads
<1>10. Reversed(h, x, t, f)
  <2>1. ~h.locked /\ h.canUndo /\ h.undo.cut <= Len(h.undo.buffer) /\ NoJoin(h.undo, x) /\ Leads(x, TextOf(h), f)
    BY <1>1, <1>2, <1>3, <1>5, <1>7, <1>8
  <2> QED
    BY <1>4, <1>8, <1>9, <2>1, ApplyFacts
<1>11. /\ Good(t) /\ t.canUndo = b.canUndo /\ t.locked = b.locked /\ Heard(T, t) = TextOf(t) /\ TextOf(t) = f
       /\ t.undo = Inv(x, T) /\ t.undoList = Append(L, u) /\ t.redoList = Front(R)
  BY <1>5, <1>8, <1>10 DEF Reversed, Serves, Told
<1>12. Leads(Inv(x, T), f, T) /\ NoJoin(u, Inv(Inv(x, T), f))
  <2>1. Leads(Inv(x, T), f, T)
    BY <1>3, <1>4, <1>7, InvLeads
  <2>2. Inv(Inv(x, T), f).at = x.at /\ Inv(Inv(x, T), f).insert = x.insert
    BY <1>3, <1>4, <1>7, InvInv
  <2> QED
    BY <1>7, <2>1, <2>2 DEF NoJoin
<1>13. Tale(t, Append(past, T))
  <2>1. /\ b \in Buffers /\ GapOK(b) /\ t \in Buffers /\ GapOK(t) /\ t.undoList = Append(b.undoList, b.undo)
        /\ Leads(t.undo, TextOf(t), TextOf(b)) /\ NoJoin(b.undo, Inv(t.undo, TextOf(t)))
    BY <1>1, <1>11, <1>12 DEF Good, T, u, L
  <2> QED
    BY <1>1, <2>1, TaleFresh DEF T
<1>14. Ahead(t.redoList, t.undo, Front(future), TextOf(t))
  BY <1>7, <1>11
<1>15. View(b', mirror', Append(past, T), Front(future)) /\ TextOf(b') = TextOf(t) /\ b'.canUndo = t.canUndo
  <2> DEFINE P == Append(past, T)
             F == Front(future)
  <2>1. Tale(t, P) /\ F \in Seq(Strings) /\ Ahead(t.redoList, t.undo, F, TextOf(t)) /\ Told(b, t) /\ t.canUndo /\ ~t.locked
    BY <1>1, <1>2, <1>4, <1>11, <1>13, <1>14 DEF Told, T
  <2> HIDE DEF P, F
  <2>2. View(b', mirror', P, F) /\ TextOf(b') = TextOf(t) /\ b'.canUndo = t.canUndo
    BY <1>2, <1>11, <2>1, ReturnFacts
  <2> QED
    BY <2>2 DEF P, F
<1>16. IInv'
  BY <1>2, <1>15, NextInvIsView
<1>17. TextOf(b') = Last(future) /\ b'.canUndo = b.canUndo
  BY <1>11, <1>15 DEF f
<1>18. History!Redo
  BY <1>2, <1>17 DEF History!Redo, History!Last, History!Front, Last, Front, T
<1> QED
  BY <1>16, <1>18

LEMMA CanUndoStep ==
  ASSUME IInv, CanUndo
  PROVE  IInv' /\ \E flag \in BOOLEAN : History!Enable(flag)
<1>1. PICK flag \in BOOLEAN :
         /\ Become(SetCanUndo(b, flag))
         /\ IF flag THEN UNCHANGED <<past, future>> ELSE past' = <<>> /\ future' = <<>>
  BY DEF CanUndo
<1> DEFINE t == SetCanUndo(b, flag)
           z == <<>>
<1>2. View(b, mirror, past, future)
  BY InvIsView
<1>3. /\ Good(t) /\ TextOf(t) = TextOf(b) /\ (\A m : Heard(m, t) = Heard(m, b))
      /\ t.canUndo = flag /\ t.locked = b.locked
      /\ flag \/ ~b.canUndo => Unrecorded(b, t)
      /\ ~(flag \/ ~b.canUndo) => t.undo = EmptyAction /\ t.undoList = <<>> /\ t.redoList = <<>>
  BY <1>2, SetCanUndoFacts DEF View
<1>4. Become(t)
  BY <1>1
<1> HIDE DEF t
<1>5. Told(b, t) /\ ~t.locked
  BY <1>2, <1>3, NoCallFacts DEF View, Told
<1>6. CASE flag
  <2>1. Unrecorded(b, t) /\ past' = past /\ future' = future
    BY <1>1, <1>3, <1>6
  <2>2. /\ Tale(t, past) /\ future \in Seq(Strings) /\ Ahead(t.redoList, t.undo, future, TextOf(t)) /\ t.canUndo
    BY <1>2, <1>3, <1>6, <2>1, TaleSame DEF View, Unrecorded
  <2>3. View(b', mirror', past, future) /\ TextOf(b') = TextOf(t) /\ b'.canUndo = t.canUndo
    BY <1>3, <1>4, <1>5, <2>2, ReturnFacts
  <2>4. IInv'
    BY <2>1, <2>3, NextInvIsView
  <2>5. History!Enable(flag)
    BY <1>3, <1>6, <2>1, <2>3 DEF History!Enable
  <2> QED
    BY <2>4, <2>5
<1>7. CASE ~flag
  <2>1. past' = <<>> /\ future' = <<>>
    BY <1>1, <1>7
  <2>2. Tale(t, z)
    <3>1. CASE b.canUndo
      <4>1. Empty(t.undo) /\ t.undoList = <<>>
        BY <1>3, <1>7, <3>1, EmptyActionFacts DEF Empty
      <4> QED
        BY <1>3, <4>1, TaleNone DEF Good
    <3>2. CASE ~b.canUndo
      <4>1. Unrecorded(b, t) /\ past = <<>> /\ Tale(b, past)
        BY <1>2, <1>3, <3>2 DEF View
      <4> QED
        BY <1>3, <4>1, TaleSame
    <3> QED
      BY <3>1, <3>2
  <2>3. z \in Seq(Strings) /\ z = <<>> /\ Ahead(t.redoList, t.undo, z, TextOf(t))
    BY <1>3, AheadNone DEF Good, Buffers
  <2> HIDE DEF z
  <2>4. View(b', mirror', z, z) /\ TextOf(b') = TextOf(t) /\ b'.canUndo = t.canUndo
    BY <1>3, <1>4, <1>5, <2>2, <2>3, ReturnFacts
  <2>5. IInv'
    BY <2>1, <2>3, <2>4, NextInvIsView
  <2>6. History!Enable(flag)
    BY <1>3, <1>7, <2>1, <2>4 DEF History!Enable
  <2> QED
    BY <2>5, <2>6
<1> QED
  BY <1>6, <1>7

LEMMA SelectStep ==
  ASSUME IInv, Select
  PROVE  IInv' /\ UNCHANGED <<TextOf(b), past, future, b.canUndo>>
<1>1. View(b, mirror, past, future) /\ past' = past /\ future' = future
  BY InvIsView DEF Select
<1>2. b \in Buffers /\ b.length \in Nat /\ b.sel \in Selections
  BY <1>1 DEF View, Good, Buffers
<1>3. PICK v \in Selections : SelOK(v, b.length) /\ Become([b EXCEPT !.sel = v])
  <2>1. CASE \E s, e \in Positions : Become([b EXCEPT !.sel = Selection(s, e)])
    <3>1. PICK s \in 0 .. b.length, e \in 0 .. b.length : Become([b EXCEPT !.sel = Selection(s, e)])
      BY <2>1 DEF Positions
    <3> DEFINE w == s # e
               lo == IF s < e THEN s ELSE e
               hi == IF s < e THEN e ELSE s
    <3>2. w \in BOOLEAN /\ lo \in Nat /\ hi \in Nat /\ hi <= b.length /\ (w => lo < hi)
      BY <1>2
    <3>3. Selection(s, e) = [selected |-> w, start |-> lo, end |-> hi]
      BY DEF Selection
    <3> HIDE DEF w, lo, hi
    <3>4. /\ Selection(s, e) \in Selections /\ Selection(s, e).selected = w
          /\ Selection(s, e).start = lo /\ Selection(s, e).end = hi
      BY <3>2, <3>3 DEF Selections
    <3>5. SelOK(Selection(s, e), b.length)
      BY <3>2, <3>4 DEF SelOK
    <3> QED
      BY <3>1, <3>4, <3>5
  <2>2. CASE Become([b EXCEPT !.sel.selected = FALSE])
    <3> DEFINE v == [b.sel EXCEPT !.selected = FALSE]
    <3>1. v \in Selections /\ ~v.selected
      BY <1>2 DEF Selections
    <3>2. SelOK(v, b.length) /\ Become([b EXCEPT !.sel = v])
      BY <2>2, <3>1 DEF SelOK
    <3> QED
      BY <3>1, <3>2
  <2> QED
    BY <2>1, <2>2 DEF Select
<1> DEFINE t == [b EXCEPT !.sel = v]
<1>4. /\ Good(t) /\ TextOf(t) = TextOf(b) /\ Unrecorded(b, t) /\ t.canUndo = b.canUndo
      /\ t.locked = b.locked /\ t.call = b.call /\ \A m : Heard(m, t) = Heard(m, b)
  BY <1>1, <1>3, Reselected DEF View
<1>5. Become(t)
  BY <1>3
<1> HIDE DEF t
<1>6. Told(b, t) /\ ~t.locked
  BY <1>1, <1>4, NoCallFacts DEF View, Told
<1>7. /\ Tale(t, past) /\ future \in Seq(Strings) /\ Ahead(t.redoList, t.undo, future, TextOf(t))
      /\ ~t.canUndo => past = <<>> /\ future = <<>>
  BY <1>1, <1>4, TaleSame DEF View, Unrecorded
<1>8. View(b', mirror', past, future) /\ TextOf(b') = TextOf(t) /\ b'.canUndo = t.canUndo
  BY <1>4, <1>5, <1>6, <1>7, ReturnFacts
<1>9. IInv'
  BY <1>1, <1>8, NextInvIsView
<1> QED
  BY <1>1, <1>4, <1>8, <1>9
-----------------------------------------------------------------------------
(* The theorems *)

LEMMA InitInv == Init => IInv /\ History!Init
<1> SUFFICES ASSUME Init
             PROVE  IInv /\ History!Init
  OBVIOUS
<1> DEFINE z == <<>>
           a == EmptyAction
           c == NoCall
           w == Unselected
<1>1. z \in Strings /\ z \in Seq(Actions) /\ z \in Seq(Strings) /\ a \in Actions /\ c \in Calls /\ w \in Selections /\ ~w.selected
  BY EmptyActionFacts DEF Strings, NoCall, Calls, Unselected, Selections
<1>2. b = [buf |-> z, gapStart |-> 0, gapEnd |-> 0, length |-> 0,
           canUndo |-> TRUE, undo |-> a, undoList |-> z, redoList |-> z, locked |-> FALSE, sel |-> w, call |-> c]
      /\ mirror = z /\ past = z /\ future = z
  BY DEF Init
<1>3. Empty(a) /\ Len(z) = 0 /\ z = <<>> /\ c = NoCall
  BY EmptyActionFacts DEF Empty
<1> HIDE DEF z, a, c, w
<1>4. /\ b \in Buffers /\ b.buf = z /\ b.gapStart = 0 /\ b.gapEnd = 0 /\ b.length = 0 /\ b.canUndo = TRUE
      /\ b.undo = a /\ b.undoList = z /\ b.redoList = z /\ b.locked = FALSE /\ b.sel = w /\ b.call = c
  BY <1>1, <1>2 DEF Buffers
<1>5. GapOK(b)
  BY <1>3, <1>4 DEF GapOK, Gap
<1>6. Good(b)
  BY <1>1, <1>4, <1>5 DEF Good, SelOK
<1>7. TextOf(b) = <<>>
  <2>1. TextOf(b) \in Strings /\ Len(TextOf(b)) = 0
    BY <1>4, <1>5, TextFacts
  <2> QED
    BY <2>1 DEF Strings
<1>8. Tale(b, z)
  BY <1>3, <1>4, <1>5, TaleNone
<1>9. Ahead(b.redoList, b.undo, z, TextOf(b))
  BY <1>1, <1>3, <1>4, AheadNone
<1>10. View(b, mirror, past, future)
  BY <1>1, <1>2, <1>3, <1>4, <1>6, <1>7, <1>8, <1>9 DEF View
<1>11. IInv
  BY <1>10, InvIsView
<1>12. History!Init
  BY <1>2, <1>3, <1>4, <1>7 DEF History!Init
<1> QED
  BY <1>11, <1>12

\* A step of the buffer is one of the history, or none.
LEMMA StepInv ==
  ASSUME IInv, [Next]_vars
  PROVE  IInv' /\ [History!Next]_(History!vars)
<1> DEFINE Still == UNCHANGED <<TextOf(b), past, future, b.canUndo>>
<1>1. SUFFICES IInv' /\ (History!Next \/ Still)
  BY DEF History!vars
<1>2. EditStep => History!Next
  BY DEF EditStep, History!Next
<1>3. CASE Insert
  BY <1>2, <1>3, InsertStep
<1>4. CASE Delete
  BY <1>2, <1>4, DeleteStep
<1>5. CASE Replace
  BY <1>2, <1>5, ReplaceStep
<1>6. CASE EditSelection
  BY <1>2, <1>6, EditSelectionStep
<1>7. CASE Reset
  BY <1>7, ResetStep DEF History!Next
<1>8. CASE Undo
  BY <1>8, UndoStep DEF History!Next
<1>9. CASE Redo
  BY <1>9, RedoStep DEF History!Next
<1>10. CASE CanUndo
  BY <1>10, CanUndoStep DEF History!Next
<1>11. CASE Select
  BY <1>11, SelectStep
<1>12. CASE UNCHANGED vars
  <2>1. b' = b /\ mirror' = mirror /\ past' = past /\ future' = future
    BY <1>12 DEF vars
  <2>2. Still
    BY <2>1
  <2>3. IInv'
    BY <2>1, InvIsView, NextInvIsView
  <2> QED
    BY <2>2, <2>3
<1> QED
  BY <1>3, <1>4, <1>5, <1>6, <1>7, <1>8, <1>9, <1>10, <1>11, <1>12 DEF Next

\* The gap lies in the text, the selection too, the listeners know the text, and
\* the undo and redo lists tell the texts there were: of every buffer, whatever is
\* inserted, deleted, undone and redone, as long as redo() meets no stale list.
THEOREM BufferInvariant == Spec => []IInv
<1>1. Init => IInv
  BY InitInv
<1>2. IInv /\ [Next]_vars => IInv'
  BY StepInv
<1> QED
  BY <1>1, <1>2, PTL DEF Spec

\* The modify callbacks of insert(), remove(), replace(), text(), undo() and redo()
\* tell a listener exactly what became of the text.
THEOREM ListenersKnow == Spec => []ListenersInSync
<1>1. IInv => ListenersInSync
  <2> SUFFICES ASSUME IInv
               PROVE  ListenersInSync
    OBVIOUS
  <2>1. b \in Buffers /\ GapOK(b) /\ mirror = TextOf(b)
    BY DEF IInv
  <2>2. /\ b.gapStart \in Nat /\ b.length \in Nat /\ b.gapStart <= b.length /\ b.gapStart <= b.gapEnd
        /\ Len(b.buf) = b.length + Gap(b)
    BY <2>1, GapFacts DEF GapOK
  <2> QED
    BY <2>1, <2>2 DEF ListenersInSync
<1> QED
  BY <1>1, BufferInvariant, PTL

\* can_undo() says whether there is a text to go back to, there is an event for
\* each of them, and what was undone stays on the redo list until an edit.
THEOREM EventsAreKept == Spec => []EventsKept
<1>1. IInv => EventsKept
  <2> SUFFICES ASSUME IInv
               PROVE  EventsKept
    OBVIOUS
  <2>1. View(b, mirror, past, future)
    BY InvIsView
  <2>2. b \in Buffers /\ GapOK(b) /\ Tale(b, past)
    BY <2>1 DEF View, Good
  <2>3. Events(b) = Len(past) /\ (Empty(b.undo) <=> past = <<>>)
    BY <2>2, TaleEvents, TaleFacts
  <2>4. can_undo(b) <=> past # <<>>
    BY <2>1, <2>3 DEF can_undo, View
  <2>5. Len(future) <= Len(b.redoList)
    BY <2>1 DEF View, Ahead
  <2> QED
    BY <2>3, <2>4, <2>5 DEF EventsKept
<1> QED
  BY <1>1, BufferInvariant, PTL

\* The buffer implements EditHistory: undo() leads back to the text before the
\* last event, redo() forward to the one undone, and every edit replaces the bytes
\* it was asked to replace.
THEOREM BufferImplementsHistory == Spec => HistorySpec
<1>1. Init => History!Init
  BY InitInv
<1>2. IInv /\ [Next]_vars => [History!Next]_(History!vars)
  BY StepInv
<1>3. Spec => History!Init /\ [][History!Next]_(History!vars)
  BY <1>1, <1>2, BufferInvariant, PTL DEF Spec
<1> QED
  BY <1>3 DEF HistorySpec, History!Spec
-----------------------------------------------------------------------------
(* Selections *)

\* The bytes from a to z that are left when those from s to e are deleted come to
\* lie from x to y.
Leaves(x, y, a, z, s, e) ==
  \A j \in Int : x < j /\ j <= y <=>
    (j <= s /\ a < j /\ j <= z) \/ (j > s /\ a < j + (e - s) /\ j + (e - s) <= z)

Remains(a, z, s, e) ==
  {IF i <= s THEN i ELSE i - (e - s) : i \in (a + 1 .. z) \ (s + 1 .. e)}

IsRange(S, x, y) == S = x + 1 .. y

LEMMA CutSet ==
  ASSUME NEW a \in Nat, NEW z \in Nat, NEW s \in Nat, NEW e \in Nat, s <= e,
         NEW x \in Int, NEW y \in Int,
         Leaves(x, y, a, z, s, e)
  PROVE  IsRange(Remains(a, z, s, e), x, y)
<1> DEFINE G(i) == IF i <= s THEN i ELSE i - (e - s)
           K == (a + 1 .. z) \ (s + 1 .. e)
<1>1. ASSUME NEW i \in K
      PROVE  G(i) \in x + 1 .. y
  <2>1. i \in Int /\ a < i /\ i <= z /\ (i <= s \/ i > e)
    OBVIOUS
  <2>2. CASE i <= s
    BY <2>1, <2>2 DEF Leaves
  <2>3. CASE i > e
    <3>1. G(i) = i - (e - s) /\ i - (e - s) \in Int /\ i - (e - s) > s /\ (i - (e - s)) + (e - s) = i
      BY <2>1, <2>3
    <3>2. x < i - (e - s) /\ i - (e - s) <= y
      BY <2>1, <3>1 DEF Leaves
    <3> QED
      BY <3>1, <3>2
  <2> QED
    BY <2>1, <2>2, <2>3
<1>2. ASSUME NEW j \in x + 1 .. y
      PROVE  \E i \in K : j = G(i)
  <2>0. j \in Int /\ x < j /\ j <= y
    OBVIOUS
  <2>1. j \in Int /\ ((j <= s /\ a < j /\ j <= z) \/ (j > s /\ a < j + (e - s) /\ j + (e - s) <= z))
    BY <2>0 DEF Leaves
  <2>2. CASE j <= s /\ a < j /\ j <= z
    <3>1. j \in K /\ j = G(j)
      BY <2>1, <2>2
    <3> QED
      BY <3>1
  <2>3. CASE j > s /\ a < j + (e - s) /\ j + (e - s) <= z
    <3>1. j + (e - s) \in K /\ j = G(j + (e - s))
      BY <2>1, <2>3
    <3> QED
      BY <3>1
  <2> QED
    BY <2>1, <2>2, <2>3
<1>3. {G(i) : i \in K} = x + 1 .. y
  BY <1>1, <1>2
<1> QED
  BY <1>3, Zenon DEF Remains, IsRange

\* The bytes from a to z when n bytes are inserted at s.
LEMMA ShiftSet ==
  ASSUME NEW a \in Nat, NEW z \in Nat, NEW s \in Nat, NEW n \in Nat
  PROVE  \A j \in Int : j \in {IF i <= s THEN i ELSE i + n : i \in a + 1 .. z} <=>
           (j <= s /\ a < j /\ j <= z) \/ (j - n > s /\ a < j - n /\ j - n <= z)
<1> DEFINE G(i) == IF i <= s THEN i ELSE i + n
<1> SUFFICES ASSUME NEW j \in Int
             PROVE  (\E i \in a + 1 .. z : j = G(i)) <=>
                      (j <= s /\ a < j /\ j <= z) \/ (j - n > s /\ a < j - n /\ j - n <= z)
  BY Zenon
<1>1. ASSUME NEW i \in a + 1 .. z, j = G(i)
      PROVE  (j <= s /\ a < j /\ j <= z) \/ (j - n > s /\ a < j - n /\ j - n <= z)
  <2>1. i \in Int /\ a < i /\ i <= z
    OBVIOUS
  <2>2. CASE i <= s
    BY <1>1, <2>1, <2>2
  <2>3. CASE ~(i <= s)
    <3>1. j = i + n
      BY <1>1, <2>3
    <3> QED
      BY <2>1, <2>3, <3>1
  <2> QED
    BY <2>2, <2>3
<1>2. CASE j <= s /\ a < j /\ j <= z
  <2>1. j \in a + 1 .. z /\ j = G(j)
    BY <1>2
  <2> QED
    BY <1>2, <2>1
<1>3. CASE j - n > s /\ a < j - n /\ j - n <= z
  <2>1. j - n \in a + 1 .. z /\ j = G(j - n)
    BY <1>3
  <2> QED
    BY <1>3, <2>1
<1> QED
  BY <1>1, <1>2, <1>3

\* The offsets of the bytes in a selection.
Held(r) == IF r.selected THEN r.start + 1 .. r.end ELSE {}

LEMMA SelectionCut ==
  ASSUME NEW sel \in Selections, sel.selected, 0 <= sel.start, sel.start < sel.end,
         NEW s \in Nat, NEW e \in Nat, s <= e,
         ~(sel.start < s /\ s < sel.end /\ sel.end < e)
  PROVE  Held(Update(sel, s, e - s, 0)) =
           {IF i <= s THEN i ELSE i - (e - s) : i \in (sel.start + 1 .. sel.end) \ (s + 1 .. e)}
<1> DEFINE a == sel.start
           z == sel.end
           d == e - s
           r == Update(sel, s, d, 0)
           C == Remains(a, z, s, e)
<1>1. a \in Nat /\ z \in Nat /\ a < z /\ d \in Nat /\ s + d = e /\ d = e - s
  BY DEF Selections
<1>2. Updated(r, a, z, s, d, 0)
  BY <1>1, UpdateCases
<1>ok. ~(a < s /\ s < z /\ z < e)
  OBVIOUS
<1> SUFFICES Held(r) = C
  BY DEF Remains
<1> HIDE DEF a, z, d, r
<1>on. ASSUME NEW x \in Int, NEW y \in Int, Selected(r, x, y), Leaves(x, y, a, z, s, e)
       PROVE  Held(r) = C
  <2>1. r.selected /\ r.start = x /\ r.end = y
    BY <1>on, SelectedFacts
  <2>2. IsRange(C, x, y)
    BY <1>1, <1>on, CutSet
  <2> QED
    BY <2>1, <2>2 DEF Held, IsRange
<1>3. CASE s >= z
  <2>1. Selected(r, a, z)
    BY <1>2, <1>3 DEF Updated
  <2>2. Leaves(a, z, a, z, s, e)
    BY <1>1, <1>3 DEF Leaves
  <2> QED
    BY <1>1, <1>on, <2>1, <2>2
<1>4. CASE s < z /\ e <= a
  <2>1. Selected(r, a + 0 - d, z + 0 - d)
    BY <1>1, <1>2, <1>4 DEF Updated
  <2>2. /\ a + 0 - d \in Int /\ z + 0 - d \in Int
        /\ Leaves(a + 0 - d, z + 0 - d, a, z, s, e)
    BY <1>1, <1>4 DEF Leaves
  <2> QED
    BY <1>on, <2>1, <2>2
<1>5. CASE s <= a /\ e >= z
  <2>1. Deselected(r, s, s)
    BY <1>1, <1>2, <1>5 DEF Updated
  <2>2. ~r.selected
    BY <2>1, DeselectedFacts
  <2>3. (a + 1 .. z) \ (s + 1 .. e) = {}
    BY <1>1, <1>5
  <2>4. C = {}
    BY <2>3, Zenon DEF Remains
  <2> QED
    BY <2>2, <2>4 DEF Held
<1>6. CASE s <= a /\ a < e /\ e < z
  <2>1. Selected(r, s, z + 0 - d)
    BY <1>1, <1>2, <1>6 DEF Updated
  <2>2. /\ z + 0 - d \in Int
        /\ Leaves(s, z + 0 - d, a, z, s, e)
    BY <1>1, <1>6 DEF Leaves
  <2> QED
    BY <1>on, <2>1, <2>2
<1>7. CASE a < s /\ s < z /\ e <= z
  <2>1. z + 0 - d > a
    BY <1>1, <1>7
  <2>2. Selected(r, a, z + 0 - d)
    BY <1>2, <1>7, <2>1 DEF Updated
  <2>3. /\ z + 0 - d \in Int
        /\ Leaves(a, z + 0 - d, a, z, s, e)
    BY <1>1, <1>7 DEF Leaves
  <2> QED
    BY <1>1, <1>on, <2>2, <2>3
<1> HIDE DEF C
<1> QED
  BY <1>1, <1>ok, <1>3, <1>4, <1>5, <1>6, <1>7

LEMMA SelectionGrown ==
  ASSUME NEW sel \in Selections, sel.selected, 0 <= sel.start, sel.start < sel.end,
         NEW s \in Nat, NEW n \in Nat
  PROVE  Held(Update(sel, s, 0, n)) =
           {IF i <= s THEN i ELSE i + n : i \in sel.start + 1 .. sel.end}
             \union (IF sel.start < s /\ s < sel.end THEN s + 1 .. s + n ELSE {})
<1> DEFINE a == sel.start
           z == sel.end
           r == Update(sel, s, 0, n)
           S == {IF i <= s THEN i ELSE i + n : i \in a + 1 .. z}
           J == IF a < s /\ s < z THEN s + 1 .. s + n ELSE {}
<1>1. a \in Nat /\ z \in Nat /\ a < z
  BY DEF Selections
<1>2. Updated(r, a, z, s, 0, n)
  BY <1>1, UpdateCases
<1>3. \A j \in Int : j \in S <=> (j <= s /\ a < j /\ j <= z) \/ (j - n > s /\ a < j - n /\ j - n <= z)
  BY <1>1, ShiftSet
<1>4. S \subseteq Int /\ J \subseteq Int
  BY <1>1
<1>j. \A j \in Int : j \in J <=> a < s /\ s < z /\ s < j /\ j <= s + n
  BY <1>1
<1> SUFFICES Held(r) = S \union J
  OBVIOUS
<1> HIDE DEF a, z, r, S, J
<1>on. ASSUME NEW x \in Int, NEW y \in Int, Selected(r, x, y),
              \A j \in Int : x < j /\ j <= y <=> j \in S \/ j \in J
       PROVE  Held(r) = S \union J
  <2>1. r.selected /\ r.start = x /\ r.end = y
    BY <1>on, SelectedFacts
  <2>2. \A j : j \in x + 1 .. y <=> j \in Int /\ x < j /\ j <= y
    OBVIOUS
  <2>3. \A j : j \in x + 1 .. y <=> j \in S \/ j \in J
    BY <1>4, <1>on, <2>2, Zenon
  <2>4. x + 1 .. y = S \union J
    BY <2>3, Zenon
  <2> QED
    BY <2>1, <2>4 DEF Held
<1>5. CASE s >= z
  <2>1. Selected(r, a, z)
    BY <1>2, <1>5 DEF Updated
  <2>2. \A j \in Int : a < j /\ j <= z <=> j \in S \/ j \in J
    BY <1>1, <1>3, <1>j, <1>5
  <2> QED
    BY <1>1, <1>on, <2>1, <2>2
<1>6. CASE s <= a
  <2>1. Selected(r, a + n - 0, z + n - 0)
    BY <1>1, <1>2, <1>6 DEF Updated
  <2>2. /\ a + n - 0 \in Int /\ z + n - 0 \in Int
        /\ \A j \in Int : a + n - 0 < j /\ j <= z + n - 0 <=> j \in S \/ j \in J
    BY <1>1, <1>3, <1>j, <1>6
  <2> QED
    BY <1>on, <2>1, <2>2
<1>7. CASE a < s /\ s < z
  <2>1. z + n - 0 > a
    BY <1>1
  <2>2. Selected(r, a, z + n - 0)
    BY <1>2, <1>7, <2>1 DEF Updated
  <2>3. z + n - 0 \in Int /\ \A j \in Int : a < j /\ j <= z + n - 0 <=> j \in S \/ j \in J
    BY <1>1, <1>3, <1>j, <1>7
  <2> QED
    BY <1>1, <1>on, <2>2, <2>3
<1> QED
  BY <1>1, <1>5, <1>6, <1>7

\* Fl_Text_Selection::update() keeps exactly the bytes of the selection, for every
\* deletion that does not run over its end and every insertion.
THEOREM SelectionsFollow == Spec => []SelectionFollows
<1>1. IInv => SelectionFollows
  <2> SUFFICES ASSUME IInv, b.sel.selected
               PROVE  LET Sel(u) == IF u.selected THEN u.start + 1 .. u.end ELSE {}
                          Cut(s, e) == {IF i <= s THEN i ELSE i - (e - s) : i \in Sel(b.sel) \ (s + 1 .. e)}
                      IN  /\ 0 <= b.sel.start /\ b.sel.start < b.sel.end /\ b.sel.end <= b.length
                          /\ \A s, e \in Positions :
                               s <= e /\ ~(b.sel.start < s /\ s < b.sel.end /\ b.sel.end < e)
                               => Sel(Update(b.sel, s, e - s, 0)) = Cut(s, e)
                          /\ \A s \in Positions, n \in 1 .. 2 :
                               Sel(Update(b.sel, s, 0, n)) =
                                 {IF i <= s THEN i ELSE i + n : i \in Sel(b.sel)}
                                   \union (IF b.sel.start < s /\ s < b.sel.end THEN s + 1 .. s + n ELSE {})
    BY Zenon DEF SelectionFollows
  <2> DEFINE sel == b.sel
  <2>1. sel \in Selections /\ sel.selected /\ 0 <= sel.start /\ sel.start < sel.end /\ sel.end <= b.length /\ b.length \in Nat
    BY DEF IInv, SelOK, Buffers
  <2>2. Held(sel) = sel.start + 1 .. sel.end
    BY <2>1 DEF Held
  <2> HIDE DEF sel
  <2>3. ASSUME NEW s \in Positions, NEW e \in Positions, s <= e, ~(sel.start < s /\ s < sel.end /\ sel.end < e)
        PROVE  Held(Update(sel, s, e - s, 0)) = {IF i <= s THEN i ELSE i - (e - s) : i \in Held(sel) \ (s + 1 .. e)}
    <3>1. s \in Nat /\ e \in Nat
      BY <2>1 DEF Positions
    <3> QED
      BY <2>1, <2>2, <2>3, <3>1, SelectionCut
  <2>4. ASSUME NEW s \in Positions, NEW n \in 1 .. 2
        PROVE  Held(Update(sel, s, 0, n)) =
                 {IF i <= s THEN i ELSE i + n : i \in Held(sel)}
                   \union (IF sel.start < s /\ s < sel.end THEN s + 1 .. s + n ELSE {})
    <3>1. s \in Nat /\ n \in Nat
      BY <2>1 DEF Positions
    <3> QED
      BY <2>1, <2>2, <3>1, SelectionGrown
  <2> QED
    BY <2>1, <2>3, <2>4, Zenon DEF Held, sel
<1> QED
  BY <1>1, BufferInvariant, PTL
-----------------------------------------------------------------------------
(* Lines *)

\* The members of W from s up to, and not including, e, and how many they are.
In(W, s, e)    == {p \in W : s <= p /\ p < e}
Count(W, s, e) == Cardinality(In(W, s, e))

LEMMA InFacts ==
  ASSUME NEW W \in SUBSET Nat, NEW s, NEW e
  PROVE  \A p : /\ p \in W => p \in Nat
                /\ p \in In(W, s, e) <=> p \in W /\ s <= p /\ p < e
BY DEF In

LEMMA CountNat ==
  ASSUME NEW W \in SUBSET Nat, NEW s \in Nat, NEW e \in Nat
  PROVE  /\ IsFiniteSet(In(W, s, e)) /\ Count(W, s, e) \in Nat
         /\ Count(W, s, e) = 0 <=> In(W, s, e) = {}
<1>0. \A p : p \in In(W, s, e) => p \in Nat /\ s <= p /\ p < e
  BY InFacts
<1>1. In(W, s, e) \in SUBSET (s .. e)
  BY <1>0
<1>2. IsFiniteSet(s .. e)
  BY FS_Interval
<1>3. IsFiniteSet(In(W, s, e))
  BY <1>1, <1>2, FS_Subset
<1> QED
  BY <1>3, FS_CardinalityType, FS_EmptySet DEF Count

LEMMA CountSplit ==
  ASSUME NEW W \in SUBSET Nat, NEW s \in Nat, NEW m \in Nat, NEW e \in Nat, s <= m, m <= e
  PROVE  Count(W, s, e) = Count(W, s, m) + Count(W, m, e)
<1> DEFINE A == In(W, s, m)
           B == In(W, m, e)
<1>1. IsFiniteSet(A) /\ IsFiniteSet(B) /\ Cardinality(A) \in Nat /\ Cardinality(B) \in Nat
  BY CountNat DEF Count
<1>a. \A p : p \in A <=> p \in W /\ s <= p /\ p < m
  BY InFacts
<1>b. \A p : p \in B <=> p \in W /\ m <= p /\ p < e
  BY InFacts
<1>c. \A p : p \in In(W, s, e) <=> p \in W /\ s <= p /\ p < e
  BY InFacts
<1>d. \A p : p \in W => p \in Nat
  OBVIOUS
<1> HIDE DEF A, B
<1>2. In(W, s, e) = A \union B
  <2>1. \A p : p \in In(W, s, e) <=> p \in A \/ p \in B
    BY <1>a, <1>b, <1>c, <1>d
  <2> QED
    BY <2>1, Zenon
<1>3. A \cap B = {}
  <2>1. \A p : ~(p \in A /\ p \in B)
    BY <1>a, <1>b, <1>d
  <2> QED
    BY <2>1, Zenon
<1>4. Cardinality(A \union B) = Cardinality(A) + Cardinality(B) - Cardinality(A \cap B)
  BY <1>1, FS_Union
<1>5. Cardinality(A \cap B) = 0
  BY <1>3, FS_EmptySet
<1>6. Cardinality(A \union B) = Cardinality(A) + Cardinality(B)
  BY <1>1, <1>4, <1>5
<1> QED
  BY <1>2, <1>6 DEF Count, A, B

LEMMA CountOne ==
  ASSUME NEW W \in SUBSET Nat, NEW p \in Nat
  PROVE  Count(W, p, p + 1) = IF p \in W THEN 1 ELSE 0
<1>0. \A q : q \in In(W, p, p + 1) <=> q \in W /\ p <= q /\ q < p + 1
  BY InFacts
<1>d. \A q : q \in W => q \in Nat
  OBVIOUS
<1>2. \A q : q \in In(W, p, p + 1) <=> q \in W /\ q = p
  BY <1>0, <1>d
<1>1. In(W, p, p + 1) = IF p \in W THEN {p} ELSE {}
  BY <1>2, Zenon
<1> QED
  BY <1>1, FS_Singleton, FS_EmptySet DEF Count

\* A later member is counted behind an earlier one.
LEMMA CountGrows ==
  ASSUME NEW W \in SUBSET Nat, NEW s \in Nat, NEW p \in Nat, NEW q \in W, s <= p, p <= q
  PROVE  Count(W, s, p) < Count(W, s, q + 1)
<1>1. q \in Nat /\ q + 1 \in Nat /\ s <= q /\ q <= q + 1 
  OBVIOUS
<1>2. Count(W, s, q + 1) = Count(W, s, q) + Count(W, q, q + 1)
  BY <1>1, CountSplit
<1>3. Count(W, s, q) = Count(W, s, p) + Count(W, p, q)
  BY <1>1, CountSplit
<1>4. Count(W, q, q + 1) = 1
  BY <1>1, CountOne
<1>5. Count(W, s, q) \in Nat /\ Count(W, s, p) \in Nat /\ Count(W, p, q) \in Nat
  BY <1>1, CountNat
<1> QED
  BY <1>2, <1>3, <1>4, <1>5

\* The number of a member is its own.
LEMMA CountUnique ==
  ASSUME NEW W \in SUBSET Nat, NEW s \in Nat, NEW p \in W, NEW q \in W, s <= p, s <= q,
         Count(W, s, p + 1) = Count(W, s, q + 1)
  PROVE  p = q
<1>1. ASSUME NEW x \in W, NEW y \in W, s <= x, x < y
      PROVE  Count(W, s, x + 1) < Count(W, s, y + 1)
  <2>1. x + 1 \in Nat /\ s <= x + 1 /\ x + 1 <= y
    BY <1>1
  <2> QED
    BY <2>1, CountGrows
<1>2. p \in Nat /\ q \in Nat /\ Count(W, s, p + 1) \in Nat /\ Count(W, s, q + 1) \in Nat
  BY CountNat
<1>3. ~(p < q) /\ ~(q < p)
  BY <1>1, <1>2
<1> QED
  BY <1>2, <1>3

\* Every number up to the last is that of a member.
LEMMA CountReach ==
  ASSUME NEW W \in SUBSET Nat, NEW s \in Nat, NEW e \in Nat, s <= e,
         NEW k \in Nat, 1 <= k, k <= Count(W, s, e)
  PROVE  \E p \in In(W, s, e) : Count(W, s, p + 1) = k
<1> DEFINE T == {x \in Nat : s <= x /\ x <= e /\ Count(W, s, x) >= k}
<1>1. e \in T
  OBVIOUS
<1>2. PICK x \in T : \A y \in T : x <= y
  BY <1>1, Smallest
<1>3. x \in Nat /\ s <= x /\ x <= e /\ Count(W, s, x) >= k
  BY <1>2
<1>4. x # s
  <2>0. \A q : q \in In(W, s, s) => q \in Nat /\ s <= q /\ q < s
    BY InFacts
  <2>1. In(W, s, s) = {}
    BY <2>0
  <2>2. Count(W, s, s) = 0
    BY <2>1, CountNat
  <2> QED
    BY <1>3, <2>2
<1> DEFINE p == x - 1
<1>5. p \in Nat /\ s <= p /\ p < e /\ x = p + 1 /\ p <= p + 1
  BY <1>3, <1>4
<1> HIDE DEF p
<1>6. p \notin T
  BY <1>2, <1>5
<1>7. Count(W, s, p) \in Nat
  BY <1>5, CountNat
<1>8. Count(W, s, p) < k
  BY <1>5, <1>6, <1>7
<1>9. Count(W, s, p + 1) = Count(W, s, p) + Count(W, p, p + 1)
  BY <1>5, CountSplit
<1>10. Count(W, p, p + 1) = IF p \in W THEN 1 ELSE 0
  BY <1>5, CountOne
<1>11. p \in W /\ Count(W, s, p + 1) = k
  BY <1>3, <1>5, <1>7, <1>8, <1>9, <1>10
<1>12. p \in In(W, s, e)
  BY <1>5, <1>11 DEF In
<1> QED
  BY <1>11, <1>12

LEMMA MaxIs ==
  ASSUME NEW S \in SUBSET Int, NEW m \in S, \A y \in S : y <= m
  PROVE  Max(S) = m
<1>1. \E x \in S : \A y \in S : x >= y
  BY SMT
<1>2. Max(S) \in S /\ \A y \in S : Max(S) >= y
  BY <1>1 DEF Max
<1>3. Max(S) \in Int /\ m \in Int
  BY <1>2
<1> HIDE DEF Max
<1> QED
  BY <1>2, <1>3

LEMMA MinIs ==
  ASSUME NEW S \in SUBSET Int, NEW m \in S, \A y \in S : m <= y
  PROVE  Min(S) = m
<1>1. \E x \in S : \A y \in S : x <= y
  OBVIOUS
<1>2. Min(S) \in S /\ \A y \in S : Min(S) <= y
  BY <1>1 DEF Min
<1>3. Min(S) \in Int /\ m \in Int
  BY <1>2
<1> QED
  BY <1>2, <1>3

\* Where the n-th member from s on is, if it is before e.
NthAfter(W, s, e, n) == {p \in In(W, s, e) : Count(W, s, p + 1) = n}

LEMMA NthIs ==
  ASSUME NEW W \in SUBSET Nat, NEW s \in Nat, NEW e \in Nat, NEW p \in In(W, s, e),
         NEW n, Count(W, s, p + 1) = n
  PROVE  NthAfter(W, s, e, n) = {p} /\ Max(NthAfter(W, s, e, n)) = p
<1>1. p \in W /\ s <= p /\ p \in Nat
  BY DEF In
<1>2. ASSUME NEW q \in NthAfter(W, s, e, n)
      PROVE  q = p
  <2>1. q \in W /\ s <= q /\ Count(W, s, q + 1) = Count(W, s, p + 1)
    BY DEF NthAfter, In
  <2> QED
    BY <1>1, <2>1, CountUnique
<1>3. NthAfter(W, s, e, n) = {p}
  BY <1>2 DEF NthAfter
<1>4. {p} \in SUBSET Int /\ p \in {p} /\ \A y \in {p} : y <= p
  BY <1>1
<1>5. Max({p}) = p
  BY <1>4, MaxIs
<1> QED
  BY <1>3, <1>5

\* What the line functions compute, for the newlines W of a text of len bytes.
Skip(W, len, s, n) ==
  IF n = 0 THEN s ELSE IF NthAfter(W, s, len, n) = {} THEN len ELSE Max(NthAfter(W, s, len, n)) + 1

NthBefore(W, e, n) == {p \in In(W, 0, e) : Count(W, p, e) = n + 1}

Rewind(W, e, n) ==
  IF e - 1 <= 0 \/ NthBefore(W, e, n) = {} THEN 0 ELSE Max(NthBefore(W, e, n)) + 1

LineStart(W, pos) == IF In(W, 0, pos) = {} THEN 0 ELSE Max(In(W, 0, pos)) + 1

LineEnd(W, len, pos) == IF In(W, pos, len) = {} THEN len ELSE Min(In(W, pos, len))

LEMMA SkipFound ==
  ASSUME NEW W \in SUBSET Nat, NEW len \in Nat, NEW s \in Nat, NEW p \in In(W, s, len),
         NEW n \in Nat, n # 0, Count(W, s, p + 1) = n
  PROVE  Skip(W, len, s, n) = p + 1
<1>1. NthAfter(W, s, len, n) = {p} /\ Max(NthAfter(W, s, len, n)) = p
  BY NthIs, SMTT(30)
<1>2. NthAfter(W, s, len, n) # {}
  BY <1>1
<1> QED
  BY <1>1, <1>2 DEF Skip

\* Going forward by the lines before a position finds the start of its line.
LEMMA SkipToStart ==
  ASSUME NEW W \in SUBSET Nat, NEW len \in Nat, NEW pos \in Nat, pos <= len
  PROVE  Skip(W, len, 0, Count(W, 0, pos)) = LineStart(W, pos)
<1> DEFINE k == Count(W, 0, pos)
<1>0. k \in Nat /\ (k = 0 <=> In(W, 0, pos) = {})
  BY CountNat
<1>1. CASE k = 0
  BY <1>0, <1>1 DEF Skip, LineStart
<1>2. CASE k # 0
  <2>1. 1 <= k /\ k <= k /\ 0 \in Nat /\ 0 <= pos
    BY <1>0, <1>2
  <2>2. PICK m \in In(W, 0, pos) : Count(W, 0, m + 1) = k
    BY <1>0, <2>1, CountReach
  <2>3. m \in W /\ m \in Nat /\ m < pos /\ 0 <= m
    BY <2>2, InFacts
  <2>4. m \in In(W, 0, len)
    <3>1. m < len
      BY <2>3
    <3> QED
      BY <2>3, <3>1, InFacts
  <2>5. Skip(W, len, 0, k) = m + 1
    BY <1>0, <1>2, <2>1, <2>2, <2>4, SkipFound
  <2>6. ASSUME NEW y \in In(W, 0, pos)
        PROVE  y <= m
    <3>1. y \in W /\ y \in Nat /\ y < pos
      BY <2>6, InFacts
    <3>2. SUFFICES ASSUME m < y
                   PROVE  FALSE
      BY <2>3, <3>1
    <3>3. m + 1 \in Nat /\ 0 <= m + 1 /\ m + 1 <= y /\ y + 1 \in Nat /\ 0 <= y + 1 /\ y + 1 <= pos
      BY <2>3, <3>1, <3>2
    <3>4. Count(W, 0, m + 1) < Count(W, 0, y + 1)
      BY <2>1, <3>1, <3>3, CountGrows
    <3>5. Count(W, 0, pos) = Count(W, 0, y + 1) + Count(W, y + 1, pos)
      BY <2>1, <3>3, CountSplit
    <3>6. Count(W, 0, y + 1) \in Nat /\ Count(W, y + 1, pos) \in Nat
      BY <2>1, <3>3, CountNat
    <3> QED
      BY <1>0, <2>2, <3>4, <3>5, <3>6
  <2>7. In(W, 0, pos) \in SUBSET Int
    <3>1. \A p : p \in In(W, 0, pos) => p \in Nat
      BY InFacts
    <3> QED
      BY <3>1
  <2>8. Max(In(W, 0, pos)) = m
    BY <2>6, <2>7, MaxIs
  <2>9. LineStart(W, pos) = m + 1
    BY <1>0, <1>2, <2>8 DEF LineStart
  <2> QED
    BY <2>5, <2>9
<1> QED
  BY <1>1, <1>2

\* Going back by n lines finds the line that going forward by the others finds.
LEMMA RewindIsSkip ==
  ASSUME NEW W \in SUBSET Nat, NEW len \in Nat, NEW pos \in Nat, pos <= len, pos # 1,
         NEW n \in Nat, n <= Count(W, 0, pos)
  PROVE  Rewind(W, pos, n) = Skip(W, len, 0, Count(W, 0, pos) - n)
<1> DEFINE k == Count(W, 0, pos)
           E == NthBefore(W, pos, n)
           j == k - n
<1>0. k \in Nat /\ j \in Nat /\ j = k - n /\ n <= k
  <2>1. 0 \in Nat /\ k \in Nat
    BY CountNat
  <2> QED
    BY <2>1
<1>1. ASSUME NEW p \in In(W, 0, pos)
      PROVE  /\ p \in W /\ p \in Nat /\ p < pos
             /\ Count(W, p, pos) = n + 1 <=> Count(W, 0, p + 1) = j
             /\ Count(W, 0, p + 1) > 0
  <2>1. p \in W /\ p \in Nat /\ p < pos
    BY <1>1, InFacts
  <2>2. 0 \in Nat /\ 0 <= p /\ p <= p + 1 /\ p + 1 <= pos /\ p + 1 \in Nat /\ p <= pos
    BY <2>1
  <2>3. Count(W, 0, pos) = Count(W, 0, p) + Count(W, p, pos)
    BY <2>1, <2>2, CountSplit
  <2>4. Count(W, 0, p + 1) = Count(W, 0, p) + Count(W, p, p + 1)
    BY <2>1, <2>2, CountSplit
  <2>5. Count(W, p, p + 1) = 1
    BY <2>1, CountOne
  <2>6. Count(W, 0, p) \in Nat /\ Count(W, p, pos) \in Nat
    BY <2>1, <2>2, CountNat
  <2>7. Count(W, 0, p + 1) = Count(W, 0, p) + 1 /\ k = Count(W, 0, p) + Count(W, p, pos)
    BY <2>3, <2>4, <2>5
  <2> QED
    BY <1>0, <2>1, <2>6, <2>7
<1> HIDE DEF k, j
<1>2. E = {p \in In(W, 0, pos) : Count(W, 0, p + 1) = j}
  BY <1>1 DEF NthBefore
<1>3. CASE j = 0
  <2>1. \A p \in In(W, 0, pos) : Count(W, 0, p + 1) # 0
    BY <1>1
  <2>2. E = {}
    BY <1>2, <1>3, <2>1
  <2>3. Rewind(W, pos, n) = 0
    BY <2>2 DEF Rewind
  <2>4. Skip(W, len, 0, j) = 0
    BY <1>3 DEF Skip
  <2> QED
    BY <2>3, <2>4 DEF j, k
<1>4. CASE j # 0
  <2>1. 1 <= j /\ j <= k /\ 0 \in Nat /\ 0 <= pos
    BY <1>0, <1>4
  <2>2. PICK m \in In(W, 0, pos) : Count(W, 0, m + 1) = j
    BY <1>0, <2>1, CountReach DEF k
  <2>3. m \in W /\ m \in Nat /\ m < pos
    BY <1>1, <2>2
  <2>4. m \in In(W, 0, len)
    <3>1. m < len /\ 0 <= m
      BY <2>3
    <3> QED
      BY <2>3, <3>1, InFacts
  <2>5. Skip(W, len, 0, j) = m + 1
    BY <1>0, <1>4, <2>1, <2>2, <2>4, SkipFound
  <2>6. NthAfter(W, 0, pos, j) = {m} /\ Max(NthAfter(W, 0, pos, j)) = m
    BY <2>1, <2>2, NthIs
  <2>7. E = NthAfter(W, 0, pos, j)
    BY <1>2 DEF NthAfter
  <2>8. pos - 1 > 0
    BY <2>3
  <2>9. E # {} /\ Max(E) = m
    BY <2>6, <2>7
  <2> HIDE DEF E
  <2>10. Rewind(W, pos, n) = m + 1
    BY <2>8, <2>9 DEF Rewind, E
  <2> QED
    BY <2>5, <2>10 DEF j, k
<1> QED
  BY <1>3, <1>4

\* The end of a line is in front of the next one, if there is one.
LEMMA EndIsSkip ==
  ASSUME NEW W \in SUBSET Nat, NEW len \in Nat, NEW pos \in Nat, pos <= len
  PROVE  LineEnd(W, len, pos) + (IF Count(W, 0, pos) < Count(W, 0, len) THEN 1 ELSE 0)
           = Skip(W, len, pos, 1)
<1> DEFINE A == In(W, pos, len)
<1>1. /\ Count(W, 0, pos) \in Nat /\ Count(W, pos, len) \in Nat
      /\ Count(W, pos, len) = 0 <=> A = {}
  BY CountNat
<1>2. 0 \in Nat /\ 0 <= pos
  OBVIOUS
<1>3. Count(W, 0, len) = Count(W, 0, pos) + Count(W, pos, len)
  BY <1>2, CountSplit
<1>4. CASE A = {}
  <2>1. ~(Count(W, 0, pos) < Count(W, 0, len))
    BY <1>1, <1>3, <1>4
  <2>2. NthAfter(W, pos, len, 1) = {}
    BY <1>4 DEF NthAfter
  <2>3. LineEnd(W, len, pos) = len /\ Skip(W, len, pos, 1) = len
    BY <1>4, <2>2 DEF LineEnd, Skip
  <2> QED
    BY <2>1, <2>3
<1>5. CASE A # {}
  <2>1. Count(W, 0, pos) < Count(W, 0, len)
    BY <1>1, <1>3, <1>5
  <2>2. 1 \in Nat /\ 1 <= 1 /\ 1 <= Count(W, pos, len) /\ 1 # 0
    BY <1>1, <1>5
  <2>3. PICK m \in A : Count(W, pos, m + 1) = 1
    BY <2>2, CountReach
  <2>4. m \in W /\ m \in Nat /\ pos <= m
    BY <2>3, InFacts
  <2>5. Skip(W, len, pos, 1) = m + 1
    BY <2>2, <2>3, SkipFound
  <2>6. ASSUME NEW y \in A
        PROVE  m <= y
    <3>1. y \in W /\ y \in Nat /\ pos <= y
      BY <2>6, InFacts
    <3>2. SUFFICES ASSUME y < m
                   PROVE  FALSE
      BY <2>4, <3>1
    <3>3. y + 1 \in Nat /\ pos <= y + 1 /\ y + 1 <= m /\ y <= y
      BY <2>4, <3>1, <3>2
    <3>4. Count(W, pos, y + 1) < Count(W, pos, m + 1)
      BY <2>4, <3>3, CountGrows
    <3>5. Count(W, pos, y) < Count(W, pos, y + 1)
      BY <3>1, <3>3, CountGrows
    <3>6. Count(W, pos, y) \in Nat /\ Count(W, pos, y + 1) \in Nat
      BY <3>1, <3>3, CountNat
    <3> QED
      BY <2>3, <3>4, <3>5, <3>6
  <2>7. A \in SUBSET Int
    <3>1. \A p : p \in A => p \in Nat
      BY InFacts
    <3> HIDE DEF A
    <3> QED
      BY <3>1
  <2>8. Min(A) = m
    BY <2>6, <2>7, MinIs
  <2>9. LineEnd(W, len, pos) = m
    BY <1>5, <2>8 DEF LineEnd
  <2> QED
    BY <2>1, <2>5, <2>9
<1> QED
  BY <1>4, <1>5

\* Shifting a set by one keeps the number of its members.
LEMMA CountShifted ==
  ASSUME NEW W \in SUBSET Nat, NEW pos \in Nat, NEW S,
         \A i : i \in S <=> i \in 1 .. pos /\ i - 1 \in W
  PROVE  Cardinality(S) = Count(W, 0, pos)
<1> DEFINE A == In(W, 0, pos)
           f == [p \in A |-> p + 1]
<1>1. IsFiniteSet(A)
  BY CountNat DEF Count
<1>2. \A p : p \in A <=> p \in W /\ p \in Nat /\ p < pos
  <2>1. \A p : (p \in W => p \in Nat) /\ (p \in A <=> p \in W /\ 0 <= p /\ p < pos)
    BY InFacts
  <2> QED
    BY <2>1
<1> HIDE DEF A
<1>3. \A p \in A : p + 1 \in S
  <2> SUFFICES ASSUME NEW p \in A
               PROVE  p + 1 \in S
    OBVIOUS
  <2>1. p \in W /\ p \in Nat /\ p < pos
    BY <1>2
  <2>2. p + 1 \in 1 .. pos /\ (p + 1) - 1 = p
    BY <2>1
  <2> QED
    BY <2>1, <2>2
<1>4. f \in [A -> S]
  BY <1>3
<1>5. ASSUME NEW x \in A, NEW y \in A, f[x] = f[y]
      PROVE  x = y
  <2>1. x \in Nat /\ y \in Nat /\ x + 1 = y + 1
    BY <1>2, <1>5
  <2> QED
    BY <2>1
<1>6. ASSUME NEW t \in S
      PROVE  \E p \in A : f[p] = t
  <2>1. t \in 1 .. pos /\ t - 1 \in W
    BY <1>6
  <2>2. t - 1 \in A
    <3>1. t - 1 \in Nat /\ t - 1 < pos
      BY <2>1
    <3> QED
      BY <1>2, <2>1, <3>1
  <2>3. f[t - 1] = (t - 1) + 1 /\ (t - 1) + 1 = t
    BY <2>1, <2>2
  <2> QED
    BY <2>2, <2>3
<1> HIDE DEF f
<1>7. f \in Injection(A, S)
  BY <1>4, <1>5 DEF Injection, IsInjective
<1>8. f \in Surjection(A, S)
  BY <1>4, <1>6 DEF Surjection
<1>9. ExistsBijection(A, S)
  BY <1>7, <1>8 DEF ExistsBijection, Bijection
<1> QED
  BY <1>1, <1>9, FS_Bijection DEF Count, A

\* The newlines of t are those of its text.
LEMMA NewlinesFacts ==
  ASSUME NEW t \in Buffers, GapOK(t)
  PROVE  LET W == Newlines(t, 0, t.length)
         IN  /\ W \in SUBSET Nat
             /\ \A i \in 1 .. t.length : i - 1 \in W <=> TextOf(t)[i] = Newline
             /\ \A s, e \in Nat : e <= t.length => Newlines(t, s, e) = In(W, s, e)
<1> DEFINE len == t.length
           W == Newlines(t, 0, len)
<1>1. t.gapStart \in Nat /\ t.length \in Nat /\ Gap(t) \in Nat /\ len \in Nat
  BY GapFacts
<1>2. \A p : p \in W <=> p \in 0 .. len - 1 /\ ByteAt(t, p) = Newline
  BY DEF Newlines
<1>3. W \in SUBSET Nat
  BY DEF Newlines
<1>4. ASSUME NEW i \in 1 .. len
      PROVE  ByteAt(t, i - 1) = TextOf(t)[i]
  <2>1. TextOf(t)[i] = IF i <= t.gapStart THEN t.buf[i] ELSE t.buf[i + Gap(t)]
    BY <1>4, TextFacts
  <2>2. CASE i <= t.gapStart
    <3>1. i - 1 < t.gapStart /\ (i - 1) + 1 + 0 = i
      BY <1>1, <2>2
    <3> QED
      BY <2>1, <2>2, <3>1 DEF ByteAt
  <2>3. CASE ~(i <= t.gapStart)
    <3>1. ~(i - 1 < t.gapStart) /\ (i - 1) + 1 + Gap(t) = i + Gap(t)
      BY <1>1, <2>3
    <3> QED
      BY <2>1, <2>3, <3>1 DEF ByteAt
  <2> QED
    BY <2>2, <2>3
<1>5. ASSUME NEW i \in 1 .. len
      PROVE  i - 1 \in W <=> TextOf(t)[i] = Newline
  <2>1. i - 1 \in 0 .. len - 1
    BY <1>1
  <2> QED
    BY <1>2, <1>4, <2>1
<1>6. ASSUME NEW s \in Nat, NEW e \in Nat, e <= len
      PROVE  Newlines(t, s, e) = In(W, s, e)
  <2>1. \A p : p \in Newlines(t, s, e) <=> p \in s .. e - 1 /\ ByteAt(t, p) = Newline
    BY DEF Newlines
  <2>2. \A p : p \in In(W, s, e) <=> p \in W /\ s <= p /\ p < e
    BY <1>3, InFacts
  <2>3. \A p : p \in s .. e - 1 <=> p \in 0 .. len - 1 /\ s <= p /\ p < e
    BY <1>1, <1>6
  <2>4. \A p : p \in Newlines(t, s, e) <=> p \in In(W, s, e)
    BY <1>2, <2>1, <2>2, <2>3, Zenon
  <2> QED
    BY <2>4, Zenon
<1> QED
  BY <1>3, <1>5, <1>6

\* The line functions, of the newlines alone.
LEMMA LineFunctions ==
  ASSUME NEW t \in Buffers, GapOK(t), NEW W, W = Newlines(t, 0, t.length),
         NEW pos \in Nat, pos <= t.length, NEW n \in Nat
  PROVE  /\ count_lines(t, 0, pos) = Count(W, 0, pos)
         /\ skip_lines(t, pos, n) = Skip(W, t.length, pos, n)
         /\ rewind_lines(t, pos, n) = Rewind(W, pos, n)
         /\ line_start(t, pos) = LineStart(W, pos)
         /\ line_end(t, pos) = LineEnd(W, t.length, pos)
<1> DEFINE len == t.length
           N(s, e) == Newlines(t, s, e)
<1>1. W \in SUBSET Nat /\ \A s, e \in Nat : e <= len => N(s, e) = In(W, s, e)
  BY NewlinesFacts
<1>2. len \in Nat /\ 0 \in Nat /\ len <= len /\ 0 <= pos
  BY GapFacts
<1>3. N(0, pos) = In(W, 0, pos) /\ N(pos, len) = In(W, pos, len)
  BY <1>1, <1>2
<1>4. count_lines(t, 0, pos) = Count(W, 0, pos)
  BY <1>2, <1>3 DEF count_lines, Count
<1>5. line_start(t, pos) = LineStart(W, pos)
  BY <1>3, Zenon DEF line_start, LineStart
<1>6. line_end(t, pos) = LineEnd(W, len, pos)
  BY <1>3, Zenon DEF line_end, LineEnd
<1>7. skip_lines(t, pos, n) = Skip(W, len, pos, n)
  <2>1. ASSUME NEW p \in In(W, pos, len)
        PROVE  Cardinality(N(pos, p + 1)) = Count(W, pos, p + 1)
    <3>1. p \in Nat /\ p < len
      BY <1>1, InFacts
    <3>2. p + 1 \in Nat /\ p + 1 <= len
      BY <1>2, <3>1
    <3> QED
      BY <1>1, <3>2 DEF Count
  <2>2. {p \in N(pos, len) : Cardinality(N(pos, p + 1)) = n} = NthAfter(W, pos, len, n)
    BY <1>3, <2>1 DEF NthAfter
  <2> QED
    BY <2>2, Zenon DEF skip_lines, Skip
<1>8. rewind_lines(t, pos, n) = Rewind(W, pos, n)
  <2>1. ASSUME NEW p \in In(W, 0, pos)
        PROVE  Cardinality(N(p, pos)) = Count(W, p, pos)
    <3>1. p \in Nat
      BY <1>1, InFacts
    <3> QED
      BY <1>1, <3>1 DEF Count
  <2>2. {p \in N(0, pos) : Cardinality(N(p, pos)) = n + 1} = NthBefore(W, pos, n)
    BY <1>3, <2>1 DEF NthBefore
  <2> QED
    BY <2>2, Zenon DEF rewind_lines, Rewind
<1> QED
  BY <1>4, <1>5, <1>6, <1>7, <1>8

\* Scrolling by lines, forward and back, agrees with counting them, wherever the
\* gap is and whatever the text, but for rewind_lines() from position 1.
THEOREM LinesAlwaysAgree == Spec => []LinesAgree
<1>1. IInv => LinesAgree
  <2> SUFFICES ASSUME IInv, NEW pos \in Positions
               PROVE  LET before == count_lines(b, 0, pos)
                      IN  /\ before = Cardinality({i \in 1 .. pos : TextOf(b)[i] = Newline})
                          /\ skip_lines(b, 0, before) = line_start(b, pos)
                          /\ \A n \in 0 .. before :
                               pos # 1 => rewind_lines(b, pos, n) = skip_lines(b, 0, before - n)
                          /\ line_end(b, pos) + (IF before < count_lines(b, 0, b.length) THEN 1 ELSE 0)
                               = skip_lines(b, pos, 1)
    BY DEF LinesAgree
  <2> DEFINE len == b.length
             W == Newlines(b, 0, len)
             k == Count(W, 0, pos)
             S == {i \in 1 .. pos : TextOf(b)[i] = Newline}
  <2>1. b \in Buffers /\ GapOK(b) /\ len \in Nat /\ pos \in Nat /\ pos <= len /\ 0 \in Nat /\ 0 <= len /\ 1 \in Nat /\ len <= len
    BY GapFacts DEF IInv, Positions
  <2>2. W \in SUBSET Nat /\ \A i \in 1 .. len : i - 1 \in W <=> TextOf(b)[i] = Newline
    BY <2>1, NewlinesFacts
  <2>w. W = Newlines(b, 0, b.length)
    OBVIOUS
  <2> HIDE DEF W
  <2>3. k \in Nat
    BY <2>1, <2>2, CountNat
  <2>4. /\ count_lines(b, 0, pos) = k /\ skip_lines(b, pos, 1) = Skip(W, len, pos, 1)
        /\ line_start(b, pos) = LineStart(W, pos) /\ line_end(b, pos) = LineEnd(W, len, pos)
        /\ count_lines(b, 0, len) = Count(W, 0, len)
    BY <2>1, <2>w, LineFunctions
  <2>5. \A n \in Nat : rewind_lines(b, pos, n) = Rewind(W, pos, n) /\ skip_lines(b, 0, n) = Skip(W, len, 0, n)
    BY <2>1, <2>w, LineFunctions
  <2>6. Cardinality(S) = k
    <3>1. \A i : i \in S <=> i \in 1 .. pos /\ i - 1 \in W
      BY <2>1, <2>2
    <3> HIDE DEF S
    <3> QED
      BY <2>1, <2>2, <3>1, CountShifted
  <2> HIDE DEF len
  <2>7. Skip(W, len, 0, k) = LineStart(W, pos)
    BY <2>1, <2>2, SkipToStart
  <2>8. ASSUME NEW n \in 0 .. k, pos # 1
        PROVE  rewind_lines(b, pos, n) = skip_lines(b, 0, k - n)
    <3>1. n \in Nat /\ n <= k /\ k - n \in Nat
      BY <2>3
    <3>2. Rewind(W, pos, n) = Skip(W, len, 0, k - n)
      BY <2>1, <2>2, <2>8, <3>1, RewindIsSkip
    <3> QED
      BY <2>5, <3>1, <3>2
  <2>9. LineEnd(W, len, pos) + (IF k < Count(W, 0, len) THEN 1 ELSE 0) = Skip(W, len, pos, 1)
    BY <2>1, <2>2, EndIsSkip
  <2> HIDE DEF k
  <2>10. skip_lines(b, 0, k) = line_start(b, pos)
    BY <2>3, <2>4, <2>5, <2>7
  <2>11. line_end(b, pos) + (IF k < count_lines(b, 0, b.length) THEN 1 ELSE 0) = skip_lines(b, pos, 1)
    BY <2>4, <2>9 DEF len
  <2> QED
    BY <2>4, <2>6, <2>8, <2>10, <2>11, Zenon DEF S
<1> QED
  BY <1>1, BufferInvariant, PTL
=============================================================================
