-------------------------- MODULE FlTimeoutProofs ---------------------------
(***************************************************************************)
(* Proofs about FlTimeout for any number of timers, any delays, any clock  *)
(* and any depth of nested event loops.                                    *)
(***************************************************************************)
EXTENDS FlTimeout, SequenceLemmas

Frame == [phase : {"timeouts", "callback", "sleep", "events"},
          timer : Timers \union {0}, until : Nat, new : SUBSET Timers]

\* The three lists share no entry, repeat none and lose none.
ListsOK(act, cur, fre, n) ==
  /\ Distinct(act) /\ Distinct(cur) /\ Distinct(fre)
  /\ ToSet(act) \intersect ToSet(cur) = {}
  /\ ToSet(act) \intersect ToSet(fre) = {}
  /\ ToSet(cur) \intersect ToSet(fre) = {}
  /\ Len(act) + Len(cur) + Len(fre) = n
  /\ ToSet(act) \union ToSet(cur) \union ToSet(fre) = 1 .. n

\* The current timers are those of the calls of Fl::wait() that run a
\* callback, the innermost one first.
TimersOf(st) == [i \in 1 .. Len(st) |-> st[i].timer]
Running(st)  == Reverse(Kept(TimersOf(st), Timers))

\* Only the innermost call of Fl::wait() is anywhere but in the program's code.
StackOK(st, cur) ==
  /\ \A i \in 1 .. Len(st) : st[i].timer # 0 <=> st[i].phase = "callback"
  /\ \A i \in 1 .. Len(st) - 1 : st[i].phase \in {"callback", "events"}
  /\ cur = Running(st)

\* The active timers are in the order of their times.
Sorted(s, tm) == \A i, j \in 1 .. Len(s) : i < j => tm[s[i]] <= tm[s[j]]

\* The inductive invariant.
IInv ==
  /\ TypeOK
  /\ ListsOK(active, current, free, allocated)
  /\ StackOK(stack, current)
  /\ Sorted(active, time)
  /\ NoDrift
  /\ NoOversleep

-----------------------------------------------------------------------------
\* insert() keeps the order and adds the one timer.
LEMMA InsertFacts ==
  ASSUME NEW s \in Seq(Timers), NEW t \in Timers, NEW tm \in [Timers -> Int], Sorted(s, tm)
  PROVE  /\ Insert(s, t, tm) \in Seq(Timers)
         /\ Len(Insert(s, t, tm)) = Len(s) + 1
         /\ ToSet(Insert(s, t, tm)) = ToSet(s) \union {t}
         /\ Distinct(s) /\ t \notin ToSet(s) => Distinct(Insert(s, t, tm))
         /\ Sorted(Insert(s, t, tm), tm)
<1> DEFINE I == {i \in 1 .. Len(s) : tm[s[i]] > tm[t]}
           p == IF I = {} THEN Len(s) + 1 ELSE Min(I)
           r == InsertAt(s, p, t)
<1>1. I \in SUBSET (1 .. Len(s)) /\ Len(s) \in Nat
  OBVIOUS
<1>2. /\ p \in 1 .. Len(s) + 1
      /\ \A i \in 1 .. Len(s) : i < p => tm[s[i]] <= tm[t]
      /\ p <= Len(s) => tm[s[p]] > tm[t]
  <2>1. \A i \in 1 .. Len(s) : s[i] \in Timers /\ tm[s[i]] \in Int /\ tm[t] \in Int
    OBVIOUS
  <2>2. CASE I = {}
    <3>1. p = Len(s) + 1
      BY <2>2
    <3>2. \A i \in 1 .. Len(s) : ~(tm[s[i]] > tm[t])
      BY <2>2
    <3> HIDE DEF p, I
    <3> QED
      BY <1>1, <2>1, <3>1, <3>2
  <2>3. CASE I # {}
    <3>1. Min(I) \in I /\ \A i \in I : Min(I) <= i
      BY <1>1, <2>3, FirstIndex
    <3>2. p = Min(I)
      BY <2>3
    <3> HIDE DEF p
    <3>3. p \in I /\ \A i \in I : p <= i
      BY <3>1, <3>2
    <3> QED
      BY <3>3, <2>1
  <2> QED
    BY <2>2, <2>3
<1> HIDE DEF p
<1>4. /\ r \in Seq(Timers) /\ Len(r) = Len(s) + 1
      /\ \A i \in 1 .. Len(s) + 1 :
           r[i] = IF i < p THEN s[i] ELSE IF i = p THEN t ELSE s[i - 1]
  BY <1>2, InsertAtFacts
<1>5. /\ ToSet(r) = ToSet(s) \union {t}
      /\ Distinct(s) /\ t \notin ToSet(s) => Distinct(r)
  BY <1>2, InsertAtSet
<1>3. Insert(s, t, tm) = r
  <2>1. CASE I = {}
    <3>1. Insert(s, t, tm) = Append(s, t)
      BY <2>1 DEF Insert, SelectInSeq
    <3>2. p = Len(s) + 1
      BY <2>1 DEF p
    <3>3. r = Append(s, t)
      <4> HIDE DEF r
      <4>1. Append(s, t) \in Seq(Timers) /\ Len(Append(s, t)) = Len(r)
        BY <1>4
      <4>2. \A i \in 1 .. Len(r) : r[i] = Append(s, t)[i]
        <5>1. SUFFICES ASSUME NEW i \in 1 .. Len(s) + 1 PROVE r[i] = Append(s, t)[i]
          BY <1>4
        <5>2. i \in 1 .. Len(s) \/ i = Len(s) + 1
          BY <1>1
        <5>3. CASE i \in 1 .. Len(s)
          BY <1>4, <3>2, <5>3
        <5>4. CASE i = Len(s) + 1
          BY <1>1, <1>4, <3>2, <5>4
        <5> QED
          BY <5>2, <5>3, <5>4
      <4> QED
        BY <1>4, <4>1, <4>2, SeqEqual
    <3> QED
      BY <3>1, <3>3
  <2>2. CASE I # {}
    <3>1. Min(I) \in I
      BY <1>1, <2>2, FirstIndex
    <3>2. Min(I) # 0
      BY <3>1
    <3>3. SelectInSeq(s, LAMBDA u : tm[u] > tm[t]) = Min(I)
      BY <2>2 DEF SelectInSeq
    <3>4. p = Min(I)
      BY <2>2 DEF p
    <3> QED
      BY <2>2, <3>2, <3>3, <3>4 DEF Insert
  <2> QED
    BY <2>1, <2>2
<1> HIDE DEF I, r
<1>6. Sorted(r, tm)
  <2>1. SUFFICES ASSUME NEW i \in 1 .. Len(s) + 1, NEW j \in 1 .. Len(s) + 1, i < j
                 PROVE  tm[r[i]] <= tm[r[j]]
    BY <1>4 DEF Sorted
  <2>2. \A k \in 1 .. Len(s) : tm[s[k]] \in Int /\ tm[t] \in Int
    OBVIOUS
  <2>3. \A k, l \in 1 .. Len(s) : k < l => tm[s[k]] <= tm[s[l]]
    BY DEF Sorted
  <2>4. \A k \in 1 .. Len(s) : k >= p => tm[t] <= tm[s[k]]
    <3>1. SUFFICES ASSUME NEW k \in 1 .. Len(s), k >= p PROVE tm[t] <= tm[s[k]]
      OBVIOUS
    <3>2. p \in 1 .. Len(s) /\ tm[s[p]] > tm[t]
      BY <1>1, <1>2, <3>1
    <3>3. k = p \/ tm[s[p]] <= tm[s[k]]
      BY <3>1, <3>2, <2>3
    <3> QED
      BY <3>2, <3>3, <2>2
  <2>5. /\ i < p => i \in 1 .. Len(s) /\ r[i] = s[i]
        /\ i = p => r[i] = t
        /\ i > p => i - 1 \in 1 .. Len(s) /\ r[i] = s[i - 1]
    BY <1>1, <1>2, <1>4
  <2>6. /\ j < p => j \in 1 .. Len(s) /\ r[j] = s[j]
        /\ j = p => r[j] = t
        /\ j > p => j - 1 \in 1 .. Len(s) /\ r[j] = s[j - 1]
    BY <1>1, <1>2, <1>4
  <2>7. CASE j < p
    BY <2>1, <2>3, <2>5, <2>6, <2>7, <1>2
  <2>8. CASE j = p
    BY <2>1, <2>5, <2>6, <2>8, <1>2
  <2>9. CASE j > p /\ i < p
    <3>1. tm[s[i]] <= tm[t] /\ i \in 1 .. Len(s) /\ j - 1 \in 1 .. Len(s) /\ j - 1 >= p
      BY <2>5, <2>6, <2>9, <1>2
    <3> QED
      BY <3>1, <2>2, <2>4, <2>5, <2>6, <2>9
  <2>10. CASE j > p /\ i = p
    BY <2>4, <2>5, <2>6, <2>10, <1>2
  <2>11. CASE j > p /\ i > p
    <3>1. r[i] = s[i - 1] /\ r[j] = s[j - 1] /\ i - 1 < j - 1
          /\ i - 1 \in 1 .. Len(s) /\ j - 1 \in 1 .. Len(s)
      BY <2>1, <2>5, <2>6, <2>11
    <3> QED
      BY <3>1, <2>3
  <2> QED
    BY <1>2, <2>7, <2>8, <2>9, <2>10, <2>11
<1> QED
  BY <1>3, <1>4, <1>5, <1>6

-----------------------------------------------------------------------------
(* The stack of calls of Fl::wait() and the list of current timers.        *)

\* A call on top adds the timer it runs, if any.
LEMMA RunningAppend ==
  ASSUME NEW st \in Seq(Frame), NEW f \in Frame
  PROVE  /\ f.timer # 0 => Running(Append(st, f)) = <<f.timer>> \o Running(st)
         /\ f.timer = 0 => Running(Append(st, f)) = Running(st)
         /\ Running(st) \in Seq(Timers)
<1> DEFINE X == Timers \union {0}
           u == TimersOf(st)
           k == Kept(u, Timers)
<1>1. f.timer \in X /\ (f.timer # 0 => f.timer \in Timers) /\ 0 \notin Timers
  BY DEF Frame, Timers
<1>2. \A i \in 1 .. Len(st) : st[i].timer \in X
  <2>1. \A g \in Frame : g.timer \in X
    BY DEF Frame
  <2>2. \A i \in 1 .. Len(st) : st[i] \in Frame
    OBVIOUS
  <2> QED
    BY <2>1, <2>2
<1>3. u \in Seq(X) /\ Len(u) = Len(st)
  BY <1>2 DEF TimersOf
<1>4. TimersOf(Append(st, f)) = Append(u, f.timer)
  <2>1. /\ TimersOf(Append(st, f)) \in Seq(X) /\ Append(u, f.timer) \in Seq(X)
        /\ Len(TimersOf(Append(st, f))) = Len(st) + 1 /\ Len(Append(u, f.timer)) = Len(st) + 1
    BY <1>1, <1>2, <1>3 DEF TimersOf
  <2>2. ASSUME NEW i \in 1 .. Len(st) + 1
        PROVE  TimersOf(Append(st, f))[i] = Append(u, f.timer)[i]
    <3>1. CASE i = Len(st) + 1
      BY <1>3, <3>1 DEF TimersOf
    <3>2. CASE i \in 1 .. Len(st)
      BY <1>3, <3>2 DEF TimersOf
    <3>3. i = Len(st) + 1 \/ i \in 1 .. Len(st)
      OBVIOUS
    <3> QED
      BY <3>1, <3>2, <3>3
  <2> QED
    BY <2>1, <2>2, SeqEqual
<1>5. k \in Seq(X) /\ k \in Seq(Timers)
  <2>1. k \in Seq(X) /\ ToSet(k) = ToSet(u) \intersect Timers
    BY <1>3, KeptType, KeptSet
  <2> HIDE DEF k
  <2>2. \A i \in 1 .. Len(k) : k[i] \in Timers
    BY <2>1 DEF ToSet
  <2> QED
    BY <2>1, <2>2
<1>6. /\ f.timer \in Timers => Kept(Append(u, f.timer), Timers) = Append(k, f.timer)
      /\ f.timer \notin Timers => Kept(Append(u, f.timer), Timers) = k
  BY <1>1, <1>3, KeptAppend
<1>7. f.timer \in Timers => Reverse(Append(k, f.timer)) = <<f.timer>> \o Reverse(k)
  BY <1>5, ReverseAppend
<1>8. Reverse(k) \in Seq(Timers)
  BY <1>5, ReverseFacts
<1> QED
  BY <1>1, <1>4, <1>6, <1>7, <1>8, Zenon DEF Running

\* A change of the frames that keeps their phases and timers.
LEMMA StackMapped ==
  ASSUME NEW st \in Seq(Frame), NEW su \in Seq(Frame), NEW cur, Len(st) = Len(su),
         \A i \in 1 .. Len(st) : su[i].timer = st[i].timer /\ su[i].phase = st[i].phase,
         StackOK(st, cur)
  PROVE  StackOK(su, cur)
<1>1. TimersOf(su) = TimersOf(st)
  BY DEF TimersOf
<1> QED
  BY <1>1 DEF StackOK, Running

\* Taking the stack apart: what lies below the top, and the top.
LEMMA StackBelow ==
  ASSUME NEW st \in Seq(Frame), NEW cur, st # <<>>, StackOK(st, cur)
  PROVE  /\ Front(st) \in Seq(Frame) /\ st[Len(st)] \in Frame
         /\ StackOK(Front(st), Running(Front(st)))
         /\ st[Len(st)].timer = 0 => cur = Running(Front(st))
         /\ st[Len(st)].timer # 0 => cur = <<st[Len(st)].timer>> \o Running(Front(st))
         /\ \A i \in 1 .. Len(Front(st)) : Front(st)[i].phase \in {"callback", "events"}
         /\ Running(Front(st)) \in Seq(Timers)
<1>1. /\ Front(st) \in Seq(Frame) /\ Last(st) \in Frame /\ st = Append(Front(st), Last(st))
      /\ Len(st) \in Nat \ {0} /\ Len(Front(st)) = Len(st) - 1
      /\ \A i \in 1 .. Len(st) - 1 : Front(st)[i] = st[i]
  BY FrontLast
<1>2. Last(st) = st[Len(st)]
  BY DEF Last
<1>3. /\ Last(st).timer # 0 => Running(Append(Front(st), Last(st))) = <<Last(st).timer>> \o Running(Front(st))
      /\ Last(st).timer = 0 => Running(Append(Front(st), Last(st))) = Running(Front(st))
      /\ Running(Front(st)) \in Seq(Timers)
  BY <1>1, RunningAppend
<1>4. cur = Running(Append(Front(st), Last(st)))
  BY <1>1 DEF StackOK
<1>5. \A i \in 1 .. Len(Front(st)) : i \in 1 .. Len(st) /\ i \in 1 .. Len(st) - 1 /\ Front(st)[i] = st[i]
  BY <1>1
<1>6. StackOK(Front(st), Running(Front(st)))
  <2>1. \A i \in 1 .. Len(Front(st)) - 1 : i \in 1 .. Len(Front(st))
    BY <1>1
  <2> QED
    BY <1>5, <2>1 DEF StackOK
<1>7. \A i \in 1 .. Len(Front(st)) : Front(st)[i].phase \in {"callback", "events"}
  BY <1>5 DEF StackOK
<1> QED
  BY <1>1, <1>2, <1>3, <1>4, <1>6, <1>7

\* Putting it together again.
LEMMA StackPush ==
  ASSUME NEW st \in Seq(Frame), NEW f \in Frame, StackOK(st, Running(st)),
         \A i \in 1 .. Len(st) : st[i].phase \in {"callback", "events"},
         f.timer # 0 <=> f.phase = "callback"
  PROVE  /\ f.timer = 0 => StackOK(Append(st, f), Running(st))
         /\ f.timer # 0 => StackOK(Append(st, f), <<f.timer>> \o Running(st))
<1> DEFINE u == Append(st, f)
<1>1. /\ Len(st) \in Nat /\ Len(u) = Len(st) + 1 /\ u[Len(st) + 1] = f
      /\ \A i \in 1 .. Len(st) : u[i] = st[i]
  OBVIOUS
<1>2. /\ f.timer # 0 => Running(u) = <<f.timer>> \o Running(st)
      /\ f.timer = 0 => Running(u) = Running(st)
  BY RunningAppend
<1> HIDE DEF u
<1>3. \A i \in 1 .. Len(u) : i \in 1 .. Len(st) \/ i = Len(st) + 1
  BY <1>1
<1>4. \A i \in 1 .. Len(u) : u[i].timer # 0 <=> u[i].phase = "callback"
  BY <1>1, <1>3 DEF StackOK
<1>5. \A i \in 1 .. Len(u) - 1 : u[i].phase \in {"callback", "events"}
  BY <1>1
<1>6. StackOK(u, Running(u))
  BY <1>4, <1>5 DEF StackOK
<1> QED
  BY <1>2, <1>6 DEF u

\* A new frame on top of the stack in the place of the old one.
LEMMA StackTop ==
  ASSUME NEW st \in Seq(Frame), NEW cur, st # <<>>, StackOK(st, cur),
         NEW f \in Frame, f.timer # 0 <=> f.phase = "callback"
  PROVE  LET su == [st EXCEPT ![Len(st)] = f]
         IN  /\ su \in Seq(Frame) /\ Len(su) = Len(st) /\ su[Len(st)] = f
             /\ st[Len(st)].timer = 0 /\ f.timer = 0 => StackOK(su, cur)
             /\ st[Len(st)].timer = 0 /\ f.timer # 0 => StackOK(su, <<f.timer>> \o cur)
             /\ st[Len(st)].timer # 0 /\ f.timer = 0 =>
                  /\ cur # <<>> /\ Head(cur) = st[Len(st)].timer
                  /\ StackOK(su, Tail(cur))
<1> DEFINE su == [st EXCEPT ![Len(st)] = f]
           b == Front(st)
           g == st[Len(st)]
<1>1. su = Append(b, f) /\ su \in Seq(Frame) /\ Len(su) = Len(st) /\ su[Len(st)] = f
  BY ReplaceLast, FrontLast
<1>2. /\ b \in Seq(Frame) /\ g \in Frame /\ StackOK(b, Running(b))
      /\ g.timer = 0 => cur = Running(b)
      /\ g.timer # 0 => cur = <<g.timer>> \o Running(b)
      /\ \A i \in 1 .. Len(b) : b[i].phase \in {"callback", "events"}
      /\ Running(b) \in Seq(Timers)
  BY StackBelow
<1> HIDE DEF b
<1>3. /\ f.timer = 0 => StackOK(Append(b, f), Running(b))
      /\ f.timer # 0 => StackOK(Append(b, f), <<f.timer>> \o Running(b))
  BY <1>2, StackPush
<1>4. g.timer # 0 => /\ <<g.timer>> \o Running(b) # <<>>
                     /\ Head(<<g.timer>> \o Running(b)) = g.timer
                     /\ Tail(<<g.timer>> \o Running(b)) = Running(b)
  <2> SUFFICES ASSUME g.timer # 0
               PROVE  /\ <<g.timer>> \o Running(b) # <<>>
                      /\ Head(<<g.timer>> \o Running(b)) = g.timer
                      /\ Tail(<<g.timer>> \o Running(b)) = Running(b)
    OBVIOUS
  <2>1. g.timer \in Timers
    BY <1>2 DEF Frame
  <2> HIDE DEF g
  <2> QED
    BY <2>1, <1>2
<1> QED
  BY <1>1, <1>2, <1>3, <1>4

-----------------------------------------------------------------------------
(* What the parts of the invariant say, in the form the steps use.         *)
LEMMA TypeFacts ==
  ASSUME TypeOK
  PROVE  /\ clock \in Nat /\ clock <= MaxClock /\ prev \in Nat /\ prev <= clock
         /\ active \in Seq(Timers) /\ current \in Seq(Timers) /\ free \in Seq(Timers)
         /\ allocated \in Nat /\ allocated <= MaxTimers
         /\ time \in [Timers -> Int] /\ skip \in [Timers -> {0, 1}]
         /\ callback \in [Timers -> Callbacks] /\ data \in [Timers -> Data]
         /\ due \in [Timers -> Nat]
         /\ stack \in Seq(Frame) /\ Len(stack) <= MaxDepth
         /\ ToSet(active) \subseteq Timers /\ ToSet(current) \subseteq Timers
         /\ ToSet(free) \subseteq Timers
<1>1. active \in Seq(Timers) /\ current \in Seq(Timers) /\ free \in Seq(Timers)
  BY DEF TypeOK
<1>2. ToSet(active) \subseteq Timers /\ ToSet(current) \subseteq Timers /\ ToSet(free) \subseteq Timers
  BY <1>1 DEF ToSet
<1>3. clock \in Nat /\ clock <= MaxClock /\ prev \in Nat /\ prev <= clock
  BY TimeoutAssumption DEF TypeOK
<1>4. allocated \in Nat /\ allocated <= MaxTimers
  BY TimeoutAssumption DEF TypeOK
<1> QED
  BY <1>1, <1>2, <1>3, <1>4 DEF TypeOK, Frame, Depth

\* elapse_timeouts() keeps the order of the timers, and what it takes from their
\* times is what it adds to the time of the latest call.
LEMMA ElapsedFacts ==
  ASSUME TypeOK, NoDrift, Sorted(active, time), NEW ts, ToSet(active) \subseteq ts, ts \subseteq Listed
  PROVE  /\ Elapsed(time, ts) \in [Timers -> Int]
         /\ Sorted(active, Elapsed(time, ts))
         /\ \A t \in ts : t \in Timers /\ clock + Elapsed(time, ts)[t] = due[t]
<1>1. Elapsed(time, ts) \in [Timers -> Int]
  BY TypeFacts DEF Elapsed
<1>2. ASSUME NEW t \in ts
      PROVE  t \in Timers /\ clock + Elapsed(time, ts)[t] = due[t]
  <2>1. t \in Timers /\ prev + time[t] = due[t]
    BY TypeFacts DEF NoDrift, Listed
  <2> QED
    BY <2>1, TypeFacts DEF Elapsed
<1>3. ASSUME NEW i \in 1 .. Len(active), NEW j \in 1 .. Len(active), i < j
      PROVE  Elapsed(time, ts)[active[i]] <= Elapsed(time, ts)[active[j]]
  <2>0. active \in Seq(Timers) /\ time \in [Timers -> Int] /\ clock \in Nat /\ prev \in Nat
    BY TypeFacts
  <2>1. active[i] \in ts /\ active[j] \in ts /\ active[i] \in Timers /\ active[j] \in Timers
    BY <2>0 DEF ToSet
  <2>2. time[active[i]] <= time[active[j]]
    BY <1>3 DEF Sorted
  <2>3. \A t \in ts : t \in Timers => Elapsed(time, ts)[t] = time[t] - (clock - prev)
    BY DEF Elapsed
  <2>4. time[active[i]] \in Int /\ time[active[j]] \in Int /\ clock - prev \in Int
    BY <2>0, <2>1
  <2>5. /\ Elapsed(time, ts)[active[i]] = time[active[i]] - (clock - prev)
        /\ Elapsed(time, ts)[active[j]] = time[active[j]] - (clock - prev)
    BY <2>1, <2>3
  <2> QED
    BY <2>2, <2>4, <2>5
<1> QED
  BY <1>1, <1>2, <1>3 DEF Sorted

\* A timer that is new to the list does not matter to its order.
LEMMA SortedExcept ==
  ASSUME NEW s \in Seq(Timers), NEW tm \in [Timers -> Int], NEW t \in Timers, NEW v \in Int,
         t \notin ToSet(s), Sorted(s, tm)
  PROVE  Sorted(s, [tm EXCEPT ![t] = v])
<1>1. \A i \in 1 .. Len(s) : s[i] \in Timers /\ s[i] # t
  BY DEF ToSet
<1> QED
  BY <1>1 DEF Sorted

\* get() takes an entry that is in neither of the other lists, and the lists
\* stay apart.
LEMMA EntryFacts ==
  ASSUME TypeOK, ListsOK(active, current, free, allocated), HasEntry
  PROVE  /\ Entry \in Timers /\ Entry \notin ToSet(active) /\ Entry \notin ToSet(current)
         /\ \A act \in Seq(Timers) :
              /\ Len(act) = Len(active) + 1 /\ ToSet(act) = ToSet(active) \union {Entry}
              /\ Distinct(act)
              => /\ free # <<>> => ListsOK(act, current, Tail(free), allocated)
                 /\ free = <<>> => ListsOK(act, current, free, Entry)
<1>1. CASE free # <<>>
  <2>1. /\ Head(free) \in Timers /\ Tail(free) \in Seq(Timers) /\ Len(Tail(free)) = Len(free) - 1
        /\ ToSet(free) = {Head(free)} \union ToSet(Tail(free))
        /\ Distinct(Tail(free)) /\ Head(free) \notin ToSet(Tail(free))
    BY <1>1, HeadTailSet, TypeFacts DEF ListsOK
  <2>2. Entry = Head(free)
    BY <1>1 DEF Entry
  <2>3. ASSUME NEW act \in Seq(Timers), Len(act) = Len(active) + 1,
               ToSet(act) = ToSet(active) \union {Entry}, Distinct(act)
        PROVE  ListsOK(act, current, Tail(free), allocated)
    <3>1. Len(act) + Len(current) + Len(Tail(free)) = allocated
      BY <2>1, <2>3, TypeFacts DEF ListsOK
    <3> QED
      BY <2>1, <2>2, <2>3, <3>1 DEF ListsOK
  <2> QED
    BY <1>1, <2>1, <2>2, <2>3 DEF ListsOK
<1>2. CASE free = <<>>
  <2>1. Entry = allocated + 1 /\ Entry \in Timers /\ allocated \in Nat
    BY <1>2, TypeFacts, TimeoutAssumption DEF Entry, HasEntry, Timers
  <2>2. Entry \notin 1 .. allocated /\ 1 .. Entry = (1 .. allocated) \union {Entry}
    BY <2>1
  <2>3. ToSet(free) = {} /\ Len(free) = 0
    BY <1>2 DEF ToSet
  <2>4. ASSUME NEW act \in Seq(Timers), Len(act) = Len(active) + 1,
               ToSet(act) = ToSet(active) \union {Entry}, Distinct(act)
        PROVE  ListsOK(act, current, free, Entry)
    <3>1. Len(act) + Len(current) + Len(free) = Entry
      <4>1. Len(active) + Len(current) + Len(free) = allocated
        BY DEF ListsOK
      <4>2. Len(active) \in Nat /\ Len(current) \in Nat /\ Len(free) \in Nat
        BY TypeFacts
      <4> QED
        BY <2>1, <2>4, <4>1, <4>2
    <3> QED
      BY <2>2, <2>3, <2>4, <3>1 DEF ListsOK
  <2> QED
    BY <1>2, <2>1, <2>2, <2>4 DEF ListsOK
<1> QED
  BY <1>1, <1>2

-----------------------------------------------------------------------------
(* The invariant holds at first and every action keeps it.                 *)
LEMMA InitIInv == Init => IInv
<1> SUFFICES ASSUME Init PROVE IInv
  OBVIOUS
<1>1. TypeOK
  <2>1. \A c \in {CHOOSE c \in Callbacks : TRUE} : c \in Callbacks
    BY TimeoutAssumption
  <2>2. callback \in [Timers -> Callbacks] /\ data \in [Timers -> Data]
    BY <2>1, TimeoutAssumption DEF Init
  <2> QED
    BY <2>2, TimeoutAssumption DEF Init, TypeOK, Depth
<1>2. ToSet(<<>>) = {} /\ Len(<<>>) = 0 /\ Distinct(<<>>)
  BY DEF ToSet, Distinct
<1>3. ListsOK(active, current, free, allocated)
  BY <1>2 DEF Init, ListsOK
<1>4. StackOK(stack, current)
  <2>1. TimersOf(<<>>) = <<>>
    BY DEF TimersOf
  <2>2. Kept(<<>>, Timers) = <<>>
    BY KeptNone
  <2>3. Reverse(<<>>) = <<>>
    BY DEF Reverse
  <2>4. Running(<<>>) = <<>>
    BY <2>1, <2>2, <2>3, Zenon DEF Running
  <2> QED
    BY <2>4 DEF Init, StackOK
<1>5. Sorted(active, time) /\ NoDrift /\ NoOversleep
  BY <1>2 DEF Init, Sorted, NoDrift, NoOversleep, Listed
<1> QED
  BY <1>1, <1>3, <1>4, <1>5 DEF IInv

\* Time passes: a sleep that was over stays over.
LEMMA TickStep == IInv /\ Tick => IInv'
<1> SUFFICES ASSUME IInv, Tick PROVE IInv'
  OBVIOUS
<1> USE DEF IInv
<1>1. /\ clock' = clock + 1 /\ clock < MaxClock
      /\ UNCHANGED <<prev, active, current, free, allocated, time, skip, callback, data, due, stack>>
  BY DEF Tick, lists, fields
<1>2. TypeOK'
  <2>1. clock' \in 0 .. MaxClock /\ prev' \in 0 .. clock'
    BY <1>1, TypeFacts, TimeoutAssumption
  <2> QED
    BY <1>1, <2>1 DEF TypeOK, Depth
<1>3. ListsOK(active, current, free, allocated)' /\ StackOK(stack, current)' /\ Sorted(active, time)'
  BY <1>1
<1>4. NoDrift'
  BY <1>1 DEF NoDrift, Listed
<1>5. NoOversleep'
  <2>1. SUFFICES ASSUME NEW t \in ToSet(active), Phase = "sleep"
                 PROVE  Top.until <= clock + 1 \/ Top.until <= due[t]
    BY <1>1 DEF NoOversleep, Phase, Top, Depth
  <2>2. Top.until <= clock \/ Top.until <= due[t]
    BY <2>1 DEF NoOversleep
  <2>3. Top.until \in Nat
    <3>1. Top \in Frame
      BY <2>1, TypeFacts DEF Phase, Top, Depth
    <3> QED
      BY <3>1 DEF Frame
  <2> QED
    BY <2>2, <2>3, TypeFacts
<1> QED
  BY <1>2, <1>3, <1>4, <1>5

\* The program's code runs, and the step keeps the phases: no call sleeps.
LEMMA Awake ==
  ASSUME UserCode, stack \in Seq(Frame), stack' \in Seq(Frame), Len(stack') = Len(stack),
         \A i \in 1 .. Len(stack) : stack'[i].phase = stack[i].phase
  PROVE  NoOversleep'
<1>1. Phase' = Phase
  <2>1. CASE stack = <<>>
    <3>1. stack' = <<>>
      BY <2>1
    <3> QED
      BY <2>1, <3>1 DEF Phase
  <2>2. CASE stack # <<>>
    <3>1. stack' # <<>> /\ Len(stack) \in 1 .. Len(stack)
      BY <2>2
    <3> QED
      BY <2>2, <3>1 DEF Phase, Top, Depth
  <2> QED
    BY <2>1, <2>2
<1> QED
  BY <1>1 DEF NoOversleep, UserCode

\* elapse_timeouts(), get() and insert(), for a timer that expires when it was
\* asked for.
LEMMA ScheduleStep ==
  ASSUME IInv, UserCode, HasEntry, NEW delay \in Nat, NEW cb \in Callbacks, NEW d \in Data,
         NEW when \in Nat, clock + delay = when, Schedule(delay, cb, d, when)
  PROVE  IInv'
<1> DEFINE t == Entry
           el == Elapsed(time, Listed)
           tm == [el EXCEPT ![t] = delay]
<1> USE DEF IInv
<1>1. /\ t \in Timers /\ t \notin ToSet(active) /\ t \notin ToSet(current)
  BY EntryFacts
<1>2. /\ el \in [Timers -> Int] /\ Sorted(active, el)
      /\ \A u \in Listed : u \in Timers /\ clock + el[u] = due[u]
  BY ElapsedFacts DEF Listed
<1>3. /\ prev' = clock /\ time' = tm /\ active' = Insert(active, t, tm)
      /\ due' = [due EXCEPT ![t] = when] /\ clock' = clock /\ current' = current
      /\ skip' = [skip EXCEPT ![t] = 1] /\ callback' = [callback EXCEPT ![t] = cb]
      /\ data' = [data EXCEPT ![t] = d]
      /\ stack' = [i \in 1 .. Len(stack) |-> [stack[i] EXCEPT !.new = @ \union {t}]]
      /\ free # <<>> => free' = Tail(free) /\ allocated' = allocated
      /\ free = <<>> => free' = free /\ allocated' = t
  BY DEF Schedule, Depth
<1> HIDE DEF t, el
<1>4. tm \in [Timers -> Int] /\ Sorted(active, tm)
  <2>1. tm \in [Timers -> Int]
    BY <1>1, <1>2
  <2>2. delay \in Int /\ active \in Seq(Timers)
    BY TypeFacts
  <2> QED
    BY <1>1, <1>2, <2>1, <2>2, SortedExcept
<1>5. tm[t] = delay /\ \A u \in Timers : u # t => tm[u] = el[u]
  BY <1>1, <1>2
<1> HIDE DEF tm
<1>6. /\ active' \in Seq(Timers) /\ Len(active') = Len(active) + 1
      /\ ToSet(active') = ToSet(active) \union {t} /\ Distinct(active')
      /\ Sorted(active', tm)
  <2>1. Distinct(active)
    BY DEF ListsOK
  <2> QED
    BY <1>1, <1>3, <1>4, <2>1, InsertFacts, TypeFacts
<1>7. ListsOK(active, current, free, allocated)'
  BY <1>3, <1>6, EntryFacts DEF t
<1>8. /\ stack' \in Seq(Frame) /\ Len(stack') = Len(stack)
      /\ \A i \in 1 .. Len(stack) : stack'[i].phase = stack[i].phase /\ stack'[i].timer = stack[i].timer
  <2>1. \A f \in Frame : /\ [f EXCEPT !.new = @ \union {t}] \in Frame
                         /\ [f EXCEPT !.new = @ \union {t}].phase = f.phase
                         /\ [f EXCEPT !.new = @ \union {t}].timer = f.timer
    BY <1>1 DEF Frame
  <2>2. stack \in Seq(Frame) /\ \A i \in 1 .. Len(stack) : stack[i] \in Frame
    BY TypeFacts
  <2>3. /\ DOMAIN stack' = 1 .. Len(stack) /\ stack' = [i \in DOMAIN stack' |-> stack'[i]]
        /\ \A i \in 1 .. Len(stack) : stack'[i] = [stack[i] EXCEPT !.new = @ \union {t}]
    BY <1>3
  <2>4. stack' \in Seq(Frame) /\ Len(stack') = Len(stack)
    <3>1. Len(stack) \in Nat /\ \A i \in 1 .. Len(stack) : stack'[i] \in Frame
      BY <2>1, <2>2, <2>3
    <3> QED
      BY <2>3, <3>1, FunctionIsSeq
  <2> QED
    BY <2>1, <2>2, <2>3, <2>4
<1>9. StackOK(stack, current)'
  BY <1>3, <1>8, StackMapped, TypeFacts
<1>10. TypeOK'
  <2>1. free' \in Seq(Timers) /\ allocated' \in 0 .. MaxTimers
    <3>1. t \in 0 .. MaxTimers /\ allocated \in 0 .. MaxTimers /\ free \in Seq(Timers)
      BY <1>1, TypeFacts, TimeoutAssumption DEF Timers
    <3>2. free # <<>> => Tail(free) \in Seq(Timers)
      BY <3>1
    <3> QED
      BY <1>3, <3>1, <3>2
  <2>2. clock' \in 0 .. MaxClock /\ prev' \in 0 .. clock'
    BY <1>3, TypeFacts, TimeoutAssumption
  <2>3. /\ skip' \in [Timers -> {0, 1}] /\ callback' \in [Timers -> Callbacks]
        /\ data' \in [Timers -> Data] /\ due' \in [Timers -> Nat]
    BY <1>3, TypeFacts
  <2>4. stack' \in Seq(Frame) /\ Len(stack') <= MaxDepth /\ current' \in Seq(Timers)
    BY <1>3, <1>8, TypeFacts
  <2> QED
    BY <1>3, <1>4, <1>6, <2>1, <2>2, <2>3, <2>4 DEF TypeOK, Frame, Depth
<1>11. NoDrift'
  <2>1. SUFFICES ASSUME NEW u \in ToSet(active') \union ToSet(current')
                 PROVE  clock + tm[u] = due'[u]
    BY <1>3 DEF NoDrift, Listed
  <2>2. CASE u = t
    BY <1>1, <1>3, <1>5, <2>2, TypeFacts
  <2>3. CASE u # t
    <3>1. u \in Listed
      BY <1>3, <1>6, <2>3 DEF Listed
    <3>2. u \in Timers /\ clock + el[u] = due[u]
      BY <1>2, <3>1
    <3> QED
      BY <1>3, <1>5, <2>3, <3>2, TypeFacts
  <2> QED
    BY <2>2, <2>3
<1>12. NoOversleep'
  BY <1>8, Awake, TypeFacts
<1> QED
  BY <1>3, <1>6, <1>7, <1>9, <1>10, <1>11, <1>12

LEMMA AddStep ==
  ASSUME IInv, NEW delay \in Delays, NEW cb \in Callbacks, NEW d \in Data,
         add_timeout(delay, cb, d)
  PROVE  IInv'
<1>1. delay \in Nat /\ clock \in Nat
  BY TimeoutAssumption, TypeFacts DEF IInv
<1>2. clock + delay \in Nat
  BY <1>1
<1> QED
  BY <1>1, <1>2, ScheduleStep DEF add_timeout

\* repeat_timeout(): the time left and the moment asked for agree, whether the
\* moment lies ahead or is past.
LEMMA RepeatStep ==
  ASSUME IInv, NEW delay \in Delays, NEW cb \in Callbacks, NEW d \in Data,
         repeat_timeout(delay, cb, d)
  PROVE  IInv'
<1>1. delay \in Nat /\ clock \in Nat /\ UserCode /\ HasEntry
  BY TimeoutAssumption, TypeFacts DEF IInv, repeat_timeout
<1>2. CASE current = <<>>
  <2>1. clock + delay \in Nat /\ Schedule(delay, cb, d, clock + delay)
    BY <1>1, <1>2 DEF repeat_timeout
  <2> QED
    BY <1>1, <2>1, ScheduleStep
<1>3. CASE current # <<>>
  <2> DEFINE h == Head(current)
             tm == delay + Elapsed(time, Listed)[h]
             left == IF tm < 0 THEN 1 ELSE tm
             when == IF due[h] + delay < clock THEN clock + 1 ELSE due[h] + delay
  <2>1. h \in Listed
    BY <1>3, TypeFacts, HeadTailSet DEF IInv, Listed
  <2>2. /\ h \in Timers /\ clock + Elapsed(time, Listed)[h] = due[h]
        /\ Elapsed(time, Listed)[h] \in Int
    BY <2>1, ElapsedFacts DEF IInv, Listed
  <2>3. due[h] \in Nat
    BY <2>2, TypeFacts DEF IInv
  <2>4. left \in Nat /\ when \in Nat /\ clock + left = when
    BY <1>1, <2>2, <2>3
  <2>5. Schedule(left, cb, d, when)
    BY <1>3 DEF repeat_timeout
  <2> HIDE DEF left, when
  <2> QED
    BY <1>1, <2>4, <2>5, ScheduleStep
<1> QED
  BY <1>2, <1>3

\* The order of a list is that of any part of it.
LEMMA SortedPart ==
  ASSUME NEW k, NEW s, NEW tm, Sorted(s, tm), InOrder(k, s)
  PROVE  Sorted(k, tm)
<1>1. ASSUME NEW a \in 1 .. Len(k), NEW c \in 1 .. Len(k), a < c
      PROVE  tm[k[a]] <= tm[k[c]]
  <2>1. PICK i \in 1 .. Len(s), j \in 1 .. Len(s) : i < j /\ k[a] = s[i] /\ k[c] = s[j]
    BY <1>1 DEF InOrder
  <2> QED
    BY <2>1 DEF Sorted
<1> QED
  BY <1>1 DEF Sorted

\* Entries leave the history of every call of Fl::wait().
LEMMA WithoutFacts ==
  ASSUME NEW st \in Seq(Frame), NEW ts
  PROVE  /\ Without(st, ts) \in Seq(Frame) /\ Len(Without(st, ts)) = Len(st)
         /\ \A i \in 1 .. Len(st) : /\ Without(st, ts)[i].phase = st[i].phase
                                    /\ Without(st, ts)[i].timer = st[i].timer
<1> DEFINE su == Without(st, ts)
<1>1. \A f \in Frame : /\ [f EXCEPT !.new = @ \ ts] \in Frame
                       /\ [f EXCEPT !.new = @ \ ts].phase = f.phase
                       /\ [f EXCEPT !.new = @ \ ts].timer = f.timer
  BY DEF Frame
<1>2. Len(st) \in Nat /\ \A i \in 1 .. Len(st) : st[i] \in Frame
  OBVIOUS
<1>3. /\ DOMAIN su = 1 .. Len(st) /\ su = [i \in DOMAIN su |-> su[i]]
      /\ \A i \in 1 .. Len(st) : su[i] = [st[i] EXCEPT !.new = @ \ ts]
  BY DEF Without
<1> HIDE DEF su
<1>4. su \in Seq(Frame) /\ Len(su) = Len(st)
  <2>1. \A i \in 1 .. Len(st) : su[i] \in Frame
    BY <1>1, <1>2, <1>3
  <2> QED
    BY <1>2, <1>3, <2>1, FunctionIsSeq
<1>5. \A i \in 1 .. Len(st) : su[i].phase = st[i].phase /\ su[i].timer = st[i].timer
  BY <1>1, <1>2, <1>3
<1> QED
  BY <1>4, <1>5 DEF su

\* Timers are removed: the others keep their order, and what leaves the active
\* list goes to the free list.
LEMMA DiscardStep ==
  ASSUME IInv, UserCode, NEW ts \in SUBSET ToSet(active), Discard(ts)
  PROVE  IInv'
<1> USE DEF IInv
<1> DEFINE k == Kept(active, Timers \ ts)
           r == Kept(active, ts)
<1>1. /\ active' = k /\ free' = Reverse(r) \o free
      /\ due' = [t \in Timers |-> IF t \in ts THEN 0 ELSE due[t]]
      /\ stack' = Without(stack, ts)
      /\ UNCHANGED <<clock, prev, current, allocated, time, skip, callback, data>>
  BY DEF Discard, Forget
<1>2. active \in Seq(Timers) /\ current \in Seq(Timers) /\ free \in Seq(Timers) /\ ts \subseteq Timers
  BY TypeFacts
<1>3. /\ k \in Seq(Timers) /\ ToSet(k) = ToSet(active) \ ts
      /\ r \in Seq(Timers) /\ ToSet(r) = ts
  <2>1. k \in Seq(Timers) /\ r \in Seq(Timers)
    BY <1>2, KeptType
  <2>2. ToSet(k) = ToSet(active) \intersect (Timers \ ts) /\ ToSet(r) = ToSet(active) \intersect ts
    BY <1>2, KeptSet
  <2>3. ToSet(active) \subseteq Timers
    BY TypeFacts
  <2> QED
    BY <2>1, <2>2, <2>3
<1>4. Len(k) + Len(r) = Len(active)
  <2>1. \A x \in Timers : x \in Timers \ ts <=> x \notin ts
    OBVIOUS
  <2> QED
    BY <1>2, <2>1, KeptLen
<1>5. Distinct(k) /\ Distinct(r) /\ Sorted(k, time)
  <2>1. InOrder(k, active)
    BY <1>2, KeptInOrder
  <2>2. Distinct(active)
    BY DEF ListsOK
  <2> QED
    BY <1>2, <2>1, <2>2, KeptDistinct, SortedPart
<1> HIDE DEF k, r
<1>6. /\ Reverse(r) \in Seq(Timers) /\ Len(Reverse(r)) = Len(r) /\ ToSet(Reverse(r)) = ts
      /\ Distinct(Reverse(r))
  BY <1>3, <1>5, ReverseFacts, ReverseDistinct
<1>7. /\ free' \in Seq(Timers) /\ Len(free') = Len(r) + Len(free)
      /\ ToSet(free') = ts \union ToSet(free) /\ Distinct(free')
  <2>1. free' \in Seq(Timers) /\ Len(free') = Len(r) + Len(free)
    <3>1. /\ Reverse(r) \o free \in Seq(Timers)
          /\ Len(Reverse(r) \o free) = Len(Reverse(r)) + Len(free)
      BY <1>2, <1>6, ConcatProperties
    <3> QED
      BY <1>1, <1>6, <3>1
  <2>2. ToSet(free') = ts \union ToSet(free)
    BY <1>1, <1>2, <1>6, ToSetConcat
  <2>3. Distinct(free) /\ ts \intersect ToSet(free) = {}
    BY DEF ListsOK
  <2>4. Distinct(free')
    BY <1>1, <1>2, <1>6, <2>3, ConcatDistinct
  <2> QED
    BY <2>1, <2>2, <2>4
<1>8. ListsOK(active, current, free, allocated)'
  <2>1. Len(k) + Len(current) + Len(free') = allocated
    <3>1. Len(active) + Len(current) + Len(free) = allocated
      BY DEF ListsOK
    <3>2. Len(k) \in Nat /\ Len(current) \in Nat /\ Len(free) \in Nat /\ Len(r) \in Nat
      BY <1>2, <1>3
    <3> QED
      BY <1>4, <1>7, <3>1, <3>2
  <2> QED
    BY <1>1, <1>3, <1>5, <1>7, <2>1 DEF ListsOK
<1>9. /\ stack' \in Seq(Frame) /\ Len(stack') = Len(stack)
      /\ \A i \in 1 .. Len(stack) : stack'[i].phase = stack[i].phase /\ stack'[i].timer = stack[i].timer
  BY <1>1, WithoutFacts, TypeFacts
<1>10. StackOK(stack, current)'
  BY <1>1, <1>9, StackMapped, TypeFacts
<1>11. TypeOK'
  <2>1. due' \in [Timers -> Nat]
    BY <1>1, TypeFacts
  <2>2. stack' \in Seq(Frame) /\ Len(stack') <= MaxDepth
    BY <1>9, TypeFacts
  <2> QED
    BY <1>1, <1>3, <1>7, <2>1, <2>2 DEF TypeOK, Frame, Depth
<1>12. NoDrift'
  <2>1. SUFFICES ASSUME NEW u \in ToSet(k) \union ToSet(current)
                 PROVE  prev + time[u] = due'[u]
    BY <1>1 DEF NoDrift, Listed
  <2>2. u \in Listed /\ u \notin ts /\ u \in Timers
    BY <1>3, TypeFacts DEF ListsOK, Listed
  <2> QED
    BY <1>1, <2>2 DEF NoDrift
<1>13. NoOversleep'
  BY <1>9, Awake, TypeFacts
<1> QED
  BY <1>1, <1>5, <1>8, <1>10, <1>11, <1>12, <1>13

LEMMA RemoveStep ==
  ASSUME IInv, NEW cb \in Callbacks, NEW d \in Data,
         remove_timeout(cb, d) \/ remove_next_timeout(cb, d)
  PROVE  IInv'
<1>1. CASE remove_timeout(cb, d)
  BY <1>1, DiscardStep DEF remove_timeout
<1>2. CASE remove_next_timeout(cb, d)
  <2> DEFINE I == {i \in 1 .. Len(active) : Matches(active[i], cb, d)}
             n == SelectInSeq(active, LAMBDA t : Matches(t, cb, d))
  <2>1. n = IF I = {} THEN 0 ELSE Min(I)
    BY DEF SelectInSeq
  <2>2. n > 0 /\ Discard({active[n]}) /\ UserCode
    BY <1>2 DEF remove_next_timeout
  <2>3. Len(active) \in Nat
    BY TypeFacts DEF IInv
  <2> HIDE DEF n
  <2>4. I # {}
    BY <2>1, <2>2
  <2>5. n \in 1 .. Len(active)
    BY <2>1, <2>3, <2>4, FirstIndex
  <2>6. {active[n]} \in SUBSET ToSet(active)
    BY <2>5, TypeFacts DEF ToSet, IInv
  <2> QED
    BY <2>2, <2>6, DiscardStep
<1> QED
  BY <1>1, <1>2

-----------------------------------------------------------------------------
(* The steps of Fl::wait().                                                *)

\* Fl::wait() is under way.
LEMMA InWait ==
  ASSUME stack \in Seq(Frame), StackOK(stack, current), Phase # "main"
  PROVE  /\ stack # <<>> /\ Len(stack) \in Nat \ {0}
         /\ Top = stack[Len(stack)] /\ Top \in Frame /\ Top.phase = Phase
         /\ Top.timer # 0 <=> Top.phase = "callback"
<1>1. stack # <<>>
  BY DEF Phase
<1>2. Len(stack) \in 1 .. Len(stack) /\ Len(stack) \in Nat \ {0}
  BY <1>1
<1>3. Top = stack[Len(stack)] /\ Top.phase = Phase
  BY <1>1 DEF Phase, Top, Depth
<1> QED
  BY <1>1, <1>2, <1>3 DEF StackOK

\* The frames that the steps put in the place of the top one.
LEMMA FrameTimer ==
  ASSUME NEW g \in Frame, NEW ph \in {"timeouts", "callback", "sleep", "events"},
         NEW t \in Timers \union {0}
  PROVE  /\ [g EXCEPT !.phase = ph, !.timer = t] \in Frame
         /\ [g EXCEPT !.phase = ph, !.timer = t].phase = ph
         /\ [g EXCEPT !.phase = ph, !.timer = t].timer = t
  BY DEF Frame

LEMMA ReadyStep == IInv /\ ready => IInv'
<1> SUFFICES ASSUME IInv, ready PROVE IInv'
  OBVIOUS
<1> USE DEF IInv
<1>1. /\ UserCode /\ prev' = clock /\ time' = Elapsed(time, Listed)
      /\ UNCHANGED <<clock, active, current, free, allocated, skip, callback, data, due, stack>>
  BY DEF ready, lists
<1>2. /\ Elapsed(time, Listed) \in [Timers -> Int] /\ Sorted(active, Elapsed(time, Listed))
      /\ \A t \in Listed : clock + Elapsed(time, Listed)[t] = due[t]
  BY ElapsedFacts DEF Listed
<1>3. TypeOK'
  <2>1. prev' \in 0 .. clock /\ time' \in [Timers -> Int]
    BY <1>1, <1>2, TypeFacts
  <2> QED
    BY <1>1, <2>1 DEF TypeOK, Depth
<1>4. Sorted(active, time)' /\ NoDrift'
  BY <1>1, <1>2 DEF NoDrift, Listed
<1>5. NoOversleep'
  BY <1>1, Awake, TypeFacts
<1>6. ListsOK(active, current, free, allocated)' /\ StackOK(stack, current)'
  BY <1>1
<1> QED
  BY <1>3, <1>4, <1>5, <1>6

LEMMA BeginWaitStep == IInv /\ BeginWait => IInv'
<1> SUFFICES ASSUME IInv, BeginWait PROVE IInv'
  OBVIOUS
<1> USE DEF IInv
<1>1. /\ UserCode /\ Len(stack) < MaxDepth
      /\ skip' = [t \in Timers |-> IF t \in ToSet(active) THEN 0 ELSE skip[t]]
      /\ active = <<>> => prev' = prev /\ time' = time
      /\ active # <<>> => prev' = clock /\ time' = Elapsed(time, Listed)
      /\ stack' = Append(stack, NewFrame)
      /\ UNCHANGED <<clock, active, current, free, allocated, callback, data, due>>
  BY DEF BeginWait, lists, Depth
<1>2. /\ Elapsed(time, Listed) \in [Timers -> Int] /\ Sorted(active, Elapsed(time, Listed))
      /\ \A t \in Listed : clock + Elapsed(time, Listed)[t] = due[t]
  BY ElapsedFacts DEF Listed
<1>3. NewFrame \in Frame /\ NewFrame.timer = 0 /\ NewFrame.phase = "timeouts"
  BY DEF NewFrame, Frame
<1>4. \A i \in 1 .. Len(stack) : stack[i].phase \in {"callback", "events"}
  <2>1. SUFFICES ASSUME NEW i \in 1 .. Len(stack) PROVE stack[i].phase \in {"callback", "events"}
    OBVIOUS
  <2>2. stack # <<>> /\ Len(stack) \in Nat
    BY <2>1, TypeFacts
  <2>3. CASE i = Len(stack)
    <3>1. Phase = stack[i].phase /\ stack[i] \in Frame
      BY <2>1, <2>2, <2>3, TypeFacts DEF Phase, Top, Depth
    <3>2. stack[i].phase # "main"
      BY <3>1 DEF Frame
    <3> QED
      BY <1>1, <3>1, <3>2 DEF UserCode
  <2>4. CASE i # Len(stack)
    BY <2>1, <2>2, <2>4 DEF StackOK
  <2> QED
    BY <2>3, <2>4
<1>5. StackOK(stack, current)'
  <2>1. current = Running(stack)
    BY DEF StackOK
  <2> QED
    BY <1>1, <1>3, <1>4, <2>1, StackPush, TypeFacts
<1>6. TypeOK'
  <2>1. prev' \in 0 .. clock /\ time' \in [Timers -> Int]
    BY <1>1, <1>2, TypeFacts
  <2>2. skip' \in [Timers -> {0, 1}]
    BY <1>1, TypeFacts
  <2>3. stack' \in Seq(Frame) /\ Len(stack') = Len(stack) + 1 /\ Len(stack) \in Nat
    BY <1>1, <1>3, TypeFacts
  <2>4. Len(stack') <= MaxDepth
    BY <1>1, <2>3, TimeoutAssumption
  <2> QED
    BY <1>1, <2>1, <2>2, <2>3, <2>4 DEF TypeOK, Frame, Depth
<1>7. Sorted(active, time)' /\ NoDrift'
  BY <1>1, <1>2 DEF NoDrift, Listed
<1>8. NoOversleep'
  <2>1. stack' # <<>> /\ stack'[Len(stack')] = NewFrame
    <3>1. stack \in Seq(Frame)
      BY TypeFacts
    <3>2. Len(stack') = Len(stack) + 1 /\ Len(stack) \in Nat
      BY <1>1, <1>3, <3>1
    <3>3. stack'[Len(stack) + 1] = NewFrame
      BY <1>1, <1>3, <3>1
    <3> QED
      BY <3>2, <3>3
  <2>2. Phase' = "timeouts"
    BY <1>3, <2>1 DEF Phase, Top, Depth
  <2> QED
    BY <2>2 DEF NoOversleep
<1>9. ListsOK(active, current, free, allocated)'
  BY <1>1
<1> QED
  BY <1>5, <1>6, <1>7, <1>8, <1>9

\* The timer do_timeouts() looks for: the first one that is not skipped.
LEMMA CandidateFacts ==
  ASSUME TypeOK, Candidate > 0
  PROVE  /\ Candidate \in 1 .. Len(active) /\ skip[active[Candidate]] = 0
         /\ \A i \in 1 .. Len(active) : skip[active[i]] = 0 => Candidate <= i
<1> DEFINE I == {i \in 1 .. Len(active) : skip[active[i]] = 0}
<1>1. Candidate = IF I = {} THEN 0 ELSE Min(I)
  BY DEF Candidate, SelectInSeq
<1>2. Len(active) \in Nat
  BY TypeFacts
<1>3. I # {}
  BY <1>1
<1>4. Candidate \in I /\ \A i \in I : Candidate <= i
  <2> I \in SUBSET (1 .. Len(active))
    OBVIOUS
  <2> HIDE DEF I
  <2> QED
    BY <1>1, <1>2, <1>3, FirstIndex
<1> QED
  BY <1>4

LEMMA RunTimerStep == IInv /\ RunTimer => IInv'
<1> SUFFICES ASSUME IInv, RunTimer PROVE IInv'
  OBVIOUS
<1> USE DEF IInv
<1> DEFINE p == Candidate
           t == active[p]
           f == [Top EXCEPT !.phase = "callback", !.timer = t]
<1>1. /\ Phase = "timeouts" /\ p > 0
      /\ active' = RemoveAt(active, p) /\ current' = <<t>> \o current
      /\ stack' = [stack EXCEPT ![Len(stack)] = f]
      /\ UNCHANGED <<clock, prev, free, allocated, time, skip, callback, data, due>>
  BY DEF RunTimer, MayRun, SetTop, fields, Depth
<1>2. p \in 1 .. Len(active)
  BY <1>1, CandidateFacts
<1> HIDE DEF p
<1>3. t \in Timers /\ t \in ToSet(active) /\ active \in Seq(Timers) /\ current \in Seq(Timers)
  BY <1>2, TypeFacts DEF ToSet
<1>4. /\ active' \in Seq(Timers) /\ Len(active') = Len(active) - 1
      /\ \A i \in 1 .. Len(active) - 1 : active'[i] = IF i < p THEN active[i] ELSE active[i + 1]
  BY <1>1, <1>2, <1>3, RemoveAtFacts
<1>5. /\ ToSet(active) = ToSet(active') \union {t}
      /\ Distinct(active') /\ t \notin ToSet(active')
  BY <1>1, <1>2, <1>3, RemoveAtSet DEF ListsOK
<1> HIDE DEF t
<1>6. /\ current' \in Seq(Timers) /\ Len(current') = Len(current) + 1
      /\ ToSet(current') = ToSet(current) \union {t} /\ Distinct(current')
  BY <1>1, <1>3, PushFacts DEF ListsOK
<1>7. ListsOK(active, current, free, allocated)'
  <2>1. Len(active') + Len(current') + Len(free) = allocated
    <3>1. Len(active) + Len(current) + Len(free) = allocated
      BY DEF ListsOK
    <3>2. Len(active) \in Nat /\ Len(current) \in Nat /\ Len(free) \in Nat
      BY TypeFacts
    <3> QED
      BY <1>4, <1>6, <3>1, <3>2
  <2> QED
    BY <1>1, <1>5, <1>6, <2>1 DEF ListsOK
<1>8. stack # <<>> /\ Top = stack[Len(stack)] /\ Top \in Frame /\ Top.phase = "timeouts"
  BY <1>1, InWait, TypeFacts
<1>9. f \in Frame /\ f.timer = t /\ f.timer # 0 /\ f.phase = "callback"
  <2>1. t # 0
    BY <1>3 DEF Timers
  <2>2. t \in Timers \union {0}
    BY <1>3
  <2>3. f \in Frame /\ f.phase = "callback" /\ f.timer = t
    BY <1>8, <2>2, FrameTimer
  <2> QED
    BY <2>1, <2>3
<1>10. Top.timer = 0
  BY <1>1, <1>8, InWait, TypeFacts
<1> HIDE DEF f
<1>11. /\ stack' \in Seq(Frame) /\ Len(stack') = Len(stack) /\ stack'[Len(stack)] = f
       /\ StackOK(stack', current')
  BY <1>1, <1>8, <1>9, <1>10, StackTop, TypeFacts
<1>12. TypeOK'
  <2>1. Len(stack') <= MaxDepth
    BY <1>11, TypeFacts
  <2> QED
    BY <1>1, <1>4, <1>6, <1>11, <2>1 DEF TypeOK, Frame, Depth
<1>13. Sorted(active, time)'
  <2>1. SUFFICES ASSUME NEW i \in 1 .. Len(active) - 1, NEW j \in 1 .. Len(active) - 1, i < j
                 PROVE  time[active'[i]] <= time[active'[j]]
    BY <1>1, <1>4 DEF Sorted
  <2>2. PICK a \in 1 .. Len(active), c \in 1 .. Len(active) :
          a < c /\ active'[i] = active[a] /\ active'[j] = active[c]
    <3>1. Len(active) \in Nat
      BY TypeFacts
    <3>2. CASE i < p /\ j < p
      BY <1>4, <2>1, <3>1, <3>2
    <3>3. CASE i < p /\ j >= p
      <4>1. i \in 1 .. Len(active) /\ j + 1 \in 1 .. Len(active) /\ i < j + 1
        BY <2>1, <3>1
      <4>2. active'[i] = active[i] /\ active'[j] = active[j + 1]
        BY <1>2, <1>4, <3>3
      <4> QED
        BY <4>1, <4>2
    <3>4. CASE i >= p
      <4>1. i + 1 \in 1 .. Len(active) /\ j + 1 \in 1 .. Len(active) /\ i + 1 < j + 1
        BY <2>1, <3>1
      <4>2. active'[i] = active[i + 1] /\ active'[j] = active[j + 1]
        BY <1>2, <1>4, <2>1, <3>4
      <4> QED
        BY <4>1, <4>2
    <3>5. i < p \/ i >= p
      BY <1>2
    <3>6. j < p \/ j >= p
      BY <1>2
    <3> QED
      BY <3>2, <3>3, <3>4, <3>5, <3>6, Zenon
  <2> QED
    BY <2>2 DEF Sorted
<1>14. NoDrift'
  <2>1. Listed' = Listed
    BY <1>5, <1>6 DEF Listed
  <2>2. prev' = prev /\ time' = time /\ due' = due
    BY <1>1
  <2> QED
    BY <2>1, <2>2 DEF NoDrift
<1>15. NoOversleep'
  <2>1. stack' # <<>>
    BY <1>8, <1>11, TypeFacts
  <2>2. Phase' = "callback"
    BY <1>9, <1>11, <2>1 DEF Phase, Top, Depth
  <2> QED
    BY <2>2 DEF NoOversleep
<1> QED
  BY <1>7, <1>11, <1>12, <1>13, <1>14, <1>15

\* The callback returns: the timer it ran is the first of the current ones, and
\* goes to the free list.
LEMMA CallbackReturnsStep == IInv /\ CallbackReturns => IInv'
<1> SUFFICES ASSUME IInv, CallbackReturns PROVE IInv'
  OBVIOUS
<1> USE DEF IInv
<1> DEFINE t == Top.timer
           f == [Top EXCEPT !.phase = "timeouts", !.timer = 0]
           su == [stack EXCEPT ![Len(stack)] = f]
           ts == ToSet(active) \union ToSet(current')
<1>1. /\ Phase = "callback" /\ current' = Tail(current) /\ free' = <<t>> \o free
      /\ prev' = clock /\ time' = Elapsed(time, ts)
      /\ due' = [u \in Timers |-> IF u \in {t} THEN 0 ELSE due[u]]
      /\ stack' = Without(su, {t})
      /\ UNCHANGED <<clock, active, allocated, skip, callback, data>>
  BY DEF CallbackReturns, Forget, Depth
<1>2. /\ stack # <<>> /\ Top = stack[Len(stack)] /\ Top \in Frame /\ t # 0
  BY <1>1, InWait, TypeFacts
<1>3. f \in Frame /\ f.timer = 0 /\ f.phase = "timeouts"
  BY <1>2, FrameTimer
<1> HIDE DEF f
<1>4. /\ su \in Seq(Frame) /\ Len(su) = Len(stack) /\ su[Len(stack)] = f
      /\ current # <<>> /\ Head(current) = t /\ StackOK(su, current')
  BY <1>1, <1>2, <1>3, StackTop, TypeFacts
<1> HIDE DEF su
<1>5. /\ stack' \in Seq(Frame) /\ Len(stack') = Len(su)
      /\ \A i \in 1 .. Len(su) : stack'[i].phase = su[i].phase /\ stack'[i].timer = su[i].timer
  BY <1>1, <1>4, WithoutFacts
<1>6. StackOK(stack', current')
  BY <1>4, <1>5, StackMapped
<1>7. /\ t \in Timers /\ current' \in Seq(Timers) /\ Len(current') = Len(current) - 1
      /\ Len(current) \in Nat \ {0}
      /\ ToSet(current) = {t} \union ToSet(current')
      /\ Distinct(current') /\ t \notin ToSet(current')
  <2>1. current \in Seq(Timers) /\ Distinct(current)
    BY TypeFacts DEF ListsOK
  <2>2. /\ Head(current) \in Timers /\ Tail(current) \in Seq(Timers)
        /\ Len(Tail(current)) = Len(current) - 1 /\ Len(current) \in Nat \ {0}
        /\ ToSet(current) = {Head(current)} \union ToSet(Tail(current))
        /\ Distinct(Tail(current)) /\ Head(current) \notin ToSet(Tail(current))
    BY <1>4, <2>1, HeadTailSet
  <2> QED
    BY <1>1, <1>4, <2>2
<1> HIDE DEF t
<1>8. t \notin ToSet(active) /\ t \notin ToSet(free)
  BY <1>7 DEF ListsOK
<1>9. /\ free' \in Seq(Timers) /\ Len(free') = Len(free) + 1
      /\ ToSet(free') = ToSet(free) \union {t} /\ Distinct(free')
  <2>1. free \in Seq(Timers) /\ Distinct(free) /\ free' = <<t>> \o free
    BY <1>1, TypeFacts DEF ListsOK
  <2> QED
    BY <1>7, <1>8, <2>1, PushFacts
<1>10. ListsOK(active, current, free, allocated)'
  <2>1. Len(active) + Len(current') + Len(free') = allocated
    <3>1. Len(active) + Len(current) + Len(free) = allocated
      BY DEF ListsOK
    <3>2. Len(active) \in Nat /\ Len(current) \in Nat /\ Len(free) \in Nat
      BY TypeFacts
    <3> QED
      BY <1>7, <1>9, <3>1, <3>2
  <2> QED
    BY <1>1, <1>7, <1>8, <1>9, <2>1 DEF ListsOK
<1>11. /\ time' \in [Timers -> Int] /\ Sorted(active, time')
       /\ \A u \in ts : u \in Timers /\ clock + time'[u] = due[u]
  <2>1. ToSet(active) \subseteq ts /\ ts \subseteq Listed
    BY <1>7 DEF Listed
  <2> HIDE DEF ts
  <2> QED
    BY <1>1, <2>1, ElapsedFacts
<1>12. TypeOK'
  <2>1. due' \in [Timers -> Nat]
    BY <1>1, TypeFacts
  <2>2. Len(stack') <= MaxDepth /\ prev' \in 0 .. clock
    BY <1>1, <1>4, <1>5, TypeFacts
  <2> QED
    BY <1>1, <1>5, <1>7, <1>9, <1>11, <2>1, <2>2 DEF TypeOK, Frame, Depth
<1>13. NoDrift'
  <2>1. SUFFICES ASSUME NEW u \in ts PROVE clock + time'[u] = due'[u]
    BY <1>1 DEF NoDrift, Listed
  <2>2. u # t
    BY <1>7, <1>8
  <2> QED
    BY <1>1, <1>11, <2>2
<1>14. NoOversleep'
  <2>1. stack' # <<>> /\ Len(stack') = Len(stack) /\ Len(stack) \in 1 .. Len(stack)
    BY <1>2, <1>4, <1>5, TypeFacts
  <2>2. stack'[Len(stack)].phase = "timeouts"
    BY <1>3, <1>4, <1>5, <2>1
  <2>3. Phase' = "timeouts"
    BY <2>1, <2>2 DEF Phase, Top, Depth
  <2> QED
    BY <2>3 DEF NoOversleep
<1>15. Sorted(active, time)'
  BY <1>1, <1>11
<1> QED
  BY <1>6, <1>10, <1>12, <1>13, <1>14, <1>15

\* The time poll() may take: never past the next timer.
LEMMA SleepStep ==
  ASSUME IInv, NEW ttw \in Nat, Sleep(ttw)
  PROVE  IInv'
<1> USE DEF IInv
<1> DEFINE el == Elapsed(time, Listed)
           Above(v) == [stack EXCEPT ![Len(stack)] = [Top EXCEPT !.phase = "sleep", !.until = v]]
<1>1. /\ Phase = "timeouts"
      /\ UNCHANGED <<clock, active, current, free, allocated, skip, callback, data, due>>
  BY DEF Sleep, lists
<1>2. /\ stack # <<>> /\ Top = stack[Len(stack)] /\ Top \in Frame /\ Top.phase = "timeouts"
      /\ Top.timer = 0
  BY <1>1, InWait, TypeFacts
<1>3. /\ el \in [Timers -> Int] /\ Sorted(active, el)
      /\ \A t \in Listed : t \in Timers /\ clock + el[t] = due[t]
  BY ElapsedFacts DEF Listed
<1>4. PICK v \in Nat : /\ stack' = Above(v)
                       /\ v <= clock \/ \A t \in ToSet(active) : v <= due[t]
                       /\ \/ prev' = prev /\ time' = time
                          \/ prev' = clock /\ time' = el
  <2>1. CASE time_to_wait(ttw, time) <= 0
    <3>1. stack' = Above(clock) /\ prev' = prev /\ time' = time
      BY <2>1 DEF Sleep, SetTop, Depth
    <3>2. clock \in Nat /\ clock <= clock
      BY TypeFacts
    <3> HIDE DEF Above
    <3> QED
      BY <3>1, <3>2
  <2>2. CASE ~ (time_to_wait(ttw, time) <= 0)
    <3> DEFINE w == time_to_wait(ttw, el)
    <3>1. stack' = Above(clock + w) /\ prev' = clock /\ time' = el
      BY <2>2 DEF Sleep, SetTop, Depth
    <3> HIDE DEF Above
    <3>2. CASE active = <<>>
      <4>1. w = ttw /\ ToSet(active) = {}
        BY <3>2 DEF time_to_wait, ToSet
      <4>2. clock + w \in Nat
        BY <4>1, TypeFacts
      <4> HIDE DEF w, el
      <4> QED
        BY <3>1, <4>1, <4>2
    <3>3. CASE active # <<>>
      <4> DEFINE h == Head(active)
      <4>1. h \in ToSet(active) /\ h = active[1] /\ h \in Timers /\ Len(active) \in Nat \ {0}
        BY <3>3, HeadTailSet, TypeFacts
      <4>2. el[h] \in Int /\ clock + el[h] = due[h]
        BY <1>3, <4>1 DEF Listed
      <4>3. w \in Nat /\ (w = 0 \/ w <= el[h])
        <5>1. w = IF el[h] < 0 THEN 0 ELSE IF el[h] < ttw THEN el[h] ELSE ttw
          BY <3>3 DEF time_to_wait
        <5> QED
          BY <4>2, <5>1
      <4>4. ASSUME NEW t \in ToSet(active)
            PROVE  el[h] <= el[t] /\ clock + el[t] = due[t] /\ el[t] \in Int
        <5>1. clock + el[t] = due[t] /\ el[t] \in Int
          BY <1>3 DEF Listed
        <5> HIDE DEF h, el
        <5>2. PICK i \in 1 .. Len(active) : t = active[i]
          <6>1. DOMAIN active = 1 .. Len(active)
            BY TypeFacts
          <6> QED
            BY <6>1 DEF ToSet
        <5>3. CASE i = 1
          BY <4>1, <4>2, <5>2, <5>3
        <5>4. CASE i > 1
          <6>1. 1 \in 1 .. Len(active) /\ i > 1
            BY <4>1, <5>4
          <6>2. el[active[1]] <= el[active[i]]
            BY <1>3, <6>1 DEF Sorted
          <6> QED
            BY <4>1, <5>1, <5>2, <6>2
        <5> QED
          BY <5>1, <5>2, <5>3, <5>4
      <4> HIDE DEF w, h, el
      <4>5. clock \in Nat
        BY TypeFacts
      <4>6. clock + w \in Nat
        BY <4>3, <4>5
      <4>7. clock + w <= clock \/ \A t \in ToSet(active) : clock + w <= due[t]
        BY <4>2, <4>3, <4>4, <4>5
      <4> QED
        BY <3>1, <4>6, <4>7
    <3> QED
      BY <3>2, <3>3
  <2> QED
    BY <2>1, <2>2
<1> DEFINE f == [Top EXCEPT !.phase = "sleep", !.until = v]
<1>5. f \in Frame /\ f.phase = "sleep" /\ f.until = v /\ f.timer = 0
  <2>1. /\ f \in Frame /\ f.phase = "sleep" /\ f.until = v /\ f.timer = Top.timer
    BY <1>2 DEF Frame
  <2> QED
    BY <1>2, <2>1
<1> HIDE DEF f
<1>6. /\ stack' \in Seq(Frame) /\ Len(stack') = Len(stack) /\ stack'[Len(stack)] = f
      /\ StackOK(stack', current)
  <2>1. stack' = [stack EXCEPT ![Len(stack)] = f]
    BY <1>4 DEF f
  <2> QED
    BY <1>2, <1>5, <2>1, StackTop, TypeFacts
<1> HIDE DEF el
<1>7. TypeOK'
  <2>1. Len(stack') <= MaxDepth /\ prev' \in 0 .. clock /\ time' \in [Timers -> Int]
    BY <1>3, <1>4, <1>6, TypeFacts
  <2> QED
    BY <1>1, <1>6, <2>1 DEF TypeOK, Frame, Depth
<1>8. Sorted(active, time)' /\ NoDrift'
  <2>1. Sorted(active, time')
    BY <1>3, <1>4
  <2>2. \A t \in Listed : prev' + time'[t] = due[t]
    BY <1>3, <1>4 DEF NoDrift
  <2> QED
    BY <1>1, <2>1, <2>2 DEF NoDrift, Listed
<1>9. NoOversleep'
  <2>1. Top' = f
    BY <1>6 DEF Top, Depth
  <2> QED
    BY <1>1, <1>4, <1>5, <2>1 DEF NoOversleep
<1>10. ListsOK(active, current, free, allocated)' /\ StackOK(stack, current)'
  BY <1>1, <1>6
<1> QED
  BY <1>7, <1>8, <1>9, <1>10

LEMMA WakeStep == IInv /\ Wake => IInv'
<1> SUFFICES ASSUME IInv, Wake PROVE IInv'
  OBVIOUS
<1> USE DEF IInv
<1> DEFINE f == [Top EXCEPT !.phase = "events", !.until = 0]
<1>1. /\ Phase = "sleep" /\ stack' = [stack EXCEPT ![Len(stack)] = f]
      /\ UNCHANGED <<clock, prev, active, current, free, allocated, time, skip, callback, data, due>>
  BY DEF Wake, SetTop, Depth, lists, fields
<1>2. stack # <<>> /\ Top = stack[Len(stack)] /\ Top \in Frame /\ Top.timer = 0 /\ Len(stack) \in Nat \ {0}
  BY <1>1, InWait, TypeFacts
<1>3. f \in Frame /\ f.phase = "events" /\ f.timer = 0
  <2>1. f \in Frame /\ f.phase = "events" /\ f.timer = Top.timer
    BY <1>2 DEF Frame
  <2> QED
    BY <1>2, <2>1
<1> HIDE DEF f
<1>4. /\ stack' \in Seq(Frame) /\ Len(stack') = Len(stack) /\ stack'[Len(stack)] = f
      /\ StackOK(stack', current)
  BY <1>1, <1>2, <1>3, StackTop, TypeFacts
<1>5. TypeOK'
  <2>1. Len(stack') <= MaxDepth
    BY <1>4, TypeFacts
  <2> QED
    BY <1>1, <1>4, <2>1 DEF TypeOK, Frame, Depth
<1>6. NoOversleep'
  <2>1. stack' # <<>>
    BY <1>2, <1>4
  <2>2. Phase' = "events"
    BY <1>3, <1>4, <2>1 DEF Phase, Top, Depth
  <2> QED
    BY <2>2 DEF NoOversleep
<1>7. NoDrift'
  BY <1>1 DEF NoDrift, Listed
<1>8. ListsOK(active, current, free, allocated)' /\ StackOK(stack, current)' /\ Sorted(active, time)'
  BY <1>1, <1>4
<1> QED
  BY <1>5, <1>6, <1>7, <1>8

LEMMA EndWaitStep == IInv /\ EndWait => IInv'
<1> SUFFICES ASSUME IInv, EndWait PROVE IInv'
  OBVIOUS
<1> USE DEF IInv
<1>1. /\ Phase = "events" /\ stack' = Front(stack)
      /\ UNCHANGED <<clock, prev, active, current, free, allocated, time, skip, callback, data, due>>
  BY DEF EndWait, lists, fields
<1>2. stack # <<>> /\ Top = stack[Len(stack)] /\ Top.timer = 0 /\ Len(stack) \in Nat \ {0}
  BY <1>1, InWait, TypeFacts
<1>3. /\ Front(stack) \in Seq(Frame) /\ StackOK(Front(stack), current)
      /\ \A i \in 1 .. Len(Front(stack)) : Front(stack)[i].phase \in {"callback", "events"}
  BY <1>2, StackBelow, TypeFacts
<1>4. Len(Front(stack)) = Len(stack) - 1
  BY <1>2, FrontLast, TypeFacts
<1>5. TypeOK'
  <2>1. stack' \in Seq(Frame) /\ Len(stack') <= MaxDepth
    BY <1>1, <1>2, <1>3, <1>4, TypeFacts, TimeoutAssumption
  <2> QED
    BY <1>1, <2>1 DEF TypeOK, Frame, Depth
<1>6. NoOversleep'
  <2>1. CASE Front(stack) = <<>>
    BY <1>1, <2>1 DEF NoOversleep, Phase
  <2>2. CASE Front(stack) # <<>>
    <3>1. Len(Front(stack)) \in 1 .. Len(Front(stack))
      BY <1>3, <2>2
    <3>2. Phase' \in {"callback", "events"}
      BY <1>1, <1>3, <2>2, <3>1 DEF Phase, Top, Depth
    <3> QED
      BY <3>2 DEF NoOversleep
  <2> QED
    BY <2>1, <2>2
<1>7. NoDrift'
  BY <1>1 DEF NoDrift, Listed
<1>8. ListsOK(active, current, free, allocated)' /\ StackOK(stack, current)' /\ Sorted(active, time)'
  BY <1>1, <1>3
<1> QED
  BY <1>5, <1>6, <1>7, <1>8

LEMMA NextIInv == IInv /\ [Next]_vars => IInv'
<1> SUFFICES ASSUME IInv, [Next]_vars PROVE IInv'
  OBVIOUS
<1>1. CASE Tick
  BY <1>1, TickStep
<1>2. CASE UserCall
  <2>1. PICK cb \in Callbacks, d \in Data :
          \/ \E delay \in Delays : add_timeout(delay, cb, d) \/ repeat_timeout(delay, cb, d)
          \/ remove_timeout(cb, d) \/ remove_next_timeout(cb, d)
    BY <1>2 DEF UserCall
  <2>2. ASSUME NEW delay \in Delays, add_timeout(delay, cb, d) \/ repeat_timeout(delay, cb, d)
        PROVE  IInv'
    BY <2>2, AddStep, RepeatStep
  <2> QED
    BY <2>1, <2>2, RemoveStep
<1>3. CASE \E ttw \in {0, MaxClock} : Sleep(ttw)
  BY <1>3, SleepStep, TimeoutAssumption
<1>4. CASE BeginWait \/ RunTimer \/ CallbackReturns \/ Wake \/ EndWait
  BY <1>4, BeginWaitStep, RunTimerStep, CallbackReturnsStep, WakeStep, EndWaitStep
<1>5. CASE UNCHANGED vars
  BY <1>5 DEF vars, lists, fields, IInv, TypeOK, NoDrift, Listed, NoOversleep, Phase, Top, Depth
<1>6. CASE ready
  BY <1>6, ReadyStep
<1> QED
  BY <1>1, <1>2, <1>3, <1>4, <1>5, <1>6 DEF Next, Step

-----------------------------------------------------------------------------
\* The inductive invariant holds in every state of every behaviour.
THEOREM InvariantHolds == Spec => []IInv
  BY InitIInv, NextIInv, PTL DEF Spec

\* What the invariant says of the three queues together: their concatenation
\* repeats nothing.
LEMMA ListsExact == IInv => EachInOneList
<1> SUFFICES ASSUME IInv PROVE EachInOneList
  OBVIOUS
<1> DEFINE two == active \o current
           all == two \o free
<1>1. active \in Seq(Timers) /\ current \in Seq(Timers) /\ free \in Seq(Timers)
  BY TypeFacts DEF IInv
<1>2. two \in Seq(Timers) /\ Len(two) = Len(active) + Len(current)
      /\ ToSet(two) = ToSet(active) \union ToSet(current)
  BY <1>1, ConcatProperties, ToSetConcat
<1> HIDE DEF two
<1>3. Len(all) = Len(two) + Len(free) /\ ToSet(all) = ToSet(two) \union ToSet(free)
  <2>1. Len(all) = Len(two) + Len(free)
    BY <1>1, <1>2, ConcatProperties
  <2>2. ToSet(all) = ToSet(two) \union ToSet(free)
    BY <1>1, <1>2, ToSetConcat
  <2> QED
    BY <2>1, <2>2
<1>4. Len(all) = allocated /\ ToSet(all) = 1 .. allocated
  BY <1>1, <1>2, <1>3 DEF IInv, ListsOK
<1>5. Phase = "callback" => current # <<>> /\ Head(current) = Top.timer
  <2> SUFFICES ASSUME Phase = "callback"
               PROVE  current # <<>> /\ Head(current) = Top.timer
    OBVIOUS
  <2> DEFINE b == Front(stack)
  <2>1. stack # <<>> /\ Top = stack[Len(stack)] /\ Top \in Frame /\ Top.timer # 0
    BY InWait, TypeFacts DEF IInv
  <2>2. current = <<Top.timer>> \o Running(b) /\ Running(b) \in Seq(Timers)
    BY <2>1, StackBelow, TypeFacts DEF IInv
  <2>3. Top.timer \in Timers
    BY <2>1 DEF Frame
  <2> HIDE DEF b
  <2> QED
    BY <2>2, <2>3
<1> QED
  BY <1>4, <1>5 DEF EachInOneList, IInv, two

\* Every timer entry is in exactly one of the three queues, once, and the
\* first current timer is the one whose callback runs (release()).
THEOREM EntriesAreKept == Spec => []EachInOneList
  BY InvariantHolds, ListsExact, PTL

\* The time left of a listed timer is exact, however the queue was elapsed.
THEOREM TimersDoNotDrift == Spec => []NoDrift
<1>1. IInv => NoDrift
  BY DEF IInv
<1> QED
  BY InvariantHolds, <1>1, PTL

\* poll() never sleeps past a timer (time_to_wait()).
THEOREM SleepEndsInTime == Spec => []NoOversleep
<1>1. IInv => NoOversleep
  BY DEF IInv
<1> QED
  BY InvariantHolds, <1>1, PTL

\* do_timeouts() calls no timer before its time, and of those not skipped the
\* one that is due first.
THEOREM DueFirstRunsFirst == Spec => EarliestDueFirst
<1> DEFINE Due == RunTimer => LET t == Head(current')
                              IN  /\ due[t] <= clock
                                  /\ \A u \in ToSet(active) : skip[u] = 0 => due[t] <= due[u]
<1>1. IInv /\ [Next]_vars => [Due]_vars
  <2> SUFFICES ASSUME IInv, RunTimer
               PROVE  /\ due[Head(current')] <= clock
                      /\ \A u \in ToSet(active) : skip[u] = 0 => due[Head(current')] <= due[u]
    OBVIOUS
  <2> DEFINE p == Candidate
             t == active[p]
  <2>1. p > 0 /\ time[t] <= 0 /\ current' = <<t>> \o current
    BY DEF RunTimer, MayRun
  <2>2. p \in 1 .. Len(active) /\ \A i \in 1 .. Len(active) : skip[active[i]] = 0 => p <= i
    BY <2>1, CandidateFacts DEF IInv
  <2>3. /\ active \in Seq(Timers) /\ current \in Seq(Timers) /\ clock \in Nat /\ prev \in Nat
        /\ prev <= clock /\ time \in [Timers -> Int] /\ DOMAIN active = 1 .. Len(active)
    BY TypeFacts DEF IInv
  <2> HIDE DEF p
  <2>4. \A u \in ToSet(active) : u \in Timers /\ time[u] \in Int /\ prev + time[u] = due[u]
    <3>1. ToSet(active) \subseteq Listed /\ ToSet(active) \subseteq Timers
      BY <2>3 DEF ToSet, Listed
    <3>2. \A u \in Listed : prev + time[u] = due[u]
      BY DEF IInv, NoDrift
    <3> QED
      BY <2>3, <3>1, <3>2
  <2>5. t \in ToSet(active) /\ t \in Timers
    <3>1. p \in DOMAIN active
      BY <2>2, <2>3
    <3>2. t \in ToSet(active)
      BY <3>1, Zenon DEF ToSet
    <3> QED
      BY <2>4, <3>2
  <2>6. Head(current') = t
    BY <2>1, <2>3, <2>5
  <2>7. due[t] <= clock
    BY <2>1, <2>3, <2>4, <2>5
  <2>8. ASSUME NEW u \in ToSet(active), skip[u] = 0
        PROVE  due[t] <= due[u]
    <3>1. PICK i \in 1 .. Len(active) : u = active[i]
      BY <2>3 DEF ToSet
    <3>2. p <= i
      BY <2>2, <2>8, <3>1
    <3>3. time[t] <= time[u]
      <4>1. CASE p = i
        BY <2>4, <2>8, <3>1, <4>1
      <4>2. CASE p < i
        BY <2>2, <3>1, <4>2 DEF IInv, Sorted
      <4> QED
        BY <2>2, <3>2, <4>1, <4>2
    <3> HIDE DEF t
    <3> QED
      BY <2>3, <2>4, <2>5, <2>8, <3>3
  <2> QED
    BY <2>6, <2>7, <2>8
<1>2. [][Due]_vars => EarliestDueFirst
  BY PTL DEF EarliestDueFirst
<1> QED
  BY <1>1, <1>2, InvariantHolds, PTL DEF Spec
=============================================================================
