-------------------------- MODULE FlWidgetsProofs ---------------------------
(***************************************************************************)
(* Proofs about FlWidgets, for any widgets and any depth of calls: no       *)
(* pointer dangles, no widget is deleted twice, trackers tell the truth,    *)
(* and no deletion that was asked for is forgotten.                         *)
(***************************************************************************)
EXTENDS FlWidgets, SequenceLemmas, FiniteSetTheorems

Pcs    == {"user", "clear", "widget", "callback", "loop"}
BusyPc == {"user", "clear", "widget"}
Null(S) == S \union {NULL}
Record == [pc : Pcs, w : Null(Widgets), i : Nat, saved : Null(Widgets),
           delete : BOOLEAN, gone : BOOLEAN]

\* The types of what the tree, the pointers and the calls are made of.
Typed ==
  /\ live \subseteq Widgets /\ wanted \subseteq Widgets
  /\ parent \in [Widgets -> Groups \union {NULL}]
  /\ children \in [Groups -> Seq(Widgets)]
  /\ savedfocus \in [Groups -> Widgets \union {NULL}]
  /\ focus \in Widgets \union {NULL} /\ pushed \in Widgets \union {NULL}
  /\ dwidgets \in Seq(Widgets)
  /\ stack \in Seq([pc : {"user", "clear", "widget", "callback", "loop"},
                    w : Widgets \union {NULL}, i : Nat, saved : Widgets \union {NULL},
                    delete : BOOLEAN, gone : BOOLEAN])

Parents == [Widgets -> Null(Groups)]
Acyclic(par) == \A w \in Widgets : par[w] # NULL => w \notin UpFrom(par, par[w])

\* The window is at the top of a tree.
Rooted(lv, par) == Win \in lv /\ par[Win] = NULL /\ Acyclic(par)

\* What every call knows of its widget, and what it has still to do: d is the
\* length of the list of scheduled widgets.
FrameOK(lv, ch, par, d, f) ==
  /\ f.pc \in BusyPc => f.w \in lv /\ (f.delete => f.w # Win)
  /\ f.pc \in {"user", "widget"} => f.delete
  /\ f.pc = "clear" =>
       /\ f.w \in Groups /\ f.saved \in Null(lv)
       /\ Len(ch[f.w]) <= f.i
       /\ f.saved # NULL /\ f.w \in UpFrom(par, f.saved) => f.w = f.saved
  /\ f.pc = "widget" /\ f.w \in Groups => ch[f.w] = <<>>
  /\ f.pc = "callback" => f.w \in Widgets
  /\ f.pc = "loop" => f.i <= d
Framed(lv, ch, par, d, s) == \A k \in 1 .. Len(s) : FrameOK(lv, ch, par, d, s[k])

\* Below the loop of do_widget_deletion() only a callback is under way, and the
\* call it makes is a destructor.
Looped(s) ==
  \A k \in 1 .. Len(s) : s[k].pc = "loop" =>
    /\ \A j \in 1 .. k - 1 : s[j].pc = "callback"
    /\ k < Len(s) => s[k + 1].pc \in BusyPc

\* The call h does not work on a group that holds the widget of f, a call that
\* began earlier, or the widget that f put aside, unless h is a clear() of that
\* very widget.
Apart(par, f, h) ==
  h.pc \in BusyPc =>
    /\ f.pc \in BusyPc => h.w \notin UpFrom(par, f.w)
    /\ f.pc = "clear" /\ f.saved # NULL /\ h.w \in UpFrom(par, f.saved)
         => h.w = f.saved /\ ~h.delete
Nested(par, s) == \A j, k \in 1 .. Len(s) : j < k => Apart(par, s[j], s[k])

\* Busy, Dying, Clearing and Handled(n) of any stack.
ClearPc == {"clear", "widget"}
BusyIn(s)  == {x \in Widgets : \E k \in 1 .. Len(s) : s[k].pc \in BusyPc /\ s[k].w = x}
DyingIn(s) == {x \in Widgets : \E k \in 1 .. Len(s) : s[k].pc \in BusyPc /\ s[k].delete /\ s[k].w = x}
ClearingIn(s) == {x \in Widgets : \E k \in 1 .. Len(s) : s[k].pc \in ClearPc /\ s[k].w = x}
HandledIn(s, n) == \E k \in 1 .. Len(s) : s[k].pc = "loop" /\ n <= s[k].i

\* The entries of the list are different; those that the loop has come to are
\* being deleted or are deleted, the others neither; and whoever was asked to be
\* deleted and still exists is an entry.
Entered(dw) == Distinct(dw) /\ Win \notin ToSet(dw)
Awaited(lv, dw, s) ==
  \A n \in 1 .. Len(dw) : IF HandledIn(s, n) THEN dw[n] \in lv => dw[n] \in DyingIn(s)
                           ELSE dw[n] \in lv /\ dw[n] \notin DyingIn(s)
Promised(lv, dw, wt) == wt \subseteq lv \intersect ToSet(dw)

\* OnlyTheGroup(), with the busy widgets as a parameter.
Single(par, sched, busy) == \A w \in sched : UpFrom(par, w) \intersect (sched \union busy) \subseteq {w}

AllSaved(sf, ch) == \A g \in Groups : sf[g] # NULL => sf[g] \in ToSet(ch[g])
Pointers == focus \in Null(live) /\ pushed \in Null(live) /\ AllSaved(savedfocus, children)

Tree == TreeAgrees /\ Rooted(live, parent) /\ Pointers
Calls(lv, ch, par, d, s) == Framed(lv, ch, par, d, s) /\ Looped(s) /\ Nested(par, s)
Lists(lv, par, dw, wt, s) ==
  /\ Entered(dw) /\ Awaited(lv, dw, s) /\ Promised(lv, dw, wt)
  /\ Single(par, ToSet(dw), BusyIn(s))

IInv ==
  /\ Typed /\ Tree
  /\ Calls(live, children, parent, Len(dwidgets), stack)
  /\ Lists(live, parent, dwidgets, wanted, stack)

\* The watch list holds the trackers of the callbacks under way, each one once, and
\* every tracker points to its widget until that is deleted.
CallbacksIn(s) == {k \in 1 .. Len(s) : s[k].pc = "callback"}
Tells(f) == f.saved \in {f.w, NULL} /\ (f.gone <=> f.saved = NULL)
Watched(wa, s) ==
  /\ wa \in Seq(Nat) /\ Distinct(wa) /\ ToSet(wa) = CallbacksIn(s)
  /\ \A k \in CallbacksIn(s) : Tells(s[k])
WInv == lost = {} /\ Watched(watch, stack)
-----------------------------------------------------------------------------
\* The recursive function of UpFrom() exists.
IsUp(f, par, w, n) ==
  f = [i \in 0 .. n |->
         IF i = 0 THEN {w} ELSE f[i - 1] \union {par[x] : x \in f[i - 1] \ {NULL}}]

LEMMA UpExists ==
  ASSUME NEW par, NEW w, NEW n \in Nat
  PROVE  \E f : IsUp(f, par, w, n)
<1> DEFINE T == {m \in Nat : \E f : IsUp(f, par, w, m)}
<1>1. 0 \in T
  <2>1. IsUp([i \in 0 .. 0 |-> {w}], par, w, 0)
    BY DEF IsUp
  <2> QED
    BY <2>1
<1>2. ASSUME NEW m \in Nat, m \in T
      PROVE  m + 1 \in T
  <2>1. PICK f : IsUp(f, par, w, m)
    BY <1>2
  <2> DEFINE last == f[m] \union {par[x] : x \in f[m] \ {NULL}}
             g == [i \in 0 .. m + 1 |-> IF i <= m THEN f[i] ELSE last]
  <2>2. ASSUME NEW i \in 0 .. m + 1
        PROVE  g[i] = IF i = 0 THEN {w} ELSE g[i - 1] \union {par[x] : x \in g[i - 1] \ {NULL}}
    <3>1. CASE i = 0
      BY <3>1, <2>1 DEF IsUp
    <3>2. CASE i \in 1 .. m
      <4>1. i - 1 \in 0 .. m /\ i \in 0 .. m
        BY <3>2
      <4>2. g[i] = f[i] /\ g[i - 1] = f[i - 1]
        BY <4>1, <3>2
      <4> QED
        BY <4>1, <4>2, <3>2, <2>1 DEF IsUp
    <3>3. CASE i = m + 1
      <4>1. i # 0 /\ i - 1 = m /\ ~(i <= m) /\ m \in 0 .. m + 1 /\ m <= m
        BY <3>3
      <4>2. g[i] = last /\ g[m] = f[m]
        BY <4>1
      <4>3. last = g[i - 1] \union {par[x] : x \in g[i - 1] \ {NULL}}
        BY <4>1, <4>2
      <4> QED
        BY <4>1, <4>2, <4>3
    <3> QED
      BY <3>1, <3>2, <3>3
  <2>3. IsUp(g, par, w, m + 1)
    BY <2>2 DEF IsUp
  <2> QED
    BY <2>3
<1> QED
  BY <1>1, <1>2, NatInduct

LEMMA UpIs ==
  ASSUME NEW par, NEW w
  PROVE  \E f : IsUp(f, par, w, Cardinality(Widgets)) /\ UpFrom(par, w) = f[Cardinality(Widgets)] \ {NULL}
<1> DEFINE up == CHOOSE f : IsUp(f, par, w, Cardinality(Widgets))
<1>1. UpFrom(par, w) = up[Cardinality(Widgets)] \ {NULL}
  BY DEF UpFrom, IsUp
<1>2. Cardinality(Widgets) \in Nat
  BY WidgetsAssumption, FS_CardinalityType
<1>3. IsUp(up, par, w, Cardinality(Widgets))
  BY <1>2, UpExists
<1> QED
  BY <1>1, <1>3

\* UpFrom(par, w) is part of every set that holds w and the parents of its
\* members, ...
LEMMA UpLeast ==
  ASSUME NEW par, NEW w, NEW S, w \in S,
         \A x \in S : x # NULL /\ par[x] # NULL => par[x] \in S
  PROVE  UpFrom(par, w) \subseteq S
<1> DEFINE N == Cardinality(Widgets)
<1>1. PICK f : IsUp(f, par, w, N) /\ UpFrom(par, w) = f[N] \ {NULL}
  BY UpIs
<1>2. N \in Nat
  BY WidgetsAssumption, FS_CardinalityType
<1> DEFINE T == {n \in Nat : n <= N => f[n] \subseteq S \union {NULL}}
<1> HIDE DEF N
<1>3. 0 \in T
  BY <1>1, <1>2 DEF IsUp
<1>4. ASSUME NEW n \in Nat, n \in T
      PROVE  n + 1 \in T
  <2> SUFFICES ASSUME n + 1 <= N
               PROVE  f[n + 1] \subseteq S \union {NULL}
    OBVIOUS
  <2>1. f[n] \subseteq S \union {NULL}
    BY <1>4, <1>2
  <2>2. n + 1 \in 0 .. N /\ n + 1 # 0 /\ (n + 1) - 1 = n
    BY <1>2
  <2>3. f[n + 1] = f[n] \union {par[x] : x \in f[n] \ {NULL}}
    BY <2>2, <1>1 DEF IsUp
  <2> QED
    BY <2>1, <2>3
<1>5. N \in T
  BY <1>2, <1>3, <1>4, NatInduct
<1> QED
  BY <1>1, <1>2, <1>5

Closed(par, S) == \A x \in S : x # NULL => par[x] \in S

\* ... and such a set itself: there are no more than Cardinality(Widgets)
\* different ones to meet.
LEMMA UpClosed ==
  ASSUME NEW par \in Parents, NEW w \in Widgets
  PROVE  /\ UpFrom(par, w) \subseteq Widgets /\ w \in UpFrom(par, w)
         /\ \A x \in UpFrom(par, w) : par[x] # NULL => par[x] \in UpFrom(par, w)
<1> DEFINE N == Cardinality(Widgets)
           All == Null(Widgets)
<1>1. PICK f : IsUp(f, par, w, N) /\ UpFrom(par, w) = f[N] \ {NULL}
  BY UpIs
<1>2. N \in Nat /\ IsFiniteSet(Widgets) /\ NULL \notin Widgets /\ Groups \subseteq Widgets
  BY WidgetsAssumption, FS_CardinalityType
<1>3. IsFiniteSet(All) /\ Cardinality(All) = N + 1
  BY <1>2, FS_AddElement DEF Null
<1>4. \A x \in Widgets : par[x] \in All
  BY <1>2 DEF Parents, Null
<1>5. w \in All /\ NULL \in All
  BY DEF Null
<1>6. \A x \in All : x # NULL => x \in Widgets
  BY DEF Null
<1> DEFINE T == {n \in Nat : n <= N => /\ f[n] \subseteq All /\ w \in f[n]
                                       /\ Closed(par, f[n]) \/ Cardinality(f[n]) >= n + 1}
<1> HIDE DEF N, All
<1>7. 0 \in T
  <2>1. f[0] = {w}
    BY <1>1, <1>2 DEF IsUp
  <2>2. Cardinality({w}) = 1
    BY FS_Singleton
  <2> QED
    BY <2>1, <2>2, <1>5
<1>8. ASSUME NEW n \in Nat, n \in T
      PROVE  n + 1 \in T
  <2> SUFFICES ASSUME n + 1 <= N
               PROVE  /\ f[n + 1] \subseteq All /\ w \in f[n + 1]
                      /\ Closed(par, f[n + 1]) \/ Cardinality(f[n + 1]) >= (n + 1) + 1
    OBVIOUS
  <2>1. f[n] \subseteq All /\ w \in f[n] /\ (Closed(par, f[n]) \/ Cardinality(f[n]) >= n + 1)
    BY <1>8, <1>2
  <2>2. n + 1 \in 0 .. N /\ n + 1 # 0 /\ (n + 1) - 1 = n
    BY <1>2
  <2>3. f[n + 1] = f[n] \union {par[x] : x \in f[n] \ {NULL}}
    BY <2>2, <1>1 DEF IsUp
  <2>4. f[n + 1] \subseteq All /\ w \in f[n + 1]
    BY <2>1, <2>3, <1>4, <1>6
  <2>5. CASE Closed(par, f[n])
    <3>1. f[n + 1] = f[n]
      BY <2>3, <2>5 DEF Closed
    <3> QED
      BY <3>1, <2>4, <2>5
  <2>6. CASE ~Closed(par, f[n])
    <3>1. PICK x \in f[n] : x # NULL /\ par[x] \notin f[n]
      BY <2>6 DEF Closed
    <3>2. IsFiniteSet(f[n]) /\ IsFiniteSet(f[n + 1])
      BY <2>1, <2>4, <1>3, FS_Subset
    <3>3. Cardinality(f[n] \union {par[x]}) = Cardinality(f[n]) + 1
      BY <3>1, <3>2, FS_AddElement
    <3>4. f[n] \union {par[x]} \in SUBSET f[n + 1]
      BY <3>1, <2>3
    <3>5. Cardinality(f[n] \union {par[x]}) <= Cardinality(f[n + 1])
      BY <3>2, <3>4, FS_Subset
    <3>6. Cardinality(f[n]) \in Nat /\ Cardinality(f[n + 1]) \in Nat
      BY <3>2, FS_CardinalityType
    <3>7. Cardinality(f[n]) >= n + 1
      BY <2>1, <2>6
    <3>8. Cardinality(f[n + 1]) >= (n + 1) + 1
      BY <3>3, <3>5, <3>6, <3>7
    <3> QED
      BY <3>8, <2>4
  <2> QED
    BY <2>5, <2>6
<1>9. N \in T
  BY <1>2, <1>7, <1>8, NatInduct
<1>10. Closed(par, f[N])
  <2>1. CASE Cardinality(f[N]) >= N + 1
    <3>1. f[N] \in SUBSET All
      BY <1>9, <1>2
    <3>2. IsFiniteSet(f[N]) /\ Cardinality(f[N]) <= Cardinality(All)
      BY <3>1, <1>3, FS_Subset
    <3>3. Cardinality(f[N]) \in Nat
      BY <3>2, FS_CardinalityType
    <3>4. Cardinality(All) = Cardinality(f[N])
      BY <3>2, <3>3, <2>1, <1>2, <1>3
    <3>5. f[N] = All
      BY <3>1, <3>4, <1>3, FS_Subset
    <3> QED
      BY <3>5, <1>4, <1>6 DEF Closed
  <2> QED
    BY <2>1, <1>9, <1>2
<1> QED
  BY <1>1, <1>2, <1>6, <1>9, <1>10 DEF Closed

LEMMA UpOfUp ==
  ASSUME NEW par \in Parents, NEW o \in Widgets, NEW x \in UpFrom(par, o)
  PROVE  UpFrom(par, x) \subseteq UpFrom(par, o)
<1>1. \A y \in UpFrom(par, o) : y # NULL /\ par[y] # NULL => par[y] \in UpFrom(par, o)
  BY UpClosed
<1> QED
  BY <1>1, UpLeast

\* Whoever is above o got there as somebody's parent.
LEMMA UpThrough ==
  ASSUME NEW par \in Parents, NEW o \in Widgets, NEW x \in UpFrom(par, o), x # o
  PROVE  \E y \in UpFrom(par, o) : par[y] = x
<1> DEFINE S == {z \in UpFrom(par, o) : z = o \/ \E y \in UpFrom(par, o) : par[y] = z}
<1>1. o \in S
  BY UpClosed
<1>2. \A z \in S : z # NULL /\ par[z] # NULL => par[z] \in S
  BY UpClosed
<1>3. UpFrom(par, o) \subseteq S
  <2> HIDE DEF S
  <2> QED
    BY <1>1, <1>2, UpLeast
<1> QED
  BY <1>3

\* A child that leaves its group takes nothing else along.
LEMMA UpCut ==
  ASSUME NEW par \in Parents, NEW w \in Widgets, NEW o \in Widgets
  PROVE  /\ [par EXCEPT ![w] = NULL] \in Parents
         /\ UpFrom([par EXCEPT ![w] = NULL], o) \subseteq UpFrom(par, o)
<1> DEFINE cut == [par EXCEPT ![w] = NULL]
<1>1. cut \in Parents
  BY DEF Parents, Null
<1>2. \A x \in Widgets : cut[x] = IF x = w THEN NULL ELSE par[x]
  BY DEF Parents
<1>3. UpFrom(par, o) \subseteq Widgets /\ o \in UpFrom(par, o)
  BY UpClosed
<1>4. \A x \in UpFrom(par, o) : x # NULL /\ cut[x] # NULL => cut[x] \in UpFrom(par, o)
  BY <1>2, <1>3, UpClosed
<1> HIDE DEF cut
<1>5. UpFrom(cut, o) \subseteq UpFrom(par, o)
  BY <1>3, <1>4, UpLeast
<1> QED
  BY <1>1, <1>5 DEF cut

\* What a widget that is put under g, which it does not hold, changes: nothing for
\* those that it does not hold, and the others are below g now.
LEMMA UpGraft ==
  ASSUME NEW par \in Parents, NEW w \in Widgets, NEW g \in Groups, NEW o \in Widgets,
         w \notin UpFrom(par, g)
  PROVE  /\ [par EXCEPT ![w] = g] \in Parents
         /\ UpFrom([par EXCEPT ![w] = g], o) \subseteq UpFrom(par, o) \union UpFrom(par, g)
         /\ w \notin UpFrom(par, o) => UpFrom([par EXCEPT ![w] = g], o) \subseteq UpFrom(par, o)
<1> DEFINE put == [par EXCEPT ![w] = g]
<1>0. g \in Widgets
  BY WidgetsAssumption
<1>1. put \in Parents
  BY DEF Parents, Null
<1>2. \A x \in Widgets : put[x] = IF x = w THEN g ELSE par[x]
  BY DEF Parents
<1>3. UpFrom(par, o) \subseteq Widgets /\ o \in UpFrom(par, o)
  BY UpClosed
<1>4. UpFrom(par, g) \subseteq Widgets /\ g \in UpFrom(par, g)
  BY <1>0, UpClosed
<1>5. \A x \in UpFrom(par, o) : x # w /\ put[x] # NULL => put[x] \in UpFrom(par, o)
  BY <1>2, <1>3, UpClosed
<1>6. \A x \in UpFrom(par, g) : put[x] # NULL => put[x] \in UpFrom(par, g)
  BY <1>0, <1>2, <1>4, UpClosed
<1> DEFINE S == UpFrom(par, o) \union UpFrom(par, g)
<1>7. \A x \in S : x # NULL /\ put[x] # NULL => put[x] \in S
  BY <1>2, <1>3, <1>4, <1>5, <1>6
<1>8. o \in S
  BY <1>3
<1> HIDE DEF put
<1>9. UpFrom(put, o) \subseteq S
  <2> HIDE DEF S
  <2> QED
    BY <1>7, <1>8, UpLeast
<1>10. w \notin UpFrom(par, o) => UpFrom(put, o) \subseteq UpFrom(par, o)
  BY <1>3, <1>5, UpLeast
<1> QED
  BY <1>1, <1>9, <1>10 DEF put

LEMMA CutAcyclic ==
  ASSUME NEW par \in Parents, NEW w \in Widgets, Acyclic(par)
  PROVE  Acyclic([par EXCEPT ![w] = NULL])
<1> DEFINE cut == [par EXCEPT ![w] = NULL]
<1>1. SUFFICES ASSUME NEW x \in Widgets, cut[x] # NULL
               PROVE  x \notin UpFrom(cut, cut[x])
  BY Zenon DEF Acyclic
<1>2. cut[x] = par[x] /\ par[x] \in Widgets
  BY <1>1, WidgetsAssumption DEF Parents, Null
<1>3. UpFrom(cut, par[x]) \subseteq UpFrom(par, par[x])
  BY <1>2, UpCut
<1> HIDE DEF cut
<1>4. par[x] # NULL
  BY <1>1, <1>2
<1> QED
  BY <1>2, <1>3, <1>4 DEF Acyclic

LEMMA GraftAcyclic ==
  ASSUME NEW par \in Parents, NEW w \in Widgets, NEW g \in Groups, Acyclic(par),
         w \notin UpFrom(par, g)
  PROVE  Acyclic([par EXCEPT ![w] = g])
<1> DEFINE put == [par EXCEPT ![w] = g]
<1>1. SUFFICES ASSUME NEW x \in Widgets, put[x] # NULL, x \in UpFrom(put, put[x])
               PROVE  FALSE
  BY Zenon DEF Acyclic
<1>2. put[x] = IF x = w THEN g ELSE par[x]
  BY DEF Parents
<1>3. g \in Widgets /\ put[x] \in Widgets
  BY <1>1, <1>2, WidgetsAssumption DEF Parents, Null
<1>4. UpFrom(put, put[x]) \subseteq UpFrom(par, put[x]) \union UpFrom(par, g)
  BY <1>3, UpGraft
<1>5. w \notin UpFrom(par, put[x]) => UpFrom(put, put[x]) \subseteq UpFrom(par, put[x])
  BY <1>3, UpGraft
<1> HIDE DEF put
<1>6. CASE x = w
  BY <1>1, <1>2, <1>4, <1>6
<1>7. CASE x # w
  <2>1. put[x] = par[x] /\ par[x] # NULL /\ x \notin UpFrom(par, par[x])
    BY <1>1, <1>2, <1>7 DEF Acyclic
  <2>2. w \in UpFrom(par, par[x]) /\ x \in UpFrom(par, g)
    BY <2>1, <1>1, <1>4, <1>5
  <2>3. par[x] \in UpFrom(par, g)
    BY <2>1, <2>2, <1>3, UpClosed
  <2>4. UpFrom(par, par[x]) \subseteq UpFrom(par, g)
    BY <2>3, <1>3, UpOfUp
  <2> QED
    BY <2>2, <2>4
<1> QED
  BY <1>6, <1>7
-----------------------------------------------------------------------------
\* TreeAgrees for any parents, arrays of children and widgets.
Arrays == [Groups -> Seq(Widgets)]
Agrees(par, ch, lv) ==
  /\ \A w \in Widgets : par[w] # NULL => w \in lv /\ par[w] \in lv /\ w \in ToSet(ch[par[w]])
  /\ \A g \in Groups : Distinct(ch[g]) /\ \A w \in ToSet(ch[g]) : par[w] = g

LEMMA TreeIs ==
  ASSUME Typed
  PROVE  TreeAgrees <=> Agrees(parent, children, live)
<1>1. ASSUME NEW g \in Groups
      PROVE  (\A i \in 1 .. Len(children[g]) :
                /\ parent[children[g][i]] = g
                /\ \A j \in 1 .. Len(children[g]) : children[g][i] = children[g][j] => i = j)
             <=> (Distinct(children[g]) /\ \A w \in ToSet(children[g]) : parent[w] = g)
  <2>1. children[g] \in Seq(Widgets)
    BY DEF Typed
  <2>2. ToSet(children[g]) = {children[g][i] : i \in 1 .. Len(children[g])}
    BY <2>1 DEF ToSet
  <2> QED
    BY <2>2 DEF Distinct
<1>2. ASSUME NEW w \in Widgets
      PROVE  {w, parent[w]} \subseteq live <=> w \in live /\ parent[w] \in live
  OBVIOUS
<1> QED
  BY <1>1, <1>2, Zenon DEF TreeAgrees, Agrees

LEMMA OneOrNone ==
  ASSUME NEW r \in Seq(Widgets), NEW w, Distinct(r)
  PROVE  /\ ToSet(r) = {w} => Len(r) = 1
         /\ ToSet(r) = {} => Len(r) = 0
<1>1. \A i \in 1 .. Len(r) : r[i] \in ToSet(r)
  BY DEF ToSet
<1>2. Len(r) \in Nat
  OBVIOUS
<1>3. ASSUME ToSet(r) = {w}
      PROVE  Len(r) = 1
  <2>0. DOMAIN r = 1 .. Len(r) /\ w \in ToSet(r)
    BY <1>3
  <2>1. \E i \in 1 .. Len(r) : r[i] = w
    BY <2>0, Zenon DEF ToSet
  <2>2. 1 \in 1 .. Len(r) /\ (Len(r) > 1 => 2 \in 1 .. Len(r))
    BY <2>1, <1>2
  <2>3. Len(r) > 1 => r[1] = r[2]
    BY <2>2, <1>1, <1>3
  <2>4. ~(Len(r) > 1)
    BY <2>2, <2>3 DEF Distinct
  <2>5. Len(r) >= 1
    BY <2>1, <1>2
  <2>6. \A n \in Nat : ~(n > 1) /\ n >= 1 => n = 1
    OBVIOUS
  <2> QED
    BY <2>4, <2>5, <2>6, <1>2, Zenon
<1>4. ASSUME ToSet(r) = {}
      PROVE  Len(r) = 0
  BY <1>1, <1>2, <1>4
<1> QED
  BY <1>3, <1>4

LEMMA TreeIsNext == Typed' => (TreeAgrees' <=> Agrees(parent', children', live'))
<1>1. Typed => (TreeAgrees <=> Agrees(parent, children, live))
  BY TreeIs
<1>2. (Typed => (TreeAgrees <=> Agrees(parent, children, live)))'
  BY <1>1, PTL
<1> QED
  BY <1>2

\* What is left of an array of children without one of them.
LEMMA WithoutOne ==
  ASSUME NEW s \in Seq(Widgets), NEW w \in Widgets, Distinct(s)
  PROVE  /\ Kept(s, Widgets \ {w}) \in Seq(Widgets)
         /\ Distinct(Kept(s, Widgets \ {w}))
         /\ ToSet(Kept(s, Widgets \ {w})) = ToSet(s) \ {w}
         /\ Len(Kept(s, Widgets \ {w})) = IF w \in ToSet(s) THEN Len(s) - 1 ELSE Len(s)
<1> DEFINE S == Widgets \ {w}
           k == Kept(s, S)
           r == Kept(s, {w})
<1>1. k \in Seq(Widgets) /\ r \in Seq(Widgets)
  BY KeptType
<1>2. Distinct(k) /\ Distinct(r)
  BY KeptDistinct
<1>3. ToSet(k) = ToSet(s) \intersect S /\ ToSet(r) = ToSet(s) \intersect {w}
  BY KeptSet
<1>4. ToSet(s) \subseteq Widgets
  BY DEF ToSet
<1>5. Len(k) + Len(r) = Len(s)
  <2>1. \A x \in Widgets : x \in S <=> x \notin {w}
    OBVIOUS
  <2> HIDE DEF S
  <2> QED
    BY <2>1, KeptLen
<1> HIDE DEF k, r
<1>6. Len(r) = IF w \in ToSet(s) THEN 1 ELSE 0
  <2>1. /\ ToSet(r) = {w} => Len(r) = 1
        /\ ToSet(r) = {} => Len(r) = 0
    BY <1>1, <1>2, OneOrNone
  <2>2. ToSet(r) = IF w \in ToSet(s) THEN {w} ELSE {}
    BY <1>3
  <2> QED
    BY <2>1, <2>2
<1>7. Len(k) \in Nat /\ Len(s) \in Nat
  BY <1>1
<1>8. Len(k) = IF w \in ToSet(s) THEN Len(s) - 1 ELSE Len(s)
  BY <1>5, <1>6, <1>7
<1>9. ToSet(k) = ToSet(s) \ {w}
  BY <1>3, <1>4
<1> QED
  BY <1>1, <1>2, <1>8, <1>9 DEF k

\* remove(w) of its parent keeps the tree as it should be; so does ~Fl_Widget().
LEMMA OrphanedFacts ==
  ASSUME Typed, TreeAgrees, NEW w \in Widgets
  PROVE  /\ Orphaned(w).pa = [parent EXCEPT ![w] = NULL] /\ Orphaned(w).pa \in Parents
         /\ Orphaned(w).ch \in Arrays /\ Orphaned(w).sf \in [Groups -> Null(Widgets)]
         /\ Agrees(Orphaned(w).pa, Orphaned(w).ch, live)
         /\ (\A x \in Widgets : parent[x] # w)
              => Agrees(Orphaned(w).pa, Orphaned(w).ch, live \ {w})
         /\ \A g \in Groups : Len(Orphaned(w).ch[g]) = IF g = parent[w] THEN Len(children[g]) - 1
                                                       ELSE Len(children[g])
         /\ \A g \in Groups : g # parent[w] => Orphaned(w).ch[g] = children[g]
         /\ AllSaved(savedfocus, children) => AllSaved(Orphaned(w).sf, Orphaned(w).ch)
<1> DEFINE o == Orphaned(w)
<1>1. o.pa = [parent EXCEPT ![w] = NULL] /\ parent \in Parents
  BY DEF Orphaned, Typed, Parents, Null
<1>2. o.pa \in Parents /\ \A x \in Widgets : o.pa[x] = IF x = w THEN NULL ELSE parent[x]
  BY <1>1 DEF Parents, Null
<1>3. ASSUME NEW g \in Groups
      PROVE  /\ o.ch[g] \in Seq(Widgets) /\ Distinct(o.ch[g])
             /\ ToSet(o.ch[g]) = IF g = parent[w] THEN ToSet(children[g]) \ {w} ELSE ToSet(children[g])
             /\ Len(o.ch[g]) = IF g = parent[w] THEN Len(children[g]) - 1 ELSE Len(children[g])
             /\ g # parent[w] => o.ch[g] = children[g]
             /\ o.sf[g] = IF g = parent[w] /\ savedfocus[g] = w THEN NULL ELSE savedfocus[g]
  <2>1. o.ch[g] = IF g = parent[w] THEN Outside(g, w) ELSE children[g]
    BY DEF Orphaned
  <2>2. o.sf[g] = IF g = parent[w] /\ savedfocus[g] = w THEN NULL ELSE savedfocus[g]
    BY DEF Orphaned
  <2>3. g # NULL /\ children[g] \in Seq(Widgets)
    BY WidgetsAssumption DEF Typed
  <2>4. Outside(g, w) = Kept(children[g], Widgets \ {w})
    BY <2>3 DEF Outside
  <2>5. Distinct(children[g]) /\ (g = parent[w] => w \in ToSet(children[g]))
    BY <2>3, TreeIs, Zenon DEF Agrees
  <2> HIDE DEF o
  <2>6. CASE g = parent[w]
    BY <2>1, <2>2, <2>3, <2>4, <2>5, <2>6, WithoutOne
  <2>7. CASE g # parent[w]
    BY <2>1, <2>2, <2>3, <2>5, <2>7
  <2> QED
    BY <2>6, <2>7
<1>4. o.ch = [g \in Groups |-> o.ch[g]] /\ o.sf = [g \in Groups |-> o.sf[g]]
  BY DEF Orphaned
<1> HIDE DEF o
<1>5. o.ch \in Arrays
  BY <1>3, <1>4 DEF Arrays
<1>6. o.sf \in [Groups -> Null(Widgets)]
  <2>1. \A g \in Groups : savedfocus[g] \in Null(Widgets)
    BY DEF Typed, Null
  <2> QED
    BY <2>1, <1>3, <1>4 DEF Null
<1>7. Agrees(parent, children, live)
  BY TreeIs
<1>8. \A x \in Widgets : parent[x] # NULL => parent[x] \in Groups
  BY DEF Typed
<1>9. Agrees(o.pa, o.ch, live)
  <2>1. ASSUME NEW x \in Widgets, o.pa[x] # NULL
        PROVE  x \in live /\ o.pa[x] \in live /\ x \in ToSet(o.ch[o.pa[x]])
    <3>1. x # w /\ o.pa[x] = parent[x]
      BY <2>1, <1>2
    <3>2. x \in live /\ parent[x] \in live /\ x \in ToSet(children[parent[x]]) /\ parent[x] \in Groups
      BY <3>1, <2>1, <1>7, <1>8 DEF Agrees
    <3> QED
      BY <3>1, <3>2, <1>3
  <2>2. ASSUME NEW g \in Groups
        PROVE  Distinct(o.ch[g]) /\ \A x \in ToSet(o.ch[g]) : o.pa[x] = g
    <3>1. Distinct(o.ch[g])
      BY <1>3
    <3>2. ASSUME NEW x \in ToSet(o.ch[g])
          PROVE  o.pa[x] = g
      <4>1. x \in ToSet(children[g]) /\ (g = parent[w] => x # w)
        BY <1>3
      <4>2. parent[x] = g
        BY <4>1, <1>7 DEF Agrees
      <4>3. x \in Widgets
        BY <4>1 DEF Typed, ToSet
      <4> QED
        BY <4>1, <4>2, <4>3, <1>2
    <3> QED
      BY <3>1, <3>2
  <2> QED
    BY <2>1, <2>2 DEF Agrees
<1>10. ASSUME \A x \in Widgets : parent[x] # w
       PROVE  Agrees(o.pa, o.ch, live \ {w})
  BY <1>10, <1>9, <1>2 DEF Agrees
<1>11. ASSUME AllSaved(savedfocus, children)
       PROVE  AllSaved(o.sf, o.ch)
  BY <1>11, <1>3 DEF AllSaved
<1> QED
  BY <1>1, <1>2, <1>3, <1>5, <1>6, <1>9, <1>10, <1>11 DEF o
-----------------------------------------------------------------------------
\* A call more on top of the others.
LEMMA AppendFacts ==
  ASSUME NEW s \in Seq(Record), NEW f \in Record
  PROVE  /\ Append(s, f) \in Seq(Record) /\ Len(s) \in Nat /\ Len(Append(s, f)) = Len(s) + 1
         /\ Append(s, f)[Len(s) + 1] = f
         /\ \A k \in 1 .. Len(s) : Append(s, f)[k] = s[k] /\ s[k] \in Record
OBVIOUS

LEMMA AppendSets ==
  ASSUME NEW s \in Seq(Record), NEW f \in Record
  PROVE  /\ BusyIn(Append(s, f)) = BusyIn(s) \union
              (IF f.pc \in BusyPc THEN {f.w} \intersect Widgets ELSE {})
         /\ DyingIn(Append(s, f)) = DyingIn(s) \union
              (IF f.pc \in BusyPc /\ f.delete THEN {f.w} \intersect Widgets ELSE {})
         /\ \A n \in Nat : HandledIn(Append(s, f), n) <=> HandledIn(s, n) \/ (f.pc = "loop" /\ n <= f.i)
<1> DEFINE t == Append(s, f)
           m == Len(s) + 1
<1>1. Len(s) \in Nat /\ Len(t) = m /\ t[m] = f /\ \A k \in 1 .. Len(s) : t[k] = s[k]
  BY AppendFacts
<1>2. 1 .. m = (1 .. Len(s)) \union {m}
  BY <1>1
<1> HIDE DEF t, m
<1>3. BusyIn(t) = BusyIn(s) \union (IF f.pc \in BusyPc THEN {f.w} \intersect Widgets ELSE {})
  BY <1>1, <1>2 DEF BusyIn
<1>4. DyingIn(t) = DyingIn(s) \union (IF f.pc \in BusyPc /\ f.delete THEN {f.w} \intersect Widgets ELSE {})
  BY <1>1, <1>2 DEF DyingIn
<1>5. ASSUME NEW n \in Nat
      PROVE  HandledIn(t, n) <=> HandledIn(s, n) \/ (f.pc = "loop" /\ n <= f.i)
  BY <1>1, <1>2 DEF HandledIn
<1> QED
  BY <1>3, <1>4, <1>5 DEF t

LEMMA AppendFramed ==
  ASSUME NEW s \in Seq(Record), NEW f \in Record, NEW lv, NEW ch, NEW par, NEW d
  PROVE  Framed(lv, ch, par, d, Append(s, f)) <=> Framed(lv, ch, par, d, s) /\ FrameOK(lv, ch, par, d, f)
<1> DEFINE t == Append(s, f)
           m == Len(s) + 1
<1>1. Len(s) \in Nat /\ Len(t) = m /\ t[m] = f /\ \A k \in 1 .. Len(s) : t[k] = s[k]
  BY AppendFacts
<1>2. 1 .. m = (1 .. Len(s)) \union {m}
  BY <1>1
<1> HIDE DEF t, m
<1>3. Framed(lv, ch, par, d, t) <=> Framed(lv, ch, par, d, s) /\ FrameOK(lv, ch, par, d, f)
  BY <1>1, <1>2 DEF Framed
<1> QED
  BY <1>3 DEF t

LEMMA AppendNested ==
  ASSUME NEW s \in Seq(Record), NEW f \in Record, NEW par
  PROVE  Nested(par, Append(s, f)) <=> Nested(par, s) /\ \A j \in 1 .. Len(s) : Apart(par, s[j], f)
<1> DEFINE t == Append(s, f)
           m == Len(s) + 1
<1>1. Len(s) \in Nat /\ Len(t) = m /\ t[m] = f /\ \A k \in 1 .. Len(s) : t[k] = s[k]
  BY AppendFacts
<1>2. 1 .. m = (1 .. Len(s)) \union {m}
  BY <1>1
<1>3. \A j \in 1 .. m : (j < m <=> j \in 1 .. Len(s)) /\ ~(m < j)
  BY <1>1
<1> HIDE DEF t, m
<1>4. ASSUME Nested(par, t)
      PROVE  Nested(par, s) /\ \A j \in 1 .. Len(s) : Apart(par, s[j], f)
  BY <1>1, <1>2, <1>3, <1>4 DEF Nested
<1>5. ASSUME Nested(par, s), \A j \in 1 .. Len(s) : Apart(par, s[j], f)
      PROVE  Nested(par, t)
  <2> SUFFICES ASSUME NEW j \in 1 .. m, NEW k \in 1 .. m, j < k
               PROVE  Apart(par, t[j], t[k])
    BY <1>1 DEF Nested
  <2>1. j \in 1 .. Len(s)
    BY <1>1, <1>2, <1>3
  <2>2. CASE k = m
    BY <2>1, <2>2, <1>1, <1>5
  <2>3. CASE k # m
    BY <2>1, <2>3, <1>1, <1>2, <1>5 DEF Nested
  <2> QED
    BY <2>2, <2>3
<1> QED
  BY <1>4, <1>5 DEF t

LEMMA AppendLooped ==
  ASSUME NEW s \in Seq(Record), NEW f \in Record
  PROVE  Looped(Append(s, f)) <=>
           /\ Looped(s)
           /\ f.pc = "loop" => \A j \in 1 .. Len(s) : s[j].pc = "callback"
           /\ s # <<>> /\ s[Len(s)].pc = "loop" => f.pc \in BusyPc
<1> DEFINE t == Append(s, f)
           m == Len(s) + 1
           Above == s # <<>> /\ s[Len(s)].pc = "loop" => f.pc \in BusyPc
           Under == f.pc = "loop" => \A j \in 1 .. Len(s) : s[j].pc = "callback"
<1>1. Len(s) \in Nat /\ Len(t) = m /\ t[m] = f /\ \A k \in 1 .. Len(s) : t[k] = s[k]
  BY AppendFacts
<1>2. m \in 1 .. m /\ 1 .. m - 1 = 1 .. Len(s) /\ ~(m < m)
  BY <1>1
<1>3. \A k \in 1 .. Len(s) : k \in 1 .. m /\ k < m /\ 1 .. k - 1 \subseteq 1 .. Len(s)
  BY <1>1
<1>4. \A k \in 1 .. m : k # m => k \in 1 .. Len(s)
  BY <1>1
<1>5. s # <<>> <=> Len(s) \in 1 .. Len(s)
  BY <1>1
<1>6. \A k \in 1 .. Len(s) : (k < Len(s) => k + 1 \in 1 .. Len(s)) /\ (~(k < Len(s)) => k = Len(s) /\ k + 1 = m)
  BY <1>1
<1> HIDE DEF t, m
<1>7. ASSUME Looped(t)
      PROVE  Looped(s) /\ Under /\ Above
  <2>1. ASSUME NEW k \in 1 .. Len(s), s[k].pc = "loop"
        PROVE  /\ \A j \in 1 .. k - 1 : s[j].pc = "callback"
               /\ t[k + 1].pc \in BusyPc
    BY <2>1, <1>1, <1>3, <1>7 DEF Looped
  <2>2. Looped(s)
    BY <2>1, <1>1, <1>6 DEF Looped
  <2>3. Under
    BY <1>1, <1>2, <1>7 DEF Looped
  <2>4. Above
    BY <2>1, <1>1, <1>5, <1>6
  <2> QED
    BY <2>2, <2>3, <2>4
<1>8. ASSUME Looped(s), Under, Above
      PROVE  Looped(t)
  <2> SUFFICES ASSUME NEW k \in 1 .. m, t[k].pc = "loop"
               PROVE  /\ \A j \in 1 .. k - 1 : t[j].pc = "callback"
                      /\ k < m => t[k + 1].pc \in BusyPc
    BY <1>1 DEF Looped
  <2>1. CASE k = m
    BY <2>1, <1>1, <1>2, <1>8
  <2>2. CASE k # m
    <3>1. k \in 1 .. Len(s) /\ s[k].pc = "loop"
      BY <2>2, <1>1, <1>4
    <3>2. \A j \in 1 .. k - 1 : t[j].pc = "callback"
      BY <3>1, <1>1, <1>3, <1>8 DEF Looped
    <3>3. CASE k < Len(s)
      BY <3>1, <3>2, <3>3, <1>1, <1>6, <1>8 DEF Looped
    <3>4. CASE ~(k < Len(s))
      BY <3>1, <3>2, <3>4, <1>1, <1>5, <1>6, <1>8
    <3> QED
      BY <3>3, <3>4
  <2> QED
    BY <2>1, <2>2
<1> QED
  BY <1>7, <1>8 DEF t
-----------------------------------------------------------------------------
LEMMA ParentIs ==
  ASSUME Typed
  PROVE  parent \in Parents /\ children \in Arrays /\ stack \in Seq(Record)
BY DEF Typed, Parents, Null, Arrays, Record, Pcs

\* The widgets above a widget that exists exist; one that does not is above none.
LEMMA LiveAbove ==
  ASSUME Typed, TreeAgrees, NEW o \in Widgets
  PROVE  /\ UpFrom(parent, o) \subseteq live \union {o}
         /\ o \notin live => parent[o] = NULL /\ UpFrom(parent, o) = {o}
<1>1. Agrees(parent, children, live) /\ parent \in Parents
  BY TreeIs, ParentIs
<1>2. \A x \in Widgets : parent[x] # NULL => x \in live /\ parent[x] \in live
  BY <1>1 DEF Agrees
<1>3. live \union {o} \subseteq Widgets
  BY DEF Typed
<1>4. UpFrom(parent, o) \subseteq live \union {o}
  <2>1. \A x \in live \union {o} : x # NULL /\ parent[x] # NULL => parent[x] \in live \union {o}
    BY <1>2, <1>3
  <2> QED
    BY <2>1, UpLeast
<1>5. ASSUME o \notin live
      PROVE  parent[o] = NULL /\ UpFrom(parent, o) = {o}
  <2>1. parent[o] = NULL
    BY <1>2, <1>5
  <2>2. \A x \in {o} : x # NULL /\ parent[x] # NULL => parent[x] \in {o}
    BY <2>1
  <2>3. UpFrom(parent, o) \subseteq {o}
    BY <2>2, UpLeast
  <2>4. o \in UpFrom(parent, o)
    BY <1>1, UpClosed
  <2> QED
    BY <2>1, <2>3, <2>4
<1> QED
  BY <1>4, <1>5

\* Fl_Widget() keeps the tree as it should be.
LEMMA NewTree ==
  ASSUME Typed, TreeAgrees, Rooted(live, parent), AllSaved(savedfocus, children),
         NEW w \in Widgets, w \notin live, NEW g \in Null(live \intersect Groups),
         NEW pa, pa = [parent EXCEPT ![w] = g],
         NEW ch, ch = [c \in Groups |-> IF c = g THEN Append(children[g], w) ELSE children[c]]
  PROVE  /\ pa \in Parents /\ ch \in Arrays /\ Agrees(pa, ch, live \union {w})
         /\ Rooted(live \union {w}, pa) /\ AllSaved(savedfocus, ch)
         /\ \A o \in Widgets \ {w} : UpFrom(pa, o) \subseteq UpFrom(parent, o)
         /\ \A c \in Groups : c # g => ch[c] = children[c]
<1>1. Agrees(parent, children, live) /\ parent \in Parents /\ children \in Arrays
  BY TreeIs, ParentIs
<1>2. parent[w] = NULL
  BY LiveAbove
<1>3. \A x \in Widgets : pa[x] = IF x = w THEN g ELSE parent[x]
  BY <1>1 DEF Parents
<1>4. pa \in Parents
  BY <1>1 DEF Parents, Null
<1>5. ASSUME NEW c \in Groups
      PROVE  /\ ch[c] \in Seq(Widgets) /\ Distinct(ch[c])
             /\ ToSet(ch[c]) = IF c = g THEN ToSet(children[c]) \union {w} ELSE ToSet(children[c])
             /\ c # g => ch[c] = children[c]
  <2>1. children[c] \in Seq(Widgets) /\ Distinct(children[c])
    BY <1>1, Zenon DEF Agrees, Arrays
  <2>2. CASE c = g
    <3>1. ch[c] = Append(children[c], w)
      BY <2>2
    <3>2. w \notin ToSet(children[c])
      BY <1>1, <1>2, WidgetsAssumption DEF Agrees
    <3>3. ToSet(Append(children[c], w)) = ToSet(children[c]) \union {w}
      BY <2>1, ToSetAppend
    <3>4. Append(children[c], w) \in Seq(Widgets)
      BY <2>1
    <3>5. Distinct(Append(children[c], w))
      <4>1. \A i \in 1 .. Len(children[c]) : children[c][i] # w
        BY <3>2, <2>1 DEF ToSet
      <4> QED
        BY <4>1, <2>1 DEF Distinct
    <3> QED
      BY <2>2, <3>1, <3>3, <3>4, <3>5
  <2>3. CASE c # g
    BY <2>1, <2>3
  <2> QED
    BY <2>2, <2>3
<1>6. ch = [c \in Groups |-> ch[c]]
  OBVIOUS
<1>7. ch \in Arrays
  BY <1>5, <1>6 DEF Arrays
<1>8. Agrees(pa, ch, live \union {w})
  <2>1. ASSUME NEW x \in Widgets, pa[x] # NULL
        PROVE  x \in live \union {w} /\ pa[x] \in live \union {w} /\ x \in ToSet(ch[pa[x]])
    <3>1. pa[x] \in Groups
      BY <2>1, <1>4 DEF Parents, Null
    <3>2. CASE x = w
      BY <3>1, <3>2, <2>1, <1>3, <1>5 DEF Null
    <3>3. CASE x # w
      <4>1. parent[x] # NULL /\ pa[x] = parent[x]
        BY <3>3, <2>1, <1>3
      <4>2. x \in live /\ parent[x] \in live /\ x \in ToSet(children[parent[x]])
        BY <4>1, <1>1 DEF Agrees
      <4> QED
        BY <4>1, <4>2, <3>1, <1>5
    <3> QED
      BY <3>2, <3>3
  <2>2. ASSUME NEW c \in Groups
        PROVE  Distinct(ch[c]) /\ \A x \in ToSet(ch[c]) : pa[x] = c
    <3>1. ASSUME NEW x \in ToSet(ch[c])
          PROVE  pa[x] = c
      <4>1. x \in Widgets
        BY <1>5 DEF ToSet
      <4>2. x \in ToSet(children[c]) \/ (c = g /\ x = w)
        BY <1>5
      <4>3. CASE c = g /\ x = w
        BY <4>3, <1>3
      <4>4. CASE x \in ToSet(children[c])
        <5>1. parent[x] = c
          BY <4>4, <1>1 DEF Agrees
        <5>2. x # w
          BY <5>1, <1>2, WidgetsAssumption
        <5> QED
          BY <5>1, <5>2, <4>1, <1>3
      <4> QED
        BY <4>2, <4>3, <4>4
    <3> QED
      BY <3>1, <1>5
  <2> QED
    BY <2>1, <2>2 DEF Agrees
<1>9. ASSUME NEW o \in Widgets, o # w
      PROVE  w \notin UpFrom(parent, o)
  <2>1. UpFrom(parent, o) \subseteq live \union {o}
    BY LiveAbove
  <2> QED
    BY <2>1, <1>9
<1>10. CASE g = NULL
  <2>1. pa = parent
    BY <1>10, <1>2, <1>1 DEF Parents
  <2>2. \A o \in Widgets \ {w} : UpFrom(pa, o) \subseteq UpFrom(parent, o)
    BY <2>1
  <2>3. Rooted(live \union {w}, pa)
    BY <2>1 DEF Rooted
  <2>4. AllSaved(savedfocus, ch)
    BY <1>5 DEF AllSaved
  <2> QED
    BY <2>2, <2>3, <2>4, <1>4, <1>5, <1>7, <1>8
<1>11. CASE g # NULL
  <2>1. g \in Groups /\ g \in live /\ g \in Widgets /\ g # w
    BY <1>11, WidgetsAssumption DEF Null
  <2>2. w \notin UpFrom(parent, g)
    BY <2>1, <1>9
  <2>3. \A o \in Widgets \ {w} : UpFrom(pa, o) \subseteq UpFrom(parent, o)
    BY <2>1, <2>2, <1>1, <1>9, UpGraft
  <2>4. Acyclic(pa)
    BY <2>1, <2>2, <1>1, GraftAcyclic DEF Rooted
  <2>5. Win \in Widgets /\ Win \in live /\ parent[Win] = NULL
    BY WidgetsAssumption DEF Rooted
  <2>6. Rooted(live \union {w}, pa)
    BY <2>4, <2>5, <1>3 DEF Rooted
  <2>7. AllSaved(savedfocus, ch)
    BY <1>5 DEF AllSaved
  <2> QED
    BY <2>3, <2>6, <2>7, <1>4, <1>5, <1>7, <1>8
<1> QED
  BY <1>10, <1>11

\* insert() keeps the tree as it should be.
InsertedCh(g, w, at) ==
  [c \in Groups |-> IF c = g THEN InsertAt(Outside(g, w), at + 1, w)
                    ELSE IF c = parent[w] THEN Outside(parent[w], w) ELSE children[c]]
InsertedSf(g, w) ==
  [c \in Groups |-> IF c = parent[w] /\ c # g /\ savedfocus[c] = w THEN NULL ELSE savedfocus[c]]
Inserted(pa, ch, sf, g, old) ==
  /\ pa \in Parents /\ ch \in Arrays /\ sf \in [Groups -> Null(Widgets)]
  /\ Agrees(pa, ch, live) /\ Rooted(live, pa) /\ AllSaved(sf, ch)
  /\ \A c \in Groups : c # g \/ old = g => Len(ch[c]) <= Len(children[c])

LEMMA InsertTree ==
  ASSUME Typed, TreeAgrees, Rooted(live, parent), AllSaved(savedfocus, children),
         NEW w \in live \ {Win}, NEW g \in live \intersect Groups, w \notin UpFrom(parent, g),
         NEW at \in 0 .. Len(Outside(g, w))
  PROVE  Inserted([parent EXCEPT ![w] = g], InsertedCh(g, w, at), InsertedSf(g, w), g, parent[w])
<1> DEFINE pa == [parent EXCEPT ![w] = g]
           ch == InsertedCh(g, w, at)
           sf == InsertedSf(g, w)
<1>0. /\ ch = [c \in Groups |->
                  IF c = g THEN InsertAt(Outside(g, w), at + 1, w)
                  ELSE IF c = parent[w] THEN Outside(parent[w], w) ELSE children[c]]
      /\ sf = [c \in Groups |->
                  IF c = parent[w] /\ c # g /\ savedfocus[c] = w THEN NULL ELSE savedfocus[c]]
  BY DEF InsertedCh, InsertedSf
<1> HIDE DEF ch, sf
<1>1. Agrees(parent, children, live) /\ parent \in Parents /\ children \in Arrays
  BY TreeIs, ParentIs
<1>2. w \in Widgets /\ g \in Widgets /\ g # NULL
  BY WidgetsAssumption DEF Typed
<1>3. \A x \in Widgets : pa[x] = IF x = w THEN g ELSE parent[x]
  BY <1>1 DEF Parents
<1>4. pa \in Parents
  BY <1>1 DEF Parents, Null
<1>5. ASSUME NEW c \in Groups
      PROVE  /\ children[c] \in Seq(Widgets) /\ Outside(c, w) \in Seq(Widgets)
             /\ Distinct(children[c]) /\ Distinct(Outside(c, w))
             /\ ToSet(Outside(c, w)) = ToSet(children[c]) \ {w}
             /\ Len(Outside(c, w)) <= Len(children[c])
             /\ c = parent[w] => Len(Outside(c, w)) + 1 = Len(children[c])
             /\ c # parent[w] => w \notin ToSet(children[c])
  <2>1. children[c] \in Seq(Widgets) /\ Distinct(children[c])
    BY <1>1, Zenon DEF Agrees, Arrays
  <2>2. Outside(c, w) = Kept(children[c], Widgets \ {w})
    BY WidgetsAssumption DEF Outside
  <2>3. Len(Outside(c, w)) = IF w \in ToSet(children[c]) THEN Len(children[c]) - 1 ELSE Len(children[c])
    BY <2>1, <2>2, <1>2, WithoutOne
  <2>4. Len(children[c]) \in Nat
    BY <2>1
  <2>5. c # parent[w] => w \notin ToSet(children[c])
    BY <1>1 DEF Agrees
  <2>6. c = parent[w] => w \in ToSet(children[c])
    BY <1>1, <1>2, WidgetsAssumption DEF Agrees
  <2>7. c = parent[w] => Len(Outside(c, w)) + 1 = Len(children[c])
    BY <2>3, <2>4, <2>6
  <2> QED
    BY <2>1, <2>2, <2>3, <2>4, <2>5, <2>7, <1>2, WithoutOne
<1>6. ASSUME NEW c \in Groups
      PROVE  /\ ch[c] \in Seq(Widgets) /\ Distinct(ch[c])
             /\ ToSet(ch[c]) = IF c = g THEN ToSet(children[c]) \union {w} ELSE ToSet(children[c]) \ {w}
             /\ c # g \/ parent[w] = g => Len(ch[c]) <= Len(children[c])
  <2>1. CASE c = g
    <3>1. ch[c] = InsertAt(Outside(g, w), at + 1, w)
      BY <2>1, <1>0
    <3>2. Outside(g, w) \in Seq(Widgets) /\ Distinct(Outside(g, w)) /\ ToSet(Outside(g, w)) = ToSet(children[g]) \ {w}
      BY <1>5
    <3>3. at + 1 \in 1 .. Len(Outside(g, w)) + 1
      BY <3>2
    <3>4. InsertAt(Outside(g, w), at + 1, w) \in Seq(Widgets)
      BY <3>2, <3>3, <1>2, InsertAtFacts
    <3>5. /\ ToSet(InsertAt(Outside(g, w), at + 1, w)) = ToSet(Outside(g, w)) \union {w}
          /\ Distinct(InsertAt(Outside(g, w), at + 1, w))
      BY <3>2, <3>3, <1>2, InsertAtSet
    <3>6. Len(InsertAt(Outside(g, w), at + 1, w)) = Len(Outside(g, w)) + 1
      BY <3>2, <3>3, <1>2, InsertAtFacts
    <3>7. parent[w] = g => Len(ch[c]) <= Len(children[c])
      <4>1. parent[w] = g => Len(Outside(g, w)) + 1 = Len(children[g])
        BY <1>5
      <4>2. Len(children[g]) \in Nat
        BY <1>5
      <4> QED
        BY <4>1, <4>2, <3>1, <3>6, <2>1
    <3> QED
      BY <2>1, <3>1, <3>2, <3>4, <3>5, <3>7
  <2>2. CASE c # g /\ c = parent[w]
    <3>1. ch[c] = Outside(c, w)
      BY <2>2, <1>0
    <3> QED
      BY <2>2, <3>1, <1>5
  <2>3. CASE c # g /\ c # parent[w]
    <3>1. ch[c] = children[c]
      BY <2>3, <1>0
    <3> QED
      BY <2>3, <3>1, <1>5
  <2> QED
    BY <2>1, <2>2, <2>3
<1>7. ch = [c \in Groups |-> ch[c]] /\ sf = [c \in Groups |-> sf[c]]
  BY <1>0
<1>8. ch \in Arrays
  BY <1>6, <1>7 DEF Arrays
<1>9. Agrees(pa, ch, live)
  <2>1. ASSUME NEW x \in Widgets, pa[x] # NULL
        PROVE  x \in live /\ pa[x] \in live /\ x \in ToSet(ch[pa[x]])
    <3>1. pa[x] \in Groups
      BY <2>1, <1>4 DEF Parents, Null
    <3>2. CASE x = w
      BY <3>1, <3>2, <1>3, <1>6
    <3>3. CASE x # w
      <4>1. parent[x] # NULL /\ pa[x] = parent[x]
        BY <3>3, <2>1, <1>3
      <4>2. x \in live /\ parent[x] \in live /\ x \in ToSet(children[parent[x]])
        BY <4>1, <1>1 DEF Agrees
      <4> QED
        BY <4>1, <4>2, <3>1, <3>3, <1>6
    <3> QED
      BY <3>2, <3>3
  <2>2. ASSUME NEW c \in Groups
        PROVE  Distinct(ch[c]) /\ \A x \in ToSet(ch[c]) : pa[x] = c
    <3>1. ASSUME NEW x \in ToSet(ch[c])
          PROVE  pa[x] = c
      <4>1. x \in Widgets
        BY <1>6 DEF ToSet
      <4>2. CASE x = w
        <5>1. ToSet(ch[c]) = IF c = g THEN ToSet(children[c]) \union {w} ELSE ToSet(children[c]) \ {w}
          BY <1>6
        <5>2. c = g
          BY <5>1, <4>2
        <5> QED
          BY <5>2, <4>1, <4>2, <1>3
      <4>3. CASE x # w
        <5>1. x \in ToSet(children[c])
          BY <4>3, <1>6
        <5>2. parent[x] = c
          BY <5>1, <1>1 DEF Agrees
        <5> QED
          BY <5>2, <4>1, <4>3, <1>3
      <4> QED
        BY <4>2, <4>3
    <3> QED
      BY <3>1, <1>6
  <2> QED
    BY <2>1, <2>2 DEF Agrees
<1>10. Rooted(live, pa)
  <2>1. Acyclic(pa)
    BY <1>1, <1>2, GraftAcyclic DEF Rooted
  <2>2. Win \in Widgets
    BY WidgetsAssumption
  <2> QED
    BY <2>1, <2>2, <1>3 DEF Rooted
<1>11. sf \in [Groups -> Null(Widgets)]
  <2>1. \A c \in Groups : savedfocus[c] \in Null(Widgets)
    BY DEF Typed, Null
  <2> QED
    BY <2>1, <1>0 DEF Null
<1>12. AllSaved(sf, ch)
  <2> SUFFICES ASSUME NEW c \in Groups, sf[c] # NULL
               PROVE  sf[c] \in ToSet(ch[c])
    BY DEF AllSaved
  <2>1. sf[c] = savedfocus[c] /\ ~(c = parent[w] /\ c # g /\ savedfocus[c] = w)
    BY <1>0
  <2>2. savedfocus[c] \in ToSet(children[c])
    BY <2>1 DEF AllSaved
  <2> QED
    BY <2>1, <2>2, <1>5, <1>6
<1> QED
  BY <1>4, <1>6, <1>8, <1>9, <1>10, <1>11, <1>12 DEF Inserted, ch, sf

\* The place where insert() puts a widget is one of the array without it.
LEMMA PlaceOf ==
  ASSUME Typed, TreeAgrees, NEW w \in Widgets, NEW g \in Groups, NEW index \in 0 .. Len(children[g]),
         NEW n, n = find(g, w)
  PROVE  (IF parent[w] = g /\ index > n THEN index - 1 ELSE index) \in 0 .. Len(Outside(g, w))
<1> DEFINE s == children[g]
           I == {i \in 1 .. Len(s) : s[i] = w}
<1>1. Agrees(parent, children, live)
  BY TreeIs
<1>2. s \in Seq(Widgets) /\ Distinct(s) /\ (w \in ToSet(s) <=> parent[w] = g)
  <2>1. s \in Seq(Widgets)
    BY DEF Typed
  <2> QED
    BY <2>1, <1>1, WidgetsAssumption DEF Agrees
<1>3. Len(Outside(g, w)) = IF parent[w] = g THEN Len(s) - 1 ELSE Len(s)
  <2>1. Outside(g, w) = Kept(s, Widgets \ {w})
    BY WidgetsAssumption DEF Outside
  <2> HIDE DEF s
  <2> QED
    BY <2>1, <1>2, WithoutOne
<1>4. Len(s) \in Nat
  BY <1>2
<1>5. CASE parent[w] # g
  BY <1>3, <1>4, <1>5
<1>6. CASE parent[w] = g
  <2>1. I # {}
    BY <1>2, <1>6 DEF ToSet
  <2>2. n = Min(I) - 1
    BY <2>1 DEF find, SelectInSeq
  <2>3. I \in SUBSET (1 .. Len(s))
    OBVIOUS
  <2> HIDE DEF I
  <2>4. Min(I) \in I
    BY <2>1, <2>3, <1>4, FirstIndex
  <2>5. n \in 0 .. Len(s) - 1
    <3>1. Min(I) \in 1 .. Len(s)
      BY <2>3, <2>4
    <3>2. \A m \in 1 .. Len(s) : m - 1 \in 0 .. Len(s) - 1
      BY <1>4
    <3> QED
      BY <3>1, <3>2, <2>2, Zenon
  <2>6. CASE index > n
    <3>1. index - 1 \in 0 .. Len(s) - 1
      BY <2>5, <2>6, <1>4
    <3> QED
      BY <3>1, <2>6, <1>3, <1>6
  <2>7. CASE ~(index > n)
    <3>1. index \in 0 .. Len(s) - 1
      BY <2>5, <2>7, <1>4
    <3> QED
      BY <3>1, <2>7, <1>3, <1>6
  <2> QED
    BY <2>6, <2>7
<1> QED
  BY <1>5, <1>6
-----------------------------------------------------------------------------
\* FL_UNFOCUS leaves every group with a child of its own as savedfocus_.
LEMMA UnfocusFacts ==
  ASSUME NEW par \in Parents, NEW ch, NEW lv, Agrees(par, ch, lv),
         NEW sf \in [Groups -> Null(Widgets)], AllSaved(sf, ch), NEW p \in Null(Widgets)
  PROVE  Unfocus(par, sf, p) \in [Groups -> Null(Widgets)] /\ AllSaved(Unfocus(par, sf, p), ch)
<1> DEFINE u == Unfocus(par, sf, p)
           Below(g) == CHOOSE c \in UpFrom(par, p) : par[c] = g
<1>1. u = [g \in Groups |-> u[g]]
  BY DEF Unfocus
<1>2. ASSUME NEW g \in Groups
      PROVE  u[g] \in Null(Widgets) /\ (u[g] # NULL => u[g] \in ToSet(ch[g]))
  <2>1. u[g] = IF p = NULL \/ g \notin UpFrom(par, p) THEN sf[g]
               ELSE IF g = p THEN NULL ELSE Below(g)
    BY DEF Unfocus
  <2> HIDE DEF u
  <2>2. CASE p = NULL \/ g \notin UpFrom(par, p)
    BY <2>1, <2>2 DEF AllSaved
  <2>3. CASE p # NULL /\ g \in UpFrom(par, p) /\ g = p
    BY <2>1, <2>3 DEF Null
  <2>4. CASE p # NULL /\ g \in UpFrom(par, p) /\ g # p
    <3>1. p \in Widgets
      BY <2>4 DEF Null
    <3>2. \E c \in UpFrom(par, p) : par[c] = g
      BY <3>1, <2>4, UpThrough
    <3>3. Below(g) \in UpFrom(par, p) /\ par[Below(g)] = g
      BY <3>2, Zenon
    <3> HIDE DEF Below
    <3>4. Below(g) \in Widgets
      BY <3>1, <3>3, UpClosed
    <3>5. g # NULL
      BY WidgetsAssumption
    <3>6. Below(g) \in ToSet(ch[g])
      BY <3>3, <3>4, <3>5 DEF Agrees
    <3> QED
      BY <2>1, <2>4, <3>4, <3>6 DEF Null
  <2> QED
    BY <2>2, <2>3, <2>4
<1> HIDE DEF u
<1>3. u \in [Groups -> Null(Widgets)]
  BY <1>1, <1>2
<1>4. AllSaved(u, ch)
  BY <1>2 DEF AllSaved
<1> QED
  BY <1>3, <1>4 DEF u

\* fl_throw_focus(w) leaves focus_ and pushed_ on widgets that exist, even if w is
\* the one that does not.
LEMMA ThrowFocusFacts ==
  ASSUME NEW par \in Parents, NEW ch, NEW lv \in SUBSET Widgets, Agrees(par, ch, lv),
         NEW sf \in [Groups -> Null(Widgets)], AllSaved(sf, ch), Win \in lv,
         NEW w \in Widgets, NEW f \in Null(lv \union {w}),
         pushed \in Null(lv \union {w}),
         NEW takers \in SUBSET lv,
         ThrowFocus(w, par, sf, f, takers)
  PROVE  /\ focus' \in Null(lv) /\ pushed' \in Null(lv)
         /\ savedfocus' \in [Groups -> Null(Widgets)] /\ AllSaved(savedfocus', ch)
<1>1. w \in UpFrom(par, w) /\ w # NULL
  BY UpClosed, WidgetsAssumption
<1>2. pushed' \in Null(lv)
  <2>1. CASE pushed = w
    BY <2>1, <1>1 DEF ThrowFocus, Holds, Null
  <2>2. CASE pushed # w
    BY <2>2 DEF ThrowFocus, Holds, Null
  <2> QED
    BY <2>1, <2>2
<1> DEFINE e == IF f # NULL /\ Holds(par, w, f) THEN NULL ELSE f
<1>3. e \in Null(lv) /\ e \in Null(Widgets)
  BY <1>1 DEF Holds, Null
<1>4. FixFocus(par, sf, e, takers)
  BY DEF ThrowFocus
<1> HIDE DEF e
<1>5. CASE focus' = e /\ savedfocus' = sf
  BY <1>2, <1>3, <1>5
<1>6. CASE focus' \in {Win} \union takers /\ savedfocus' = Unfocus(par, sf, e)
  <2>1. savedfocus' \in [Groups -> Null(Widgets)] /\ AllSaved(savedfocus', ch)
    BY <1>3, <1>6, UnfocusFacts
  <2> QED
    BY <2>1, <1>2, <1>6 DEF Null
<1> QED
  BY <1>4, <1>5, <1>6 DEF FixFocus
-----------------------------------------------------------------------------
\* A call that goes on, in a state where its widgets are still there, no array
\* of children it empties has grown, and nothing new is above what it put aside.
LEMMA FrameKeeps ==
  ASSUME NEW lv, NEW ch, NEW par, NEW d, NEW f \in Record, FrameOK(lv, ch, par, d, f),
         NEW lv2, NEW ch2 \in Arrays, NEW par2, NEW d2 \in Nat, d \in Nat, ch \in Arrays,
         f.pc \in BusyPc => f.w \in lv2,
         f.pc = "clear" => f.saved \in Null(lv2),
         f.pc \in ClearPc /\ f.w \in Groups => Len(ch2[f.w]) <= Len(ch[f.w]),
         f.pc = "clear" /\ f.saved # NULL => UpFrom(par2, f.saved) \subseteq UpFrom(par, f.saved),
         f.pc = "loop" => d <= d2
  PROVE  FrameOK(lv2, ch2, par2, d2, f)
<1>1. f.i \in Nat /\ f.pc \in Pcs
  BY DEF Record
<1>2. f.pc \in BusyPc => f.w \in lv2 /\ (f.delete => f.w # Win)
  BY DEF FrameOK
<1>3. f.pc \in {"user", "widget"} => f.delete
  BY Zenon DEF FrameOK
<1>4. ASSUME f.pc = "clear"
      PROVE  /\ f.w \in Groups /\ f.saved \in Null(lv2)
             /\ Len(ch2[f.w]) <= f.i
             /\ f.saved # NULL /\ f.w \in UpFrom(par2, f.saved) => f.w = f.saved
  <2>1. /\ f.w \in Groups /\ Len(ch[f.w]) <= f.i
        /\ f.saved # NULL /\ f.w \in UpFrom(par, f.saved) => f.w = f.saved
    BY <1>4 DEF FrameOK
  <2>1a. f.w \in Groups
    BY <1>4 DEF FrameOK
  <2>2. ch[f.w] \in Seq(Widgets) /\ ch2[f.w] \in Seq(Widgets)
    BY <2>1a DEF Arrays
  <2>3. Len(ch[f.w]) \in Nat /\ Len(ch2[f.w]) \in Nat
    BY <2>2
  <2>4. Len(ch2[f.w]) <= Len(ch[f.w])
    BY <1>4, <2>1a DEF ClearPc
  <2>5. Len(ch2[f.w]) <= f.i
    BY <2>1, <2>1a, <2>3, <2>4, <1>1
  <2> QED
    BY <2>1, <2>1a, <2>5, <1>4
<1>5. ASSUME f.pc = "widget", f.w \in Groups
      PROVE  ch2[f.w] = <<>>
  <2>1. ch[f.w] = <<>>
    BY <1>5 DEF FrameOK
  <2>2. ch2[f.w] \in Seq(Widgets) /\ Len(ch[f.w]) = 0
    BY <1>5, <2>1 DEF Arrays
  <2>3. Len(ch2[f.w]) <= 0
    BY <1>5, <2>1, <2>2 DEF ClearPc
  <2> QED
    BY <2>2, <2>3
<1>6. f.pc = "callback" => f.w \in Widgets
  BY Zenon DEF FrameOK
<1>7. f.pc = "loop" => f.i <= d2
  BY <1>1 DEF FrameOK
<1> QED
  BY <1>2, <1>3, <1>4, <1>5, <1>6, <1>7, Zenon DEF FrameOK

\* Nothing new above the widgets of two calls leaves them apart.
LEMMA ApartKeeps ==
  ASSUME NEW par, NEW par2, NEW f, NEW h, Apart(par, f, h),
         f.pc \in BusyPc => UpFrom(par2, f.w) \subseteq UpFrom(par, f.w),
         f.pc = "clear" /\ f.saved # NULL => UpFrom(par2, f.saved) \subseteq UpFrom(par, f.saved)
  PROVE  Apart(par2, f, h)
BY DEF Apart
-----------------------------------------------------------------------------
\* The sets of the model are those of the invariant.
LEMMA SetsAre ==
  ASSUME IInv
  PROVE  /\ Busy = BusyIn(stack) /\ Dying = DyingIn(stack) /\ Clearing = ClearingIn(stack)
         /\ \A n \in 1 .. Len(dwidgets) : Handled(n) <=> HandledIn(stack, n)
         /\ BusyIn(stack) \subseteq live /\ DyingIn(stack) \subseteq BusyIn(stack)
         /\ \A k \in 1 .. Depth : stack[k].pc \in BusyPc => stack[k].w \in BusyIn(stack)
<1>1. \A k \in 1 .. Len(stack) : stack[k].pc \in BusyPc => stack[k].w \in live /\ stack[k].w \in Widgets
  BY DEF IInv, Calls, Framed, FrameOK, Typed
<1>2. Frames({"user", "clear", "widget"}) = {k \in 1 .. Len(stack) : stack[k].pc \in BusyPc}
  BY DEF Frames, Depth, BusyPc
<1>3. Busy = BusyIn(stack)
  BY <1>1, <1>2, Zenon DEF Busy, Acting, BusyIn
<1>4. Dying = DyingIn(stack)
  BY <1>1, <1>2, Zenon DEF Dying, Acting, DyingIn
<1>5. ASSUME NEW n \in 1 .. Len(dwidgets)
      PROVE  Handled(n) <=> HandledIn(stack, n)
  BY DEF Handled, HandledIn, Frames, Depth
<1>6. BusyIn(stack) \subseteq live /\ DyingIn(stack) \subseteq BusyIn(stack)
  BY <1>1 DEF BusyIn, DyingIn
<1>7. \A k \in 1 .. Depth : stack[k].pc \in BusyPc => stack[k].w \in BusyIn(stack)
  BY <1>1 DEF BusyIn, Depth
<1>8. Clearing = ClearingIn(stack)
  <2>1. Frames({"clear", "widget"}) = {k \in 1 .. Len(stack) : stack[k].pc \in ClearPc}
    BY DEF Frames, Depth, ClearPc
  <2>2. \A k \in 1 .. Len(stack) : stack[k].pc \in ClearPc => stack[k].w \in Widgets
    BY <1>1 DEF ClearPc, BusyPc
  <2> QED
    BY <2>1, <2>2, Zenon DEF Clearing, ClearingIn
<1> QED
  BY <1>3, <1>4, <1>5, <1>6, <1>7, <1>8

LEMMA StackTop ==
  ASSUME Typed, stack # <<>>
  PROVE  /\ Front(stack) \in Seq(Record) /\ Top \in Record /\ stack = Append(Front(stack), Top)
         /\ Depth \in Nat \ {0} /\ Depth \in 1 .. Depth
         /\ Len(Front(stack)) = Depth - 1
         /\ \A k \in 1 .. Depth - 1 : Front(stack)[k] = stack[k]
         /\ \A f \in Record : [stack EXCEPT ![Depth] = f] = Append(Front(stack), f)
<1>1. stack \in Seq(Record)
  BY ParentIs
<1>2. Len(stack) \in Nat \ {0}
  BY <1>1
<1>3. Last(stack) = stack[Len(stack)]
  BY DEF Last
<1>4. Top = Last(stack)
  BY <1>3 DEF Top, Depth
<1>5. \A f \in Record : [stack EXCEPT ![Len(stack)] = f] = Append(Front(stack), f)
  BY <1>1, ReplaceLast
<1>6. /\ Front(stack) \in Seq(Record) /\ Last(stack) \in Record /\ stack = Append(Front(stack), Last(stack))
      /\ Len(Front(stack)) = Len(stack) - 1
      /\ \A k \in 1 .. Len(stack) - 1 : Front(stack)[k] = stack[k]
  BY <1>1, FrontLast
<1> QED
  BY <1>2, <1>4, <1>5, <1>6 DEF Depth

\* What a call more on top needs, and what a call less leaves.
LEMMA CallsAppend ==
  ASSUME NEW lv, NEW ch, NEW par, NEW d, NEW s \in Seq(Record), NEW f \in Record
  PROVE  Calls(lv, ch, par, d, Append(s, f)) <=>
           /\ Calls(lv, ch, par, d, s) /\ FrameOK(lv, ch, par, d, f)
           /\ \A j \in 1 .. Len(s) : Apart(par, s[j], f)
           /\ f.pc = "loop" => \A j \in 1 .. Len(s) : s[j].pc = "callback"
           /\ s # <<>> /\ s[Len(s)].pc = "loop" => f.pc \in BusyPc
<1>1. Framed(lv, ch, par, d, Append(s, f)) <=> Framed(lv, ch, par, d, s) /\ FrameOK(lv, ch, par, d, f)
  BY AppendFramed
<1>2. Nested(par, Append(s, f)) <=> Nested(par, s) /\ \A j \in 1 .. Len(s) : Apart(par, s[j], f)
  BY AppendNested
<1>3. Looped(Append(s, f)) <=>
           /\ Looped(s)
           /\ f.pc = "loop" => \A j \in 1 .. Len(s) : s[j].pc = "callback"
           /\ s # <<>> /\ s[Len(s)].pc = "loop" => f.pc \in BusyPc
  BY AppendLooped
<1> QED
  BY <1>1, <1>2, <1>3, Zenon DEF Calls

\* All calls go on in a state in which the widgets they know are still there, no
\* array that is emptied has grown and nothing new is above what they know.
LEMMA CallsKeep ==
  ASSUME NEW s \in Seq(Record), NEW lv \in SUBSET Widgets, NEW ch \in Arrays, NEW par, NEW d \in Nat,
         Calls(lv, ch, par, d, s),
         NEW lv2, NEW ch2 \in Arrays, NEW par2, NEW d2 \in Nat, d <= d2,
         \A k \in 1 .. Len(s) : s[k].pc \in BusyPc => s[k].w \in lv2,
         \A k \in 1 .. Len(s) : s[k].pc = "clear" => s[k].saved \in Null(lv2),
         \A g \in Groups \intersect ClearingIn(s) : Len(ch2[g]) <= Len(ch[g]),
         \A o \in Widgets : UpFrom(par2, o) \subseteq UpFrom(par, o)
  PROVE  Calls(lv2, ch2, par2, d2, s)
<1>1. ASSUME NEW k \in 1 .. Len(s)
      PROVE  FrameOK(lv2, ch2, par2, d2, s[k])
  <2>1. s[k] \in Record /\ FrameOK(lv, ch, par, d, s[k])
    BY DEF Calls, Framed
  <2>2. s[k].pc \in ClearPc /\ s[k].w \in Groups => Len(ch2[s[k].w]) <= Len(ch[s[k].w])
    <3>1. s[k].w \in Groups => s[k].w \in Widgets
      BY WidgetsAssumption
    <3>2. s[k].pc \in ClearPc /\ s[k].w \in Groups => s[k].w \in ClearingIn(s)
      BY <3>1 DEF ClearingIn
    <3> QED
      BY <3>2
  <2>3. s[k].saved # NULL => s[k].saved \in Widgets
    BY <2>1 DEF Record, Null
  <2> QED
    BY <2>1, <2>2, <2>3, FrameKeeps
<1>2. ASSUME NEW j \in 1 .. Len(s), NEW k \in 1 .. Len(s), j < k
      PROVE  Apart(par2, s[j], s[k])
  <2>1. Apart(par, s[j], s[k])
    BY <1>2 DEF Calls, Nested
  <2>2. s[j] \in Record /\ FrameOK(lv, ch, par, d, s[j])
    BY DEF Calls, Framed
  <2>3. s[j].pc \in BusyPc => s[j].w \in Widgets
    BY <2>2 DEF FrameOK
  <2>4. s[j].saved # NULL => s[j].saved \in Widgets
    BY <2>2 DEF Record, Null
  <2> QED
    BY <2>1, <2>3, <2>4, ApartKeeps
<1> QED
  BY <1>1, <1>2 DEF Calls, Framed, Nested

\* The lists when the same widgets are being deleted and the loop has come as far.
LEMMA ListsKeep ==
  ASSUME NEW dw \in Seq(Widgets), NEW lv, NEW par, NEW wt, NEW s, Lists(lv, par, dw, wt, s),
         NEW lv2, NEW par2, NEW s2,
         DyingIn(s2) = DyingIn(s), BusyIn(s2) \subseteq BusyIn(s),
         \A n \in 1 .. Len(dw) : HandledIn(s2, n) <=> HandledIn(s, n),
         \A x \in ToSet(dw) : x \in lv2 <=> x \in lv,
         \A x \in ToSet(dw) : UpFrom(par2, x) \subseteq UpFrom(par, x)
  PROVE  Lists(lv2, par2, dw, wt, s2)
<1>1. \A n \in 1 .. Len(dw) : dw[n] \in ToSet(dw)
  BY DEF ToSet
<1>2. Awaited(lv2, dw, s2)
  BY <1>1 DEF Lists, Awaited
<1>3. Promised(lv2, dw, wt)
  BY DEF Lists, Promised
<1>4. Single(par2, ToSet(dw), BusyIn(s2))
  BY DEF Lists, Single
<1> QED
  BY <1>2, <1>3, <1>4, Zenon DEF Lists

\* A call is made, and changes nothing yet but pointers: f is apart from the calls
\* under way, and its widget is not one that the loop is about to delete.
LEMMA PushKeeps ==
  ASSUME IInv, Typed', Tree', NEW f \in Record, stack' = Append(stack, f),
         UNCHANGED <<live, parent, children, dwidgets, wanted>>,
         FrameOK(live, children, parent, Len(dwidgets), f),
         \A j \in 1 .. Depth : Apart(parent, stack[j], f),
         f.pc = "loop" => f.i = 0 /\ \A j \in 1 .. Depth : stack[j].pc = "callback",
         stack # <<>> /\ Top.pc = "loop" => f.pc \in BusyPc,
         f.pc \in BusyPc => \A x \in Scheduled : f.w \in UpFrom(parent, x) => f.w = x,
         f.pc \in BusyPc /\ f.delete => f.w \notin Scheduled
  PROVE  IInv'
<1>1. stack \in Seq(Record) /\ dwidgets \in Seq(Widgets)
  BY ParentIs DEF IInv, Typed
<1>2. Calls(live, children, parent, Len(dwidgets), stack')
  BY <1>1, CallsAppend DEF IInv, Depth, Top
<1>3. /\ BusyIn(stack') = BusyIn(stack) \union (IF f.pc \in BusyPc THEN {f.w} \intersect Widgets ELSE {})
      /\ DyingIn(stack') = DyingIn(stack) \union
           (IF f.pc \in BusyPc /\ f.delete THEN {f.w} \intersect Widgets ELSE {})
      /\ \A n \in Nat : HandledIn(stack', n) <=> HandledIn(stack, n) \/ (f.pc = "loop" /\ n <= f.i)
  BY <1>1, AppendSets
<1>4. \A n \in 1 .. Len(dwidgets) : n \in Nat /\ n # 0 /\ dwidgets[n] \in Scheduled
  BY <1>1 DEF Scheduled, ToSet
<1>5. \A n \in 1 .. Len(dwidgets) : HandledIn(stack', n) <=> HandledIn(stack, n)
  BY <1>3, <1>4
<1>6. DyingIn(stack) \subseteq DyingIn(stack')
  BY <1>3
<1>7. Awaited(live, dwidgets, stack')
  <2> SUFFICES ASSUME NEW n \in 1 .. Len(dwidgets)
               PROVE  IF HandledIn(stack', n) THEN dwidgets[n] \in live => dwidgets[n] \in DyingIn(stack')
                      ELSE dwidgets[n] \in live /\ dwidgets[n] \notin DyingIn(stack')
    BY DEF Awaited
  <2>1. IF HandledIn(stack, n) THEN dwidgets[n] \in live => dwidgets[n] \in DyingIn(stack)
        ELSE dwidgets[n] \in live /\ dwidgets[n] \notin DyingIn(stack)
    BY DEF IInv, Lists, Awaited
  <2>2. dwidgets[n] \in DyingIn(stack') => dwidgets[n] \in DyingIn(stack)
    BY <1>3, <1>4
  <2> QED
    BY <2>1, <2>2, <1>5, <1>6
<1>8. Promised(live, dwidgets, wanted)
  BY DEF IInv, Lists
<1>9. Single(parent, Scheduled, BusyIn(stack'))
  <2> SUFFICES ASSUME NEW x \in Scheduled, NEW y \in UpFrom(parent, x),
                      y \in Scheduled \/ y \in BusyIn(stack')
               PROVE  y = x
    BY DEF Single
  <2>1. y \in Scheduled \/ y \in BusyIn(stack) => y = x
    BY DEF IInv, Lists, Single, Scheduled
  <2>2. y \in BusyIn(stack') => y \in BusyIn(stack) \/ (f.pc \in BusyPc /\ y = f.w)
    BY <1>3
  <2> QED
    BY <2>1, <2>2
<1>10. Lists(live, parent, dwidgets, wanted, stack')
  BY <1>7, <1>8, <1>9, Zenon DEF IInv, Lists, Scheduled
<1> QED
  BY <1>2, <1>10 DEF IInv

\* The innermost call goes on with the same widget.
LEMMA TopKeeps ==
  ASSUME IInv, Typed', Tree', stack # <<>>, NEW f \in Record, stack' = Append(Front(stack), f),
         UNCHANGED <<live, parent, children, dwidgets, wanted>>,
         FrameOK(live, children, parent, Len(dwidgets), f),
         Top.pc \in BusyPc, f.pc \in BusyPc, f.w = Top.w, f.delete = Top.delete
  PROVE  IInv'
<1> DEFINE s == Front(stack)
<1>1. s \in Seq(Record) /\ Top \in Record /\ stack = Append(s, Top) /\ dwidgets \in Seq(Widgets)
  BY StackTop DEF IInv, Typed
<1>2. stack' = Append(s, f)
  OBVIOUS
<1> HIDE DEF s
<1>3. /\ Calls(live, children, parent, Len(dwidgets), s)
      /\ \A j \in 1 .. Len(s) : Apart(parent, s[j], Top)
  BY <1>1, CallsAppend DEF IInv
<1>4. \A j \in 1 .. Len(s) : Apart(parent, s[j], f)
  BY <1>3 DEF Apart
<1>5. f.pc # "loop"
  BY DEF BusyPc
<1>6. Calls(live, children, parent, Len(dwidgets), stack')
  <2>1. Calls(live, children, parent, Len(dwidgets), Append(s, f))
    BY <1>1, <1>3, <1>4, <1>5, CallsAppend, Zenon
  <2> QED
    BY <2>1, <1>2, Zenon
<1>7. Top.pc # "loop"
  BY DEF BusyPc
<1>8. /\ BusyIn(stack') = BusyIn(stack) /\ DyingIn(stack') = DyingIn(stack)
      /\ \A n \in Nat : HandledIn(stack', n) <=> HandledIn(stack, n)
  <2>1. /\ BusyIn(stack) = BusyIn(s) \union ({Top.w} \intersect Widgets)
        /\ DyingIn(stack) = DyingIn(s) \union (IF Top.delete THEN {Top.w} \intersect Widgets ELSE {})
        /\ \A n \in Nat : HandledIn(stack, n) <=> HandledIn(s, n)
    BY <1>1, <1>7, AppendSets
  <2>2. /\ BusyIn(Append(s, f)) = BusyIn(s) \union ({f.w} \intersect Widgets)
        /\ DyingIn(Append(s, f)) = DyingIn(s) \union (IF f.delete THEN {f.w} \intersect Widgets ELSE {})
        /\ \A n \in Nat : HandledIn(Append(s, f), n) <=> HandledIn(s, n)
    BY <1>1, <1>5, AppendSets
  <2>3. /\ BusyIn(Append(s, f)) = BusyIn(stack) /\ DyingIn(Append(s, f)) = DyingIn(stack)
        /\ \A n \in Nat : HandledIn(Append(s, f), n) <=> HandledIn(stack, n)
    BY <2>1, <2>2
  <2> QED
    BY <2>3, <1>2, Zenon
<1>9. \A n \in 1 .. Len(dwidgets) : HandledIn(stack', n) <=> HandledIn(stack, n)
  BY <1>8
<1>10. Lists(live, parent, dwidgets, wanted, stack')
  BY <1>1, <1>8, <1>9, ListsKeep DEF IInv
<1> QED
  BY <1>6, <1>10 DEF IInv

\* A call that deletes nothing is over.
LEMMA PopKeeps ==
  ASSUME IInv, Typed', Tree', stack # <<>>, stack' = Front(stack),
         UNCHANGED <<live, parent, children, dwidgets, wanted>>,
         Top.pc # "loop", ~(Top.pc \in BusyPc /\ Top.delete)
  PROVE  IInv'
<1> DEFINE s == Front(stack)
<1>1. s \in Seq(Record) /\ Top \in Record /\ stack = Append(s, Top) /\ dwidgets \in Seq(Widgets)
  BY StackTop DEF IInv, Typed
<1>2. stack' = s
  OBVIOUS
<1> HIDE DEF s
<1>3. Calls(live, children, parent, Len(dwidgets), s)
  BY <1>1, CallsAppend DEF IInv
<1>4. /\ BusyIn(s) \subseteq BusyIn(stack) /\ DyingIn(s) = DyingIn(stack)
      /\ \A n \in Nat : HandledIn(s, n) <=> HandledIn(stack, n)
  <2>1. /\ BusyIn(stack) = BusyIn(s) \union (IF Top.pc \in BusyPc THEN {Top.w} \intersect Widgets ELSE {})
        /\ DyingIn(stack) = DyingIn(s) \union
             (IF Top.pc \in BusyPc /\ Top.delete THEN {Top.w} \intersect Widgets ELSE {})
        /\ \A n \in Nat : HandledIn(stack, n) <=> HandledIn(s, n) \/ (Top.pc = "loop" /\ n <= Top.i)
    BY <1>1, AppendSets
  <2> QED
    BY <2>1
<1>5. \A n \in 1 .. Len(dwidgets) : HandledIn(s, n) <=> HandledIn(stack, n)
  BY <1>4
<1>6. Lists(live, parent, dwidgets, wanted, s)
  BY <1>1, <1>4, <1>5, ListsKeep DEF IInv
<1> QED
  BY <1>2, <1>3, <1>6 DEF IInv
-----------------------------------------------------------------------------
LEMMA FocusKeeps ==
  ASSUME IInv, NEW w \in Widgets, Focus(w)
  PROVE  IInv'
<1>1. Typed /\ TreeAgrees /\ Rooted(live, parent) /\ Pointers
  BY DEF IInv, Tree
<1>2. Agrees(parent, children, live) /\ parent \in Parents
  BY <1>1, TreeIs, ParentIs
<1>3. savedfocus \in [Groups -> Null(Widgets)] /\ focus \in Null(Widgets)
  BY <1>1 DEF Typed, Null
<1>4. savedfocus' \in [Groups -> Null(Widgets)] /\ AllSaved(savedfocus', children)
  BY <1>1, <1>2, <1>3, UnfocusFacts DEF Focus, Pointers
<1>5. UNCHANGED <<live, parent, children, pushed, dwidgets, wanted, stack>> /\ focus' \in live
  BY DEF Focus
<1>6. Typed'
  BY <1>1, <1>4, <1>5 DEF Typed, Null
<1>7. Pointers'
  BY <1>1, <1>4, <1>5 DEF Pointers, Null
<1>8. TreeAgrees' /\ Rooted(live, parent)'
  BY <1>1, <1>5 DEF TreeAgrees
<1> QED
  BY <1>5, <1>6, <1>7, <1>8 DEF IInv, Tree

LEMMA SetPushedKeeps ==
  ASSUME IInv, NEW w \in Null(Widgets), SetPushed(w)
  PROVE  IInv'
<1>1. Typed /\ TreeAgrees /\ Rooted(live, parent) /\ Pointers
  BY DEF IInv, Tree
<1>2. UNCHANGED <<live, parent, children, savedfocus, focus, dwidgets, wanted, stack>> /\ pushed' \in Null(live)
  BY DEF SetPushed, tree, Null
<1>3. Typed'
  BY <1>1, <1>2 DEF Typed, Null
<1>4. Pointers'
  BY <1>1, <1>2 DEF Pointers, Null
<1>5. TreeAgrees' /\ Rooted(live, parent)'
  BY <1>1, <1>2 DEF TreeAgrees
<1> QED
  BY <1>2, <1>3, <1>4, <1>5 DEF IInv, Tree

\* What a call knows of its widgets.
LEMMA FrameKnows ==
  ASSUME IInv, NEW k \in 1 .. Len(stack)
  PROVE  /\ stack[k] \in Record /\ FrameOK(live, children, parent, Len(dwidgets), stack[k])
         /\ stack[k].pc \in BusyPc => stack[k].w \in live
         /\ stack[k].pc = "clear" => stack[k].saved \in Null(live)
<1>1. stack \in Seq(Record)
  BY ParentIs DEF IInv
<1> QED
  BY <1>1 DEF IInv, Calls, Framed, FrameOK

\* The calls under way when the tree changes around them, but not above a widget
\* that is put aside: the others must be shown to be apart still.
LEMMA TreeMoves ==
  ASSUME IInv, Typed', Tree', UNCHANGED <<stack, dwidgets, wanted>>, live \subseteq live',
         \A x \in Scheduled : x \in live' => x \in live,
         \A g \in Groups \intersect ClearingIn(stack) : Len(children'[g]) <= Len(children[g]),
         \A k \in 1 .. Len(stack) : stack[k].pc = "clear" /\ stack[k].saved # NULL =>
           UpFrom(parent', stack[k].saved) \subseteq UpFrom(parent, stack[k].saved),
         Nested(parent', stack), Single(parent', Scheduled, BusyIn(stack))
  PROVE  IInv'
<1>1. stack \in Seq(Record) /\ dwidgets \in Seq(Widgets) /\ live \in SUBSET Widgets /\ children \in Arrays
  BY ParentIs DEF IInv, Typed
<1>2. children' \in Arrays /\ Len(dwidgets) \in Nat
  BY <1>1 DEF Typed, Arrays
<1>4. ASSUME NEW k \in 1 .. Len(stack)
      PROVE  FrameOK(live', children', parent', Len(dwidgets), stack[k])
  <2>1. stack[k].pc \in BusyPc => stack[k].w \in live'
    BY FrameKnows
  <2>2. stack[k].pc = "clear" => stack[k].saved \in Null(live')
    BY FrameKnows DEF Null
  <2>3. stack[k] \in Record /\ FrameOK(live, children, parent, Len(dwidgets), stack[k])
    BY FrameKnows
  <2>4. stack[k].pc \in ClearPc /\ stack[k].w \in Groups
          => Len(children'[stack[k].w]) <= Len(children[stack[k].w])
    <3>1. stack[k].pc \in ClearPc /\ stack[k].w \in Groups => stack[k].w \in ClearingIn(stack)
      BY WidgetsAssumption DEF ClearingIn
    <3> QED
      BY <3>1
  <2>5. Len(dwidgets) <= Len(dwidgets)
    BY <1>2
  <2> QED
    BY <2>1, <2>2, <2>3, <2>4, <2>5, <1>1, <1>2, FrameKeeps
<1>6. Calls(live', children', parent', Len(dwidgets), stack)
  BY <1>4 DEF IInv, Calls, Framed
<1>7. Lists(live', parent', dwidgets, wanted, stack)
  <2>1. \A n \in 1 .. Len(dwidgets) : dwidgets[n] \in live' <=> dwidgets[n] \in live
    BY <1>1 DEF Scheduled, ToSet
  <2>2. Awaited(live', dwidgets, stack)
    BY <2>1 DEF IInv, Lists, Awaited
  <2>3. Promised(live', dwidgets, wanted)
    BY DEF IInv, Lists, Promised
  <2> QED
    BY <2>2, <2>3, Zenon DEF IInv, Lists, Scheduled
<1> QED
  BY <1>6, <1>7 DEF IInv

\* The same when nothing is new above any widget.
LEMMA TreeChanges ==
  ASSUME IInv, Typed', Tree', UNCHANGED <<stack, dwidgets, wanted>>, live \subseteq live',
         \A x \in Scheduled : x \in live' => x \in live,
         \A g \in Groups \intersect ClearingIn(stack) : Len(children'[g]) <= Len(children[g]),
         \A o \in live \union Scheduled : UpFrom(parent', o) \subseteq UpFrom(parent, o)
  PROVE  IInv'
<1>1. ASSUME NEW j \in 1 .. Len(stack), NEW k \in 1 .. Len(stack), j < k
      PROVE  Apart(parent', stack[j], stack[k])
  <2>1. Apart(parent, stack[j], stack[k])
    BY <1>1 DEF IInv, Calls, Nested
  <2>2. stack[j].pc \in BusyPc => UpFrom(parent', stack[j].w) \subseteq UpFrom(parent, stack[j].w)
    BY FrameKnows
  <2>3. stack[j].pc = "clear" /\ stack[j].saved # NULL =>
          UpFrom(parent', stack[j].saved) \subseteq UpFrom(parent, stack[j].saved)
    BY FrameKnows DEF Null
  <2> QED
    BY <2>1, <2>2, <2>3, ApartKeeps
<1>2. Nested(parent', stack)
  BY <1>1 DEF Nested
<1>3. Single(parent', Scheduled, BusyIn(stack))
  BY DEF IInv, Lists, Single, Scheduled
<1>4. \A k \in 1 .. Len(stack) : stack[k].pc = "clear" /\ stack[k].saved # NULL =>
         UpFrom(parent', stack[k].saved) \subseteq UpFrom(parent, stack[k].saved)
  BY FrameKnows DEF Null
<1> QED
  BY <1>2, <1>3, <1>4, TreeMoves

LEMMA RemoveChildKeeps ==
  ASSUME IInv, NEW w \in Widgets, RemoveChild(w)
  PROVE  IInv'
<1>1. Typed /\ TreeAgrees /\ Rooted(live, parent) /\ Pointers /\ parent \in Parents
  BY ParentIs DEF IInv, Tree
<1>2. /\ UNCHANGED <<live, focus, pushed, dwidgets, wanted, stack>>
      /\ parent' = Orphaned(w).pa /\ children' = Orphaned(w).ch /\ savedfocus' = Orphaned(w).sf
  BY DEF RemoveChild
<1> DEFINE o == Orphaned(w)
<1>3. /\ o.pa = [parent EXCEPT ![w] = NULL] /\ o.pa \in Parents
      /\ o.ch \in Arrays /\ o.sf \in [Groups -> Null(Widgets)]
      /\ Agrees(o.pa, o.ch, live) /\ AllSaved(o.sf, o.ch)
  BY <1>1, OrphanedFacts DEF Pointers
<1>4. \A g \in Groups : Len(o.ch[g]) = IF g = parent[w] THEN Len(children[g]) - 1 ELSE Len(children[g])
  BY <1>1, OrphanedFacts
<1> HIDE DEF o
<1>5. parent' = o.pa /\ children' = o.ch /\ savedfocus' = o.sf
  BY <1>2 DEF o
<1>6. Typed'
  BY <1>1, <1>2, <1>3, <1>5 DEF Typed, Parents, Arrays, Null
<1>7. TreeAgrees'
  BY <1>2, <1>3, <1>5, <1>6, TreeIsNext
<1>8. Rooted(live, parent)'
  <2>1. Acyclic(o.pa)
    BY <1>1, <1>3, CutAcyclic DEF Rooted
  <2>2. o.pa[Win] = NULL
    BY <1>1, <1>3, WidgetsAssumption DEF Rooted, Parents
  <2> QED
    BY <2>1, <2>2, <1>1, <1>2, <1>5 DEF Rooted
<1>9. Pointers'
  BY <1>1, <1>2, <1>3, <1>5 DEF Pointers
<1>10. \A x \in Widgets : UpFrom(parent', x) \subseteq UpFrom(parent, x)
  BY <1>1, <1>3, <1>5, UpCut
<1>11. live \union Scheduled \subseteq Widgets
  BY <1>1 DEF Typed, Scheduled, ToSet
<1>12. \A g \in Groups : Len(children'[g]) <= Len(children[g])
  <2>1. \A g \in Groups : Len(children[g]) \in Nat
    BY <1>1 DEF Typed
  <2> QED
    BY <2>1, <1>4, <1>5
<1> QED
  BY <1>2, <1>6, <1>7, <1>8, <1>9, <1>10, <1>11, <1>12, TreeChanges DEF Tree

LEMMA NewKeeps ==
  ASSUME IInv, ~Adding, NEW w \in Widgets, NEW g \in Null(Groups), New(w, g)
  PROVE  IInv'
<1>1. Typed /\ TreeAgrees /\ Rooted(live, parent) /\ Pointers /\ AllSaved(savedfocus, children)
  BY DEF IInv, Tree, Pointers
<1>2. /\ UNCHANGED <<savedfocus, focus, pushed, dwidgets, wanted, stack>>
      /\ w \notin live /\ w \notin Scheduled /\ g \in Null(live \intersect Groups) /\ g \notin Clearing
      /\ live' = live \union {w} /\ parent' = [parent EXCEPT ![w] = g]
      /\ children' = [c \in Groups |-> IF c = g THEN Append(children[g], w) ELSE children[c]]
  BY DEF New, Null
<1>3. /\ parent' \in Parents /\ children' \in Arrays /\ Agrees(parent', children', live \union {w})
      /\ Rooted(live \union {w}, parent') /\ AllSaved(savedfocus, children')
      /\ \A o \in Widgets \ {w} : UpFrom(parent', o) \subseteq UpFrom(parent, o)
      /\ \A c \in Groups : c # g => children'[c] = children[c]
  BY <1>1, <1>2, NewTree, ZenonT(60)
<1>4. Typed'
  BY <1>1, <1>2, <1>3 DEF Typed, Parents, Arrays, Null
<1>5. Tree'
  <2>1. TreeAgrees'
    BY <1>2, <1>3, <1>4, TreeIsNext
  <2>2. Pointers'
    BY <1>1, <1>2, <1>3 DEF Pointers, Null
  <2> QED
    BY <2>1, <2>2, <1>2, <1>3 DEF Tree
<1>6. live \union Scheduled \subseteq Widgets \ {w}
  BY <1>1, <1>2 DEF Typed, Scheduled, ToSet
<1>7. \A c \in Groups \intersect ClearingIn(stack) : Len(children'[c]) <= Len(children[c])
  <2>1. \A c \in Groups : Len(children[c]) \in Nat
    BY <1>1 DEF Typed
  <2>2. g \notin ClearingIn(stack)
    BY <1>2, SetsAre
  <2> QED
    BY <2>1, <2>2, <1>3
<1>8. live \subseteq live' /\ \A x \in Scheduled : x \in live' => x \in live
  BY <1>2
<1> QED
  BY <1>2, <1>3, <1>4, <1>5, <1>6, <1>7, <1>8, TreeChanges

LEMMA InsertKeeps ==
  ASSUME IInv, ~Adding, NEW w \in Widgets, NEW g \in Groups, Insert(g, w)
  PROVE  IInv'
<1>1. Typed /\ TreeAgrees /\ Rooted(live, parent) /\ Pointers /\ AllSaved(savedfocus, children)
  BY DEF IInv, Tree, Pointers
<1> DEFINE At(index) == IF parent[w] = g /\ index > find(g, w) THEN index - 1 ELSE index
<1>0. PICK index \in 0 .. Len(children[g]) :
        children' = InsertedCh(g, w, At(index)) /\ savedfocus' = InsertedSf(g, w)
  BY Zenon DEF Insert, InsertedCh, InsertedSf
<1> DEFINE at == At(index)
<1>2. /\ UNCHANGED <<live, focus, pushed, dwidgets, wanted, stack>>
      /\ w \in live \ {Win} /\ g \in live \intersect Groups
      /\ g \in Clearing => parent[w] = g
      /\ w \notin UpFrom(parent, g) /\ Within(w) \intersect Saved = {}
      /\ UpFrom(parent, g) \intersect Busy # {} => Within(w) \intersect Busy = {}
      /\ OnlyTheGroup([parent EXCEPT ![w] = g], Scheduled)
      /\ parent' = [parent EXCEPT ![w] = g]
  BY DEF Insert, Holds
<1>3. children' = InsertedCh(g, w, at) /\ savedfocus' = InsertedSf(g, w)
  BY <1>0
<1>4. at \in 0 .. Len(Outside(g, w))
  BY <1>1, PlaceOf
<1> HIDE DEF at
<1>5. /\ parent' \in Parents /\ children' \in Arrays /\ savedfocus' \in [Groups -> Null(Widgets)]
      /\ Agrees(parent', children', live) /\ Rooted(live, parent') /\ AllSaved(savedfocus', children')
      /\ \A c \in Groups : c # g \/ parent[w] = g => Len(children'[c]) <= Len(children[c])
  <2>1. Inserted([parent EXCEPT ![w] = g], InsertedCh(g, w, at), InsertedSf(g, w), g, parent[w])
    BY <1>1, <1>2, <1>4, InsertTree
  <2>2. Inserted(parent', children', savedfocus', g, parent[w])
    BY <2>1, <1>2, <1>3, Zenon
  <2> QED
    BY <2>2 DEF Inserted
<1>6. Typed'
  BY <1>1, <1>2, <1>5 DEF Typed, Parents, Arrays, Null
<1>7. Tree'
  <2>1. TreeAgrees'
    BY <1>2, <1>5, <1>6, TreeIsNext
  <2>2. Pointers'
    BY <1>1, <1>2, <1>5 DEF Pointers, Null
  <2> QED
    BY <2>1, <2>2, <1>2, <1>5 DEF Tree
<1>8. \A c \in Groups \intersect ClearingIn(stack) : Len(children'[c]) <= Len(children[c])
  BY <1>2, <1>5, SetsAre
<1>9. ASSUME NEW o \in Widgets
      PROVE  /\ UpFrom(parent', o) \subseteq UpFrom(parent, o) \union UpFrom(parent, g)
             /\ w \notin UpFrom(parent, o) => UpFrom(parent', o) \subseteq UpFrom(parent, o)
  BY <1>1, <1>2, ParentIs, UpGraft
<1>10. ASSUME NEW k \in 1 .. Len(stack), stack[k].pc = "clear", stack[k].saved # NULL
       PROVE  UpFrom(parent', stack[k].saved) \subseteq UpFrom(parent, stack[k].saved)
  <2>1. stack[k].saved \in live
    BY <1>10, FrameKnows DEF Null
  <2>2. stack[k].saved \in Saved
    BY <1>10 DEF Saved, Frames, Depth
  <2>3. w \notin UpFrom(parent, stack[k].saved)
    BY <2>1, <2>2, <1>2 DEF Within, Holds
  <2> QED
    BY <2>1, <2>3, <1>1, <1>9 DEF Typed
<1>11. Nested(parent', stack)
  <2> SUFFICES ASSUME NEW j \in 1 .. Len(stack), NEW k \in 1 .. Len(stack), j < k
               PROVE  Apart(parent', stack[j], stack[k])
    BY DEF Nested
  <2>1. Apart(parent, stack[j], stack[k])
    BY DEF IInv, Calls, Nested
  <2>2. ASSUME stack[k].pc \in BusyPc, stack[j].pc \in BusyPc
        PROVE  stack[k].w \notin UpFrom(parent', stack[j].w)
    <3>1. stack[k].w \notin UpFrom(parent, stack[j].w)
      BY <2>1, <2>2 DEF Apart
    <3>2. stack[j].w \in live /\ stack[j].w \in Widgets
      BY <2>2, <1>1, FrameKnows DEF Typed
    <3>3. stack[j].w \in Busy /\ stack[k].w \in Busy
      BY <2>2, SetsAre DEF Depth
    <3>4. CASE w \in UpFrom(parent, stack[j].w)
      <4>1. stack[j].w \in Within(w)
        BY <3>2, <3>4 DEF Within, Holds
      <4>2. UpFrom(parent, g) \intersect Busy = {}
        BY <4>1, <3>3, <1>2
      <4> QED
        BY <4>2, <3>1, <3>2, <3>3, <1>9
    <3>5. CASE w \notin UpFrom(parent, stack[j].w)
      BY <3>1, <3>2, <3>5, <1>9
    <3> QED
      BY <3>4, <3>5
  <2>3. stack[j].pc = "clear" /\ stack[j].saved # NULL =>
          UpFrom(parent', stack[j].saved) \subseteq UpFrom(parent, stack[j].saved)
    BY <1>10
  <2> QED
    BY <2>1, <2>2, <2>3 DEF Apart
<1>12. Single(parent', Scheduled, BusyIn(stack))
  BY <1>2, SetsAre, Zenon DEF OnlyTheGroup, Single
<1> QED
  BY <1>2, <1>6, <1>7, <1>8, <1>10, <1>11, <1>12, TreeMoves

LEMMA delete_widgetKeeps ==
  ASSUME IInv, NEW w \in Widgets, delete_widget(w)
  PROVE  IInv'
<1>1. Typed /\ TreeAgrees /\ Rooted(live, parent) /\ Pointers /\ AllSaved(savedfocus, children)
  BY DEF IInv, Tree, Pointers
<1>2. /\ UNCHANGED <<live, parent, children, stack>> /\ w \in live /\ w # Win /\ w \notin BusyIn(stack)
      /\ OnlyTheGroup(parent, Scheduled \union {w})
      /\ wanted' = wanted \union {w}
      /\ dwidgets' = IF w \in Scheduled THEN dwidgets ELSE Append(dwidgets, w)
  BY SetsAre DEF delete_widget
<1>3. /\ parent \in Parents /\ children \in Arrays /\ stack \in Seq(Record)
      /\ dwidgets \in Seq(Widgets) /\ live \in SUBSET Widgets /\ Win \in live
      /\ focus \in Null(live) /\ pushed \in Null(live) /\ savedfocus \in [Groups -> Null(Widgets)]
      /\ Agrees(parent, children, live) /\ focus \in Null(Widgets)
  BY <1>1, ParentIs, TreeIs DEF Typed, Rooted, Pointers, Null
<1>4. /\ focus' \in Null(live) /\ pushed' \in Null(live)
      /\ savedfocus' \in [Groups -> Null(Widgets)] /\ AllSaved(savedfocus', children)
  <2> DEFINE inside == focus # NULL /\ focus # w /\ Holds(parent, w, focus)
             sf == IF inside THEN Unfocus(parent, savedfocus, focus) ELSE savedfocus
             f == IF inside THEN NULL ELSE focus
             takers == Takers(parent, live, Scheduled \union {w})
  <2>1. CASE UpFrom(parent, w) \intersect Scheduled = {}
    <3>1. ThrowFocus(w, parent, sf, f, takers)
      BY <2>1, Zenon DEF delete_widget
    <3>2. sf \in [Groups -> Null(Widgets)] /\ AllSaved(sf, children)
      BY <1>1, <1>3, UnfocusFacts
    <3>3. f \in Null(live \union {w}) /\ pushed \in Null(live \union {w})
      BY <1>3 DEF Null
    <3>4. takers \in SUBSET live
      BY DEF Takers
    <3> HIDE DEF sf, f, takers
    <3> QED
      BY <3>1, <3>2, <3>3, <3>4, <1>3, ThrowFocusFacts
  <2>2. CASE UpFrom(parent, w) \intersect Scheduled # {}
    <3>1. UNCHANGED <<focus, savedfocus, pushed>>
      BY <2>2, Zenon DEF delete_widget
    <3> QED
      BY <3>1, <1>1, <1>3
  <2> QED
    BY <2>1, <2>2
<1>5. /\ dwidgets' \in Seq(Widgets) /\ Len(dwidgets) \in Nat /\ Len(dwidgets') \in Nat
      /\ Len(dwidgets) <= Len(dwidgets')
  BY <1>2, <1>3
<1>6. ToSet(dwidgets') = Scheduled \union {w}
  BY <1>2, <1>3, ToSetAppend DEF Scheduled
<1>7. Typed'
  BY <1>1, <1>2, <1>4, <1>5 DEF Typed, Null
<1>8. Tree'
  <2>1. TreeAgrees' /\ Rooted(live, parent)'
    BY <1>1, <1>2 DEF TreeAgrees
  <2> QED
    BY <2>1, <1>2, <1>4 DEF Tree, Pointers
<1>9. Calls(live, children, parent, Len(dwidgets'), stack)
  <2>1. \A k \in 1 .. Len(stack) : stack[k].pc \in BusyPc => stack[k].w \in live
    BY FrameKnows
  <2>2. \A k \in 1 .. Len(stack) : stack[k].pc = "clear" => stack[k].saved \in Null(live)
    BY FrameKnows
  <2>3. \A g \in Groups : Len(children[g]) <= Len(children[g])
    BY <1>1 DEF Typed
  <2> QED
    BY <2>1, <2>2, <2>3, <1>3, <1>5, CallsKeep DEF IInv
<1>10. \A n \in 1 .. Len(dwidgets) : n \in 1 .. Len(dwidgets') /\ dwidgets'[n] = dwidgets[n]
  BY <1>2, <1>3
<1>11. ASSUME w \notin Scheduled
       PROVE  /\ Len(dwidgets') = Len(dwidgets) + 1 /\ dwidgets'[Len(dwidgets) + 1] = w
              /\ ~HandledIn(stack, Len(dwidgets) + 1)
  <2>1. Len(dwidgets') = Len(dwidgets) + 1 /\ dwidgets'[Len(dwidgets) + 1] = w
    BY <1>2, <1>3, <1>11
  <2>2. \A k \in 1 .. Len(stack) : stack[k].pc = "loop" => stack[k].i <= Len(dwidgets) /\ stack[k].i \in Nat
    BY FrameKnows DEF FrameOK, Record
  <2>3. ~HandledIn(stack, Len(dwidgets) + 1)
    BY <2>2, <1>5 DEF HandledIn
  <2> QED
    BY <2>1, <2>3
<1>12. Entered(dwidgets')
  <2>1. Win \notin ToSet(dwidgets')
    BY <1>2, <1>6 DEF IInv, Lists, Entered, Scheduled
  <2>2. Distinct(dwidgets)
    BY DEF IInv, Lists, Entered
  <2>3. CASE w \in Scheduled
    BY <2>1, <2>2, <2>3, <1>2 DEF Entered
  <2>4. CASE w \notin Scheduled
    <3>1. \A n \in 1 .. Len(dwidgets) : dwidgets[n] # w
      BY <2>4, <1>3 DEF Scheduled, ToSet
    <3>2. Distinct(dwidgets')
      BY <3>1, <2>2, <2>4, <1>5, <1>10, <1>11 DEF Distinct
    <3> QED
      BY <3>2, <2>1 DEF Entered
  <2> QED
    BY <2>3, <2>4
<1>13. w \notin DyingIn(stack)
  BY <1>2, SetsAre
<1>14. ASSUME NEW n \in 1 .. Len(dwidgets')
       PROVE  n \in 1 .. Len(dwidgets) \/ (w \notin Scheduled /\ n = Len(dwidgets) + 1)
  <2>1. CASE w \in Scheduled
    BY <2>1, <1>2
  <2>2. CASE w \notin Scheduled
    BY <2>2, <1>5, <1>11
  <2> QED
    BY <2>1, <2>2
<1>15. Awaited(live, dwidgets', stack)
  <2> SUFFICES ASSUME NEW n \in 1 .. Len(dwidgets')
               PROVE  IF HandledIn(stack, n) THEN dwidgets'[n] \in live => dwidgets'[n] \in DyingIn(stack)
                      ELSE dwidgets'[n] \in live /\ dwidgets'[n] \notin DyingIn(stack)
    BY DEF Awaited
  <2>1. CASE n \in 1 .. Len(dwidgets)
    BY <2>1, <1>10 DEF IInv, Lists, Awaited
  <2>2. CASE w \notin Scheduled /\ n = Len(dwidgets) + 1
    BY <2>2, <1>2, <1>11, <1>13
  <2> QED
    BY <2>1, <2>2, <1>14
<1>16. Promised(live, dwidgets', wanted')
  BY <1>2, <1>6 DEF IInv, Lists, Promised, Scheduled
<1>17. Single(parent, ToSet(dwidgets'), BusyIn(stack))
  BY <1>2, <1>6, SetsAre, Zenon DEF OnlyTheGroup, Single
<1> QED
  BY <1>2, <1>7, <1>8, <1>9, <1>12, <1>15, <1>16, <1>17 DEF IInv, Lists
-----------------------------------------------------------------------------
\* A call on w is apart from those under way, unless w holds one of their widgets
\* or, for its destructor, is such a widget.
LEMMA Entering ==
  ASSUME IInv, NEW w \in live, NEW f \in Record, f.pc \in BusyPc, f.w = w,
         w \notin Busy, (Within(w) \ {w}) \intersect (Scheduled \union Busy \union Saved) = {},
         f.delete => w \notin Saved /\ w \notin Scheduled
  PROVE  /\ \A j \in 1 .. Depth : Apart(parent, stack[j], f)
         /\ \A x \in Scheduled : f.w \in UpFrom(parent, x) => f.w = x
<1>1. Typed /\ TreeAgrees
  BY DEF IInv, Tree
<1>2. ASSUME NEW x \in live, w \in UpFrom(parent, x), x \in Scheduled \union Busy \union Saved
      PROVE  x = w
  BY <1>2 DEF Within, Holds
<1>3. ASSUME NEW j \in 1 .. Depth
      PROVE  Apart(parent, stack[j], f)
  <2>1. j \in 1 .. Len(stack)
    BY DEF Depth
  <2>2. ASSUME stack[j].pc \in BusyPc
        PROVE  w \notin UpFrom(parent, stack[j].w)
    <3>1. stack[j].w \in live /\ stack[j].w \in Busy
      BY <2>1, <2>2, FrameKnows, SetsAre
    <3> QED
      BY <3>1, <1>2
  <2>3. ASSUME stack[j].pc = "clear", stack[j].saved # NULL, w \in UpFrom(parent, stack[j].saved)
        PROVE  w = stack[j].saved /\ ~f.delete
    <3>1. stack[j].saved \in live
      BY <2>1, <2>3, FrameKnows DEF Null
    <3>2. stack[j].saved \in Saved
      BY <2>3 DEF Saved, Frames
    <3> QED
      BY <3>1, <3>2, <2>3, <1>2
  <2> QED
    BY <2>2, <2>3, Zenon DEF Apart
<1>4. ASSUME NEW x \in Scheduled, w \in UpFrom(parent, x)
      PROVE  w = x
  <2>1. x \in Widgets
    BY <1>1 DEF Typed, Scheduled, ToSet
  <2>2. CASE x \in live
    BY <2>2, <1>2, <1>4
  <2>3. CASE x \notin live
    BY <2>1, <2>3, <1>1, <1>4, LiveAbove
  <2> QED
    BY <2>2, <2>3
<1> QED
  BY <1>3, <1>4

LEMMA FrameIs ==
  ASSUME NEW pc \in Pcs, NEW w \in Null(Widgets)
  PROVE  Frame(pc, w) \in Record
BY DEF Frame, Record, Null

LEMMA DestructorIs ==
  ASSUME NEW w \in Widgets
  PROVE  /\ Destructor(w) \in Record /\ Destructor(w).pc = "user" /\ Destructor(w).w = w
         /\ Destructor(w).delete = TRUE
<1> DEFINE f == Frame("user", w)
<1>1. f \in Record /\ f.pc = "user" /\ f.w = w
  BY FrameIs DEF Frame, Pcs, Null
<1>2. Destructor(w) = [f EXCEPT !.delete = TRUE]
  BY DEF Destructor
<1> HIDE DEF f
<1> QED
  BY <1>1, <1>2 DEF Record

LEMMA DeleteKeeps ==
  ASSUME IInv, NEW w \in Widgets, Delete(w)
  PROVE  IInv'
<1> DEFINE f == Destructor(w)
<1>1. /\ f \in Record /\ f.pc = "user" /\ f.w = w /\ f.delete = TRUE /\ f.pc \in BusyPc
  BY DestructorIs DEF BusyPc
<1>2. Typed /\ TreeAgrees /\ stack \in Seq(Record) /\ parent \in Parents
  BY ParentIs DEF IInv, Tree
<1>3. /\ UNCHANGED <<live, parent, children, savedfocus, focus, pushed, dwidgets, wanted>>
      /\ UserCode /\ w \in live /\ w # Win
      /\ Within(w) \intersect (Scheduled \union Busy) = {} /\ Within(w) \intersect Saved = {}
      /\ stack' = Append(stack, f)
  BY DEF Delete, MayDelete, Push, tree
<1>4. w \in Within(w)
  BY <1>2, <1>3, UpClosed DEF Within, Holds
<1> HIDE DEF f
<1>5. /\ \A j \in 1 .. Depth : Apart(parent, stack[j], f)
      /\ \A x \in Scheduled : f.w \in UpFrom(parent, x) => f.w = x
  BY <1>1, <1>3, <1>4, Entering
<1>6. FrameOK(live, children, parent, Len(dwidgets), f)
  BY <1>1, <1>3 DEF FrameOK
<1>7. stack' \in Seq(Record)
  BY <1>1, <1>2, <1>3
<1>8. Typed'
  BY <1>2, <1>3, <1>7 DEF Typed, Record, Pcs, Null
<1>9. Tree'
  BY <1>3 DEF IInv, Tree, TreeAgrees, Pointers
<1>10. f.pc # "loop" /\ w \notin Scheduled
  BY <1>1, <1>3, <1>4
<1> QED
  BY <1>1, <1>3, <1>5, <1>6, <1>8, <1>9, <1>10, PushKeeps

\* What clear() does before its loop.
Cleared(f) ==
  [f EXCEPT !.pc = "clear", !.i = Len(children[f.w]),
            !.saved = IF pushed # NULL /\ Holds(parent, f.w, pushed) THEN f.w ELSE pushed]

LEMMA EnterClearFacts ==
  ASSUME IInv, NEW f \in Record, f.w \in Groups, f.w \in live, f.delete => f.w # Win,
         NEW below \in Seq(Record), EnterClear(below, f)
  PROVE  /\ UNCHANGED <<live, parent, children, dwidgets, wanted>>
         /\ stack' = Append(below, Cleared(f)) /\ Cleared(f) \in Record
         /\ Cleared(f).pc = "clear" /\ Cleared(f).w = f.w /\ Cleared(f).delete = f.delete
         /\ FrameOK(live, children, parent, Len(dwidgets), Cleared(f))
         /\ Typed' /\ Tree'
<1> DEFINE sv == IF pushed # NULL /\ Holds(parent, f.w, pushed) THEN f.w ELSE pushed
           c == Cleared(f)
<1>1. Typed /\ TreeAgrees /\ Rooted(live, parent) /\ Pointers /\ live \subseteq Widgets
  BY DEF IInv, Tree, Typed
<1>2. Len(children[f.w]) \in Nat
  BY <1>1 DEF Typed
<1>3. sv \in Null(live) /\ sv \in Null(Widgets)
  BY <1>1 DEF Pointers, Null
<1>4. /\ c \in Record /\ c.pc = "clear" /\ c.w = f.w /\ c.delete = f.delete
      /\ c.i = Len(children[f.w]) /\ c.saved = sv
  BY <1>2, <1>3 DEF Cleared, Record, Pcs
<1>5. /\ UNCHANGED <<live, parent, children, focus, dwidgets, wanted>>
      /\ savedfocus' = [savedfocus EXCEPT ![f.w] = NULL] /\ pushed' = f.w
      /\ stack' = Append(below, c)
  BY DEF EnterClear, Cleared
<1>6. sv # NULL /\ f.w \in UpFrom(parent, sv) => f.w = sv
  BY DEF Holds
<1> HIDE DEF c, sv
<1>7. FrameOK(live, children, parent, Len(dwidgets), c)
  <2>1. Len(children[c.w]) <= c.i
    BY <1>2, <1>4
  <2> QED
    BY <2>1, <1>3, <1>4, <1>6 DEF FrameOK
<1>8. stack' \in Seq(Record)
  BY <1>4, <1>5
<1>9. Typed'
  <2>1. savedfocus' \in [Groups -> Widgets \union {NULL}]
    BY <1>1, <1>5 DEF Typed
  <2> QED
    BY <2>1, <1>1, <1>5, <1>8 DEF Typed, Record, Pcs, Null
<1>10. Tree'
  <2>1. AllSaved(savedfocus', children)
    BY <1>1, <1>5 DEF AllSaved, Pointers, Typed
  <2> QED
    BY <2>1, <1>1, <1>5 DEF Tree, TreeAgrees, Pointers, Null
<1> QED
  BY <1>4, <1>5, <1>7, <1>9, <1>10 DEF c

LEMMA ClearKeeps ==
  ASSUME IInv, NEW g \in Groups, Clear(g)
  PROVE  IInv'
<1> DEFINE f == Frame("clear", g)
<1>1. g \in Widgets
  BY WidgetsAssumption
<1>2. f \in Record /\ f.w = g /\ f.delete = FALSE
  BY <1>1, FrameIs DEF Frame, Pcs, Null
<1>3. /\ UserCode /\ g \in live /\ g \notin Busy /\ EnterClear(stack, f)
      /\ (Within(g) \ {g}) \intersect (Scheduled \union Busy \union Saved) = {}
  BY DEF Clear
<1>4. stack \in Seq(Record)
  BY ParentIs DEF IInv
<1> HIDE DEF f
<1>5. /\ UNCHANGED <<live, parent, children, dwidgets, wanted>>
      /\ stack' = Append(stack, Cleared(f)) /\ Cleared(f) \in Record
      /\ Cleared(f).pc = "clear" /\ Cleared(f).w = g /\ Cleared(f).delete = FALSE
      /\ FrameOK(live, children, parent, Len(dwidgets), Cleared(f))
      /\ Typed' /\ Tree'
  BY <1>2, <1>3, <1>4, EnterClearFacts
<1>6. Cleared(f).pc \in BusyPc /\ Cleared(f).pc # "loop"
  BY <1>5 DEF BusyPc
<1>7. /\ \A j \in 1 .. Depth : Apart(parent, stack[j], Cleared(f))
      /\ \A x \in Scheduled : Cleared(f).w \in UpFrom(parent, x) => Cleared(f).w = x
  BY <1>3, <1>5, <1>6, Entering
<1> QED
  BY <1>5, <1>6, <1>7, PushKeeps

LEMMA do_callbackKeeps ==
  ASSUME IInv, NEW w \in Widgets, do_callback(w)
  PROVE  IInv'
<1> DEFINE e == Frame("callback", w)
           f == [e EXCEPT !.saved = w]
<1>1. e \in Record /\ e.pc = "callback" /\ e.w = w /\ e.gone = FALSE
  BY FrameIs DEF Frame, Pcs, Null
<1> HIDE DEF e
<1>2. f \in Record /\ f.pc = "callback" /\ f.w = w /\ f.saved = w /\ f.gone = FALSE
  BY <1>1 DEF Record, Null
<1>3. /\ UNCHANGED <<live, parent, children, savedfocus, focus, pushed, dwidgets, wanted>>
      /\ UserCode /\ w \in live /\ stack' = Append(stack, f)
  BY DEF do_callback, Push, tree, e
<1> HIDE DEF f
<1>4. Typed /\ TreeAgrees /\ stack \in Seq(Record)
  BY ParentIs DEF IInv, Tree
<1>5. f.pc \notin BusyPc /\ f.pc # "loop" /\ f.pc # "clear" /\ f.pc \notin {"user", "widget"} /\ f.pc # "widget"
  BY <1>2 DEF BusyPc
<1>6. w # NULL
  BY WidgetsAssumption
<1>7. FrameOK(live, children, parent, Len(dwidgets), f)
  BY <1>2, <1>5, <1>6 DEF FrameOK
<1>8. \A j \in 1 .. Depth : Apart(parent, stack[j], f)
  BY <1>5 DEF Apart
<1>9. stack' \in Seq(Record)
  BY <1>2, <1>3, <1>4
<1>10. Typed'
  BY <1>3, <1>4, <1>9 DEF Typed, Record, Pcs, Null
<1>11. Tree'
  BY <1>3 DEF IInv, Tree, TreeAgrees, Pointers
<1>12. ~(stack # <<>> /\ Top.pc = "loop")
  BY <1>3 DEF UserCode
<1> QED
  BY <1>2, <1>3, <1>5, <1>7, <1>8, <1>10, <1>11, <1>12, PushKeeps

\* Where the event loop may run, only callbacks are under way.
LEMMA OnlyCallbacks ==
  ASSUME IInv, UserCode, Busy = {}
  PROVE  \A j \in 1 .. Depth : stack[j].pc = "callback"
<1> SUFFICES ASSUME NEW j \in 1 .. Depth
             PROVE  stack[j].pc = "callback"
  OBVIOUS
<1>1. stack \in Seq(Record)
  BY ParentIs DEF IInv
<1>2. \A k \in 1 .. Depth : stack[k].pc \notin BusyPc
  BY SetsAre
<1>3. Depth \in Nat /\ Depth = Len(stack)
  BY <1>1 DEF Depth
<1>4. stack[j].pc \in Pcs
  <2>1. stack[j] \in Record
    BY <1>1, <1>3
  <2> QED
    BY <2>1 DEF Record
<1>5. stack[j].pc # "loop"
  <2> SUFFICES ASSUME stack[j].pc = "loop"
               PROVE  FALSE
    OBVIOUS
  <2>1. j < Len(stack) => stack[j + 1].pc \in BusyPc
    BY <1>3 DEF IInv, Calls, Looped
  <2>2. CASE j < Len(stack)
    <3>1. j + 1 \in 1 .. Depth
      BY <2>2, <1>3
    <3> QED
      BY <3>1, <2>1, <2>2, <1>2
  <2>3. CASE ~(j < Len(stack))
    <3>1. j = Depth /\ stack # <<>>
      BY <2>3, <1>1, <1>3
    <3> QED
      BY <3>1 DEF UserCode, Top
  <2> QED
    BY <2>2, <2>3
<1> QED
  BY <1>2, <1>4, <1>5 DEF Pcs, BusyPc

LEMMA BeginLoopKeeps ==
  ASSUME IInv, BeginLoop
  PROVE  IInv'
<1> DEFINE f == Frame("loop", NULL)
<1>1. f \in Record /\ f.pc = "loop" /\ f.i = 0
  BY FrameIs DEF Frame, Pcs, Null
<1>2. /\ UNCHANGED <<live, parent, children, savedfocus, focus, pushed, dwidgets, wanted>>
      /\ UserCode /\ Busy = {} /\ stack' = Append(stack, f)
  BY DEF BeginLoop, Push, tree
<1> HIDE DEF f
<1>3. Typed /\ TreeAgrees /\ stack \in Seq(Record) /\ Len(dwidgets) \in Nat
  BY ParentIs DEF IInv, Tree, Typed
<1>4. f.pc \notin BusyPc /\ f.pc # "callback" /\ f.pc # "clear" /\ f.pc \notin {"user", "widget"} /\ f.pc # "widget"
  BY <1>1 DEF BusyPc
<1>5. 0 <= Len(dwidgets)
  BY <1>3
<1>6. FrameOK(live, children, parent, Len(dwidgets), f)
  BY <1>1, <1>4, <1>5 DEF FrameOK
<1>7. \A j \in 1 .. Depth : Apart(parent, stack[j], f)
  BY <1>4 DEF Apart
<1>8. \A j \in 1 .. Depth : stack[j].pc = "callback"
  BY <1>2, OnlyCallbacks
<1>9. stack' \in Seq(Record)
  BY <1>1, <1>2, <1>3
<1>10. Typed'
  BY <1>2, <1>3, <1>9 DEF Typed, Record, Pcs, Null
<1>11. Tree'
  BY <1>2 DEF IInv, Tree, TreeAgrees, Pointers
<1>12. ~(stack # <<>> /\ Top.pc = "loop")
  BY <1>2 DEF UserCode
<1> QED
  BY <1>1, <1>2, <1>4, <1>6, <1>7, <1>8, <1>10, <1>11, <1>12, PushKeeps

\* What is known of the innermost call.
LEMMA TopKnows ==
  ASSUME IInv, stack # <<>>
  PROVE  /\ Top \in Record /\ FrameOK(live, children, parent, Len(dwidgets), Top)
         /\ Front(stack) \in Seq(Record) /\ stack = Append(Front(stack), Top)
         /\ \A f \in Record : [stack EXCEPT ![Depth] = f] = Append(Front(stack), f)
         /\ Typed /\ Tree
<1>1. Typed
  BY DEF IInv
<1>2. Depth \in 1 .. Depth
  BY <1>1, StackTop
<1>3. FrameOK(live, children, parent, Len(dwidgets), Top)
  BY <1>2, FrameKnows DEF Top, Depth
<1> QED
  BY <1>1, <1>3, StackTop DEF IInv

LEMMA UserDoneKeeps ==
  ASSUME IInv, UserDone
  PROVE  IInv'
<1>1. stack # <<>> /\ Top.pc = "user" /\ Top.pc \in BusyPc
  BY DEF UserDone, BusyPc
<1>2. /\ Top \in Record /\ FrameOK(live, children, parent, Len(dwidgets), Top)
      /\ Front(stack) \in Seq(Record) /\ Typed /\ Tree
  BY <1>1, TopKnows
<1>3. Top.delete /\ Top.w \in live /\ Top.w # Win
  BY <1>1, <1>2 DEF FrameOK
<1>4. CASE Top.w \in Groups
  <2>1. EnterClear(Front(stack), Top)
    BY <1>4 DEF UserDone
  <2>2. /\ UNCHANGED <<live, parent, children, dwidgets, wanted>>
        /\ stack' = Append(Front(stack), Cleared(Top)) /\ Cleared(Top) \in Record
        /\ Cleared(Top).pc = "clear" /\ Cleared(Top).w = Top.w /\ Cleared(Top).delete = Top.delete
        /\ FrameOK(live, children, parent, Len(dwidgets), Cleared(Top))
        /\ Typed' /\ Tree'
    BY <2>1, <1>2, <1>3, <1>4, EnterClearFacts
  <2>3. Cleared(Top).pc \in BusyPc
    BY <2>2 DEF BusyPc
  <2> QED
    BY <2>2, <2>3, <1>1, TopKeeps
<1>5. CASE Top.w \notin Groups
  <2> DEFINE f == [Top EXCEPT !.pc = "widget"]
  <2>1. f \in Record /\ f.pc = "widget" /\ f.w = Top.w /\ f.delete = Top.delete
    BY <1>2 DEF Record, Pcs
  <2>2. /\ UNCHANGED <<live, parent, children, savedfocus, focus, pushed, dwidgets, wanted>>
        /\ stack' = [stack EXCEPT ![Depth] = f]
    BY <1>5, Zenon DEF UserDone, SetTop, tree
  <2> HIDE DEF f
  <2>3. stack' = Append(Front(stack), f)
    BY <2>1, <2>2, <1>1, TopKnows
  <2>4. f.pc \in BusyPc /\ f.pc # "clear" /\ f.pc # "callback" /\ f.pc # "loop"
    BY <2>1 DEF BusyPc
  <2>5. FrameOK(live, children, parent, Len(dwidgets), f)
    BY <2>1, <2>4, <1>3, <1>5 DEF FrameOK
  <2>6. stack' \in Seq(Record)
    BY <2>1, <2>3, <1>2
  <2>7. Typed'
    BY <2>2, <2>6, <1>2 DEF Typed, Record, Pcs, Null
  <2>8. Tree'
    BY <2>2, <1>2 DEF Tree, TreeAgrees, Pointers
  <2> QED
    BY <2>1, <2>2, <2>3, <2>4, <2>5, <2>7, <2>8, <1>1, TopKeeps
<1> QED
  BY <1>4, <1>5

\* One more widget that is being deleted, which the event loop is not to delete.
LEMMA ListsAdd ==
  ASSUME NEW dw \in Seq(Widgets), NEW lv, NEW par, NEW wt, NEW s, Lists(lv, par, dw, wt, s),
         NEW par2, NEW s2, NEW c,
         DyingIn(s2) = DyingIn(s) \union {c}, BusyIn(s2) = BusyIn(s) \union {c},
         \A n \in 1 .. Len(dw) : HandledIn(s2, n) <=> HandledIn(s, n),
         \A x \in ToSet(dw) : UpFrom(par2, x) \subseteq UpFrom(par, x) /\ x # c /\ c \notin UpFrom(par2, x)
  PROVE  Lists(lv, par2, dw, wt, s2)
<1>1. \A n \in 1 .. Len(dw) : dw[n] \in ToSet(dw)
  BY DEF ToSet
<1>2. Awaited(lv, dw, s2)
  BY <1>1 DEF Lists, Awaited
<1>3. Promised(lv, dw, wt)
  BY DEF Lists, Promised
<1>4. Single(par2, ToSet(dw), BusyIn(s2))
  BY DEF Lists, Single
<1> QED
  BY <1>2, <1>3, <1>4, Zenon DEF Lists

\* A child of a group that clear() works on is not in the way of any other call.
LEMMA ChildIsFree ==
  ASSUME IInv, stack # <<>>, Top.pc = "clear", NEW c \in Widgets, parent[c] = Top.w
  PROVE  /\ c \in live /\ c # Win /\ c # Top.w
         /\ \A x \in Scheduled : c \notin UpFrom(parent, x)
         /\ \A k \in 1 .. Len(stack) :
              /\ stack[k].pc \in BusyPc => c \notin UpFrom(parent, stack[k].w)
              /\ stack[k].pc = "clear" /\ stack[k].saved # NULL => c \notin UpFrom(parent, stack[k].saved)
<1> DEFINE g == Top.w
<1>1. /\ Top \in Record /\ FrameOK(live, children, parent, Len(dwidgets), Top) /\ Typed
      /\ TreeAgrees /\ Rooted(live, parent) /\ parent \in Parents /\ live \subseteq Widgets
  BY TopKnows, ParentIs DEF Tree, Typed
<1>2. g \in Groups /\ g \in live /\ g \in Widgets /\ g # NULL /\ Top.pc \in BusyPc
  BY <1>1, WidgetsAssumption DEF FrameOK, BusyPc
<1>3. c \in live /\ c # Win
  <2>1. Agrees(parent, children, live)
    BY <1>1, TreeIs
  <2> QED
    BY <2>1, <1>1, <1>2 DEF Agrees, Rooted
<1>4. c \notin UpFrom(parent, g)
  BY <1>1, <1>2 DEF Rooted, Acyclic
<1>5. c # g
  BY <1>2, <1>1, <1>4, UpClosed
<1>6. ASSUME NEW x \in Widgets, c \in UpFrom(parent, x)
      PROVE  g \in UpFrom(parent, x) /\ g # x
  BY <1>1, <1>2, <1>4, <1>6, UpClosed
<1>7. Depth \in 1 .. Depth /\ Depth = Len(stack) /\ Depth \in Nat
  BY <1>1, StackTop DEF Depth
<1>8. g \in BusyIn(stack)
  BY <1>2, <1>7, SetsAre DEF Top
<1>9. ASSUME NEW x \in Scheduled
      PROVE  c \notin UpFrom(parent, x)
  <2>1. x \in Widgets
    BY <1>1 DEF Typed, Scheduled, ToSet
  <2>2. g \in UpFrom(parent, x) => g = x
    BY <1>8 DEF IInv, Lists, Single, Scheduled
  <2> QED
    BY <2>1, <2>2, <1>6
<1>10. ASSUME NEW k \in 1 .. Len(stack)
       PROVE  /\ stack[k].pc \in BusyPc => c \notin UpFrom(parent, stack[k].w)
              /\ stack[k].pc = "clear" /\ stack[k].saved # NULL => c \notin UpFrom(parent, stack[k].saved)
  <2>1. k # Depth => k < Depth
    BY <1>7
  <2>2. k # Depth => Apart(parent, stack[k], Top)
    BY <2>1, <1>7 DEF IInv, Calls, Nested, Top
  <2>3. /\ stack[k].pc \in BusyPc => stack[k].w \in Widgets
        /\ stack[k].pc = "clear" /\ stack[k].saved # NULL => stack[k].saved \in Widgets
    BY <1>1, FrameKnows DEF Null
  <2>4. k = Depth => stack[k] = Top
    BY DEF Top
  <2>5. ASSUME stack[k].pc \in BusyPc
        PROVE  c \notin UpFrom(parent, stack[k].w)
    <3>1. CASE k = Depth
      BY <3>1, <2>4, <1>4
    <3>2. CASE k # Depth
      BY <3>2, <2>2, <2>3, <2>5, <1>2, <1>6 DEF Apart
    <3> QED
      BY <3>1, <3>2
  <2>6. ASSUME stack[k].pc = "clear", stack[k].saved # NULL
        PROVE  c \notin UpFrom(parent, stack[k].saved)
    <3>1. g \in UpFrom(parent, stack[k].saved) => g = stack[k].saved
      <4>1. CASE k = Depth
        BY <4>1, <2>4, <2>6, <1>1 DEF FrameOK
      <4>2. CASE k # Depth
        BY <4>2, <2>2, <2>6, <1>2 DEF Apart
      <4> QED
        BY <4>1, <4>2
    <3> QED
      BY <3>1, <2>3, <2>6, <1>6
  <2> QED
    BY <2>5, <2>6
<1> QED
  BY <1>3, <1>5, <1>9, <1>10

LEMMA ClearStepKeeps ==
  ASSUME IInv, ClearStep
  PROVE  IInv'
<1> DEFINE g == Top.w
           b == Front(stack)
           f == [Top EXCEPT !.i = @ - 1]
<1>1. stack # <<>> /\ Top.pc = "clear" /\ Top.i > 0 /\ Top.pc \in BusyPc
      /\ UNCHANGED <<live, focus, pushed, dwidgets, wanted>>
  BY DEF ClearStep, BusyPc, tree
<1>2. /\ Top \in Record /\ FrameOK(live, children, parent, Len(dwidgets), Top)
      /\ b \in Seq(Record) /\ stack = Append(b, Top) /\ Typed /\ Tree
  BY <1>1, TopKnows
<1>3. /\ g \in Groups /\ g \in live /\ (Top.delete => g # Win) /\ Top.saved \in Null(live)
      /\ Len(children[g]) <= Top.i
      /\ Top.saved # NULL /\ g \in UpFrom(parent, Top.saved) => g = Top.saved
  BY <1>1, <1>2 DEF FrameOK
<1>4. Top.i \in Nat \ {0} /\ Len(children[g]) \in Nat /\ children[g] \in Seq(Widgets)
  BY <1>1, <1>2, <1>3 DEF Record, Typed
<1>5. /\ f \in Record /\ f.pc = "clear" /\ f.w = g /\ f.delete = Top.delete
      /\ f.saved = Top.saved /\ f.i = Top.i - 1
  <2>1. Top.i - 1 \in Nat
    BY <1>4
  <2> QED
    BY <2>1, <1>1, <1>2 DEF Record
<1>6. [stack EXCEPT ![Depth] = f] = Append(b, f)
  BY <1>1, <1>5, TopKnows
<1>7. CASE Top.i > Len(children[g])
  <2>1. stack' = [stack EXCEPT ![Depth] = f] /\ UNCHANGED <<live, parent, children, savedfocus>>
    BY <1>7, Zenon DEF ClearStep, SetTop, tree
  <2> HIDE DEF f
  <2>2. stack' = Append(b, f)
    BY <2>1, <1>6, Zenon
  <2>3. Len(children[g]) <= Top.i - 1
    BY <1>4, <1>7
  <2>4. f.pc \in BusyPc /\ f.pc \notin {"user", "widget"} /\ f.pc # "widget" /\ f.pc # "callback" /\ f.pc # "loop"
    BY <1>5 DEF BusyPc
  <2>5. FrameOK(live, children, parent, Len(dwidgets), f)
    BY <2>3, <2>4, <1>3, <1>5, Zenon DEF FrameOK
  <2>6. stack' \in Seq(Record)
    BY <2>2, <1>2, <1>5
  <2>7. Typed'
    BY <2>1, <2>6, <1>1, <1>2 DEF Typed, Record, Pcs, Null
  <2>8. Tree'
    BY <2>1, <1>1, <1>2 DEF Tree, TreeAgrees, Pointers
  <2> QED
    BY <2>1, <2>2, <2>4, <2>5, <2>7, <2>8, <1>1, <1>5, TopKeeps
<1>8. CASE ~(Top.i > Len(children[g]))
  <2> DEFINE c == children[g][Top.i]
             o == Orphaned(c)
             D == Destructor(c)
             s == Append(b, f)
  <2>1. Top.i \in 1 .. Len(children[g])
    BY <1>4, <1>8
  <2>2. c \in Widgets
    BY <2>1, <1>4
  <2>3. parent[c] = g
    BY <2>1, <1>2, <1>3 DEF Tree, TreeAgrees
  <2>4. /\ stack' = Append([stack EXCEPT ![Depth] = f], D)
        /\ children' = o.ch /\ savedfocus' = o.sf /\ parent' = o.pa
    BY <1>8, Zenon DEF ClearStep, Top
  <2> HIDE DEF c, f, b
  <2>5. /\ o.pa = [parent EXCEPT ![c] = NULL] /\ o.pa \in Parents
        /\ o.ch \in Arrays /\ o.sf \in [Groups -> Null(Widgets)]
        /\ Agrees(o.pa, o.ch, live) /\ AllSaved(o.sf, o.ch)
        /\ \A x \in Groups : Len(o.ch[x]) = IF x = g THEN Len(children[x]) - 1 ELSE Len(children[x])
    <3>1. Typed /\ TreeAgrees /\ AllSaved(savedfocus, children)
      BY <1>2 DEF Tree, Pointers
    <3>2. /\ o.pa = [parent EXCEPT ![c] = NULL] /\ o.pa \in Parents
          /\ o.ch \in Arrays /\ o.sf \in [Groups -> Null(Widgets)]
          /\ Agrees(o.pa, o.ch, live)
      BY <2>2, <3>1, OrphanedFacts, Zenon
    <3>3. AllSaved(o.sf, o.ch)
      BY <2>2, <3>1, OrphanedFacts, Zenon
    <3>4. \A x \in Groups : Len(o.ch[x]) = IF x = parent[c] THEN Len(children[x]) - 1
                                            ELSE Len(children[x])
      BY <2>2, <3>1, OrphanedFacts, Zenon
    <3> QED
      BY <2>3, <3>2, <3>3, <3>4
  <2>6. D \in Record /\ D.pc = "user" /\ D.w = c /\ D.delete = TRUE /\ D.pc \in BusyPc
    BY <2>2, DestructorIs DEF BusyPc
  <2> HIDE DEF o, D
  <2>7. stack' = Append(s, D) /\ s \in Seq(Record)
    <3>1. s \in Seq(Record)
      BY <1>2, <1>5
    <3> QED
      BY <3>1, <2>4, <1>6, Zenon
  <2> HIDE DEF s
  <2>8. stack' \in Seq(Record)
    BY <2>6, <2>7
  <2>9. Typed'
    BY <2>4, <2>5, <2>8, <1>1, <1>2 DEF Typed, Parents, Arrays, Record, Pcs, Null
  <2>10. Tree'
    <3>1. TreeAgrees'
      BY <2>4, <2>5, <2>9, <1>1, TreeIsNext
    <3>2. Acyclic(o.pa) /\ o.pa[Win] = NULL
      <4>1. parent \in Parents /\ Acyclic(parent) /\ parent[Win] = NULL /\ Win \in Widgets
        BY <1>2, ParentIs, WidgetsAssumption DEF Tree, Rooted
      <4>2. Acyclic(o.pa)
        BY <4>1, <2>2, <2>5, CutAcyclic
      <4> QED
        BY <4>1, <4>2, <2>5 DEF Parents
    <3>3. Rooted(live, parent)'
      BY <3>2, <2>4, <1>1, <1>2 DEF Tree, Rooted
    <3>4. Pointers'
      BY <2>4, <2>5, <1>1, <1>2 DEF Tree, Pointers
    <3> QED
      BY <3>1, <3>3, <3>4 DEF Tree
  <2>11. \A x \in Widgets : UpFrom(o.pa, x) \subseteq UpFrom(parent, x)
    BY <2>2, <2>5, <1>2, ParentIs, UpCut
  <2>12. /\ c \in live /\ c # Win /\ c # Top.w
         /\ \A x \in Scheduled : c \notin UpFrom(parent, x)
         /\ \A k \in 1 .. Len(stack) :
              /\ stack[k].pc \in BusyPc => c \notin UpFrom(parent, stack[k].w)
              /\ stack[k].pc = "clear" /\ stack[k].saved # NULL => c \notin UpFrom(parent, stack[k].saved)
    BY <2>2, <2>3, <1>1, ChildIsFree
  <2>13. Calls(live, o.ch, o.pa, Len(dwidgets), b) /\ \A j \in 1 .. Len(b) : Apart(o.pa, b[j], f)
    <3>1. Calls(live, children, parent, Len(dwidgets), b) /\ \A j \in 1 .. Len(b) : Apart(parent, b[j], Top)
      BY <1>2, CallsAppend DEF IInv
    <3>2. \A x \in Groups : Len(o.ch[x]) <= Len(children[x])
      <4>1. \A x \in Groups : Len(children[x]) \in Nat
        BY <1>2 DEF Typed
      <4> QED
        BY <4>1, <2>5
    <3>3. /\ \A k \in 1 .. Len(b) : b[k].pc \in BusyPc => b[k].w \in live
          /\ \A k \in 1 .. Len(b) : b[k].pc = "clear" => b[k].saved \in Null(live)
      BY <3>1 DEF Calls, Framed, FrameOK
    <3>4. live \in SUBSET Widgets /\ children \in Arrays /\ Len(dwidgets) \in Nat /\ Len(dwidgets) <= Len(dwidgets)
      BY <1>2, ParentIs DEF Typed
    <3>5. Calls(live, o.ch, o.pa, Len(dwidgets), b)
      <4>1. \A x \in Groups \intersect ClearingIn(b) : Len(o.ch[x]) <= Len(children[x])
        BY <3>2
      <4>2. o.ch \in Arrays
        BY <2>5
      <4> QED
        BY <4>1, <4>2, <3>1, <3>3, <3>4, <2>11, <1>2, CallsKeep
    <3>6. ASSUME NEW j \in 1 .. Len(b)
          PROVE  Apart(o.pa, b[j], f)
      <4>1. b[j].pc \in BusyPc => b[j].w \in Widgets
        BY <3>3, <3>4
      <4>2. b[j].pc = "clear" /\ b[j].saved # NULL => b[j].saved \in Widgets
        BY <3>3, <3>4 DEF Null
      <4>3. Apart(parent, b[j], f)
        BY <3>1, <1>1, <1>5 DEF Apart
      <4> QED
        BY <4>1, <4>2, <4>3, <2>11, ApartKeeps
    <3> QED
      BY <3>5, <3>6
  <2>14. f.pc \in BusyPc /\ f.pc \notin {"user", "widget"} /\ f.pc # "widget" /\ f.pc # "callback" /\ f.pc # "loop"
    BY <1>5 DEF BusyPc
  <2>15. FrameOK(live, o.ch, o.pa, Len(dwidgets), f)
    <3>1. Len(o.ch[f.w]) <= f.i
      BY <2>5, <1>3, <1>4, <1>5
    <3>2. f.saved # NULL /\ f.w \in UpFrom(o.pa, f.saved) => f.w = f.saved
      <4>1. Top.saved # NULL => Top.saved \in Widgets
        BY <1>2 DEF Record, Null
      <4> QED
        BY <4>1, <2>11, <1>3, <1>5
    <3> QED
      BY <3>1, <3>2, <2>14, <1>3, <1>5, Zenon DEF FrameOK
  <2>16. Calls(live, o.ch, o.pa, Len(dwidgets), s)
    <3>1. Calls(live, o.ch, o.pa, Len(dwidgets), Append(b, f))
      BY <2>13, <2>14, <2>15, <1>2, <1>5, CallsAppend, Zenon
    <3> QED
      BY <3>1 DEF s
  <2>17. \A j \in 1 .. Len(s) : Apart(o.pa, s[j], D)
    <3> SUFFICES ASSUME NEW j \in 1 .. Len(s)
                 PROVE  /\ s[j].pc \in BusyPc => c \notin UpFrom(o.pa, s[j].w)
                        /\ s[j].pc = "clear" /\ s[j].saved # NULL => c \notin UpFrom(o.pa, s[j].saved)
      BY <2>6 DEF Apart
    <3>1. Len(s) = Len(stack) /\ Len(s) \in Nat
      BY <1>2, <1>5 DEF s
    <3>2. s[j].pc = stack[j].pc /\ s[j].w = stack[j].w /\ s[j].saved = stack[j].saved
      <4>1. CASE j = Len(b) + 1
        BY <4>1, <1>1, <1>2, <1>5 DEF s
      <4>2. CASE j # Len(b) + 1
        BY <4>2, <1>2, <1>5 DEF s
      <4> QED
        BY <4>1, <4>2
    <3>3. /\ stack[j].pc \in BusyPc => stack[j].w \in Widgets
          /\ stack[j].pc = "clear" /\ stack[j].saved # NULL => stack[j].saved \in Widgets
      BY <3>1, <1>2, FrameKnows DEF Null, Typed
    <3> QED
      BY <3>1, <3>2, <3>3, <2>11, <2>12
  <2>18. Calls(live, o.ch, o.pa, Len(dwidgets), Append(s, D))
    <3>1. FrameOK(live, o.ch, o.pa, Len(dwidgets), D)
      BY <2>6, <2>12 DEF FrameOK
    <3>2. D.pc # "loop"
      BY <2>6
    <3> QED
      BY <3>1, <3>2, <2>6, <2>7, <2>16, <2>17, CallsAppend, Zenon
  <2>19. Lists(live, o.pa, dwidgets, wanted, Append(s, D))
    <3>1. /\ BusyIn(s) = BusyIn(stack) /\ DyingIn(s) = DyingIn(stack)
          /\ \A n \in Nat : HandledIn(s, n) <=> HandledIn(stack, n)
      <4>1. Top.pc # "loop"
        BY <1>1
      <4>2. /\ BusyIn(stack) = BusyIn(b) \union ({Top.w} \intersect Widgets)
            /\ DyingIn(stack) = DyingIn(b) \union (IF Top.delete THEN {Top.w} \intersect Widgets ELSE {})
            /\ \A n \in Nat : HandledIn(stack, n) <=> HandledIn(b, n)
        BY <4>1, <1>1, <1>2, AppendSets
      <4>3. /\ BusyIn(s) = BusyIn(b) \union ({f.w} \intersect Widgets)
            /\ DyingIn(s) = DyingIn(b) \union (IF f.delete THEN {f.w} \intersect Widgets ELSE {})
            /\ \A n \in Nat : HandledIn(s, n) <=> HandledIn(b, n)
        BY <2>14, <1>2, <1>5, AppendSets DEF s
      <4> QED
        BY <4>2, <4>3, <1>5
    <3>2. D.pc # "loop"
      BY <2>6
    <3>3. /\ BusyIn(Append(s, D)) = BusyIn(stack) \union {c}
          /\ DyingIn(Append(s, D)) = DyingIn(stack) \union {c}
          /\ \A n \in Nat : HandledIn(Append(s, D), n) <=> HandledIn(stack, n)
      BY <3>1, <3>2, <2>2, <2>6, <2>7, AppendSets
    <3>4. dwidgets \in Seq(Widgets) /\ \A n \in 1 .. Len(dwidgets) : n \in Nat
      BY <1>2 DEF Typed
    <3>5. ASSUME NEW x \in ToSet(dwidgets)
          PROVE  UpFrom(o.pa, x) \subseteq UpFrom(parent, x) /\ x # c /\ c \notin UpFrom(o.pa, x)
      <4>1. x \in Widgets /\ x \in Scheduled
        BY <3>4 DEF ToSet, Scheduled
      <4>2. c \notin UpFrom(parent, x) /\ x \in UpFrom(parent, x)
        BY <4>1, <2>12, <1>2, ParentIs, UpClosed
      <4> QED
        BY <4>1, <4>2, <2>11
    <3>6. \A n \in 1 .. Len(dwidgets) : HandledIn(Append(s, D), n) <=> HandledIn(stack, n)
      BY <3>3, <3>4
    <3> QED
      BY <3>3, <3>4, <3>5, <3>6, ListsAdd DEF IInv
  <2>20. Calls(live, o.ch, o.pa, Len(dwidgets), stack') /\ Lists(live, o.pa, dwidgets, wanted, stack')
    BY <2>7, <2>18, <2>19, Zenon
  <2> QED
    BY <2>4, <2>9, <2>10, <2>20, <1>1 DEF IInv
<1> QED
  BY <1>7, <1>8

LEMMA ClearDoneKeeps ==
  ASSUME IInv, ClearDone
  PROVE  IInv'
<1>1. /\ stack # <<>> /\ Top.pc = "clear" /\ Top.i = 0 /\ Top.pc \in BusyPc
      /\ UNCHANGED <<live, parent, children, savedfocus, focus, dwidgets, wanted>>
      /\ pushed' = IF Top.saved = Top.w THEN pushed ELSE Top.saved
  BY DEF ClearDone, BusyPc, tree
<1>2. /\ Top \in Record /\ FrameOK(live, children, parent, Len(dwidgets), Top)
      /\ Front(stack) \in Seq(Record) /\ Typed /\ Tree
  BY <1>1, TopKnows
<1>3. /\ Top.w \in Groups /\ Top.w \in live /\ Top.saved \in Null(live)
      /\ (Top.delete => Top.w # Win) /\ Len(children[Top.w]) <= 0
  BY <1>1, <1>2 DEF FrameOK
<1>4. pushed' \in Null(live)
  BY <1>1, <1>2, <1>3 DEF Tree, Pointers
<1>5. Tree'
  BY <1>1, <1>2, <1>4 DEF Tree, TreeAgrees, Pointers
<1>6. ASSUME stack' \in Seq(Record)
      PROVE  Typed'
  BY <1>1, <1>2, <1>4, <1>6 DEF Typed, Record, Pcs, Null
<1>7. CASE Top.delete
  <2> DEFINE f == [Top EXCEPT !.pc = "widget", !.saved = NULL]
  <2>1. f \in Record /\ f.pc = "widget" /\ f.w = Top.w /\ f.delete = Top.delete
    BY <1>2 DEF Record, Pcs, Null
  <2>2. stack' = [stack EXCEPT ![Depth] = f]
    BY <1>7, Zenon DEF ClearDone, SetTop
  <2> HIDE DEF f
  <2>3. stack' = Append(Front(stack), f)
    BY <2>1, <2>2, <1>1, TopKnows
  <2>4. f.pc \in BusyPc /\ f.pc # "clear" /\ f.pc # "callback" /\ f.pc # "loop"
    BY <2>1 DEF BusyPc
  <2>5. children[f.w] = <<>>
    <3>1. children[Top.w] \in Seq(Widgets)
      BY <1>2, <1>3 DEF Typed
    <3> QED
      BY <3>1, <2>1, <1>3, <1>7
  <2>6. FrameOK(live, children, parent, Len(dwidgets), f)
    BY <2>1, <2>4, <2>5, <1>3, <1>7, Zenon DEF FrameOK
  <2>7. stack' \in Seq(Record)
    BY <2>1, <2>3, <1>2
  <2> QED
    BY <2>1, <2>3, <2>4, <2>6, <2>7, <1>1, <1>5, <1>6, TopKeeps
<1>8. CASE ~Top.delete
  <2>1. stack' = Front(stack)
    BY <1>8, Zenon DEF ClearDone
  <2>2. stack' \in Seq(Record)
    BY <2>1, <1>2
  <2>3. Top.pc # "loop"
    BY <1>1
  <2> QED
    BY <2>1, <2>2, <2>3, <1>1, <1>5, <1>6, <1>8, PopKeeps
<1> QED
  BY <1>7, <1>8

LEMMA CallbackReturnsKeeps ==
  ASSUME IInv, CallbackReturns
  PROVE  IInv'
<1>1. /\ stack # <<>> /\ Top.pc = "callback" /\ stack' = Front(stack)
      /\ UNCHANGED <<live, parent, children, savedfocus, focus, pushed, dwidgets, wanted>>
  BY DEF CallbackReturns, tree
<1>2. Front(stack) \in Seq(Record) /\ Typed /\ Tree
  BY <1>1, TopKnows
<1>3. Typed'
  BY <1>1, <1>2 DEF Typed, Record, Pcs, Null
<1>4. Tree'
  BY <1>1, <1>2 DEF Tree, TreeAgrees, Pointers
<1>5. Top.pc # "loop" /\ Top.pc \notin BusyPc
  BY <1>1 DEF BusyPc
<1> QED
  BY <1>1, <1>3, <1>4, <1>5, PopKeeps

\* Below the loop of do_widget_deletion() nothing is being deleted.
LEMMA LoopOnTop ==
  ASSUME IInv, stack # <<>>, Top.pc = "loop"
  PROVE  /\ \A j \in 1 .. Len(Front(stack)) : Front(stack)[j].pc = "callback"
         /\ BusyIn(Front(stack)) = {} /\ DyingIn(Front(stack)) = {}
         /\ \A n \in Nat : ~HandledIn(Front(stack), n)
         /\ BusyIn(stack) = {} /\ DyingIn(stack) = {}
         /\ \A n \in Nat : HandledIn(stack, n) <=> n <= Top.i
<1> DEFINE b == Front(stack)
<1>1. Top \in Record /\ b \in Seq(Record) /\ stack = Append(b, Top)
  BY TopKnows
<1> HIDE DEF b
<1>2. \A j \in 1 .. Len(b) : b[j].pc = "callback"
  BY <1>1, CallsAppend DEF IInv
<1>3. BusyIn(b) = {} /\ DyingIn(b) = {} /\ \A n \in Nat : ~HandledIn(b, n)
  BY <1>2 DEF BusyIn, DyingIn, HandledIn, BusyPc
<1>4. Top.pc \notin BusyPc
  BY DEF BusyPc
<1>5. BusyIn(stack) = {} /\ DyingIn(stack) = {} /\ \A n \in Nat : HandledIn(stack, n) <=> n <= Top.i
  BY <1>1, <1>3, <1>4, AppendSets
<1> QED
  BY <1>2, <1>3, <1>5 DEF b

LEMMA LoopStepKeeps ==
  ASSUME IInv, LoopStep
  PROVE  IInv'
<1> DEFINE b == Front(stack)
           f == [Top EXCEPT !.i = @ + 1]
<1>1. /\ stack # <<>> /\ Top.pc = "loop"
      /\ UNCHANGED <<live, parent, children, savedfocus, focus, pushed, wanted>>
  BY DEF LoopStep, tree
<1>2. /\ Top \in Record /\ FrameOK(live, children, parent, Len(dwidgets), Top)
      /\ b \in Seq(Record) /\ stack = Append(b, Top) /\ Typed /\ Tree
  BY <1>1, TopKnows
<1>3. /\ \A j \in 1 .. Len(b) : b[j].pc = "callback"
      /\ BusyIn(b) = {} /\ DyingIn(b) = {}
      /\ \A n \in Nat : ~HandledIn(b, n)
      /\ BusyIn(stack) = {} /\ DyingIn(stack) = {}
      /\ \A n \in Nat : HandledIn(stack, n) <=> n <= Top.i
  BY <1>1, LoopOnTop
<1>4. Top.i \in Nat /\ dwidgets \in Seq(Widgets) /\ Len(dwidgets) \in Nat
  BY <1>2 DEF Record, Typed
<1>5. Calls(live, children, parent, Len(dwidgets), b)
  BY <1>2, CallsAppend DEF IInv
<1>6. Tree'
  BY <1>1, <1>2 DEF Tree, TreeAgrees, Pointers
<1>7. ASSUME stack' \in Seq(Record), dwidgets' \in Seq(Widgets)
      PROVE  Typed'
  BY <1>1, <1>2, <1>7 DEF Typed, Record, Pcs, Null
<1>8. CASE Top.i < Len(dwidgets)
  <2> DEFINE m == Top.i + 1
             c == dwidgets[m]
             D == Destructor(c)
             s == Append(b, f)
  <2>1. m \in 1 .. Len(dwidgets) /\ m \in Nat /\ ~(m <= Top.i)
    BY <1>4, <1>8
  <2>2. c \in Widgets /\ c \in live /\ c \in Scheduled /\ c # Win
    <3>1. c \in Widgets /\ c \in Scheduled
      BY <2>1, <1>4 DEF Scheduled, ToSet
    <3>2. ~HandledIn(stack, m)
      BY <2>1, <1>3
    <3>3. c \in live
      BY <3>2, <2>1 DEF IInv, Lists, Awaited
    <3>4. c # Win
      BY <3>1 DEF IInv, Lists, Entered, Scheduled
    <3> QED
      BY <3>1, <3>3, <3>4
  <2>3. f \in Record /\ f.pc = "loop" /\ f.i = m
    <3>1. Top.i + 1 \in Nat
      BY <1>4
    <3> QED
      BY <3>1, <1>1, <1>2 DEF Record
  <2>4. stack' = Append([stack EXCEPT ![Depth] = f], D) /\ UNCHANGED dwidgets
    BY <1>8, Zenon DEF LoopStep, Top
  <2>5. [stack EXCEPT ![Depth] = f] = Append(b, f)
    BY <2>3, <1>1, TopKnows
  <2> HIDE DEF f, b
  <2>6. D \in Record /\ D.pc = "user" /\ D.w = c /\ D.delete = TRUE /\ D.pc \in BusyPc /\ D.pc # "loop"
    BY <2>2, DestructorIs DEF BusyPc
  <2> HIDE DEF c, D
  <2>7. s \in Seq(Record) /\ stack' = Append(s, D)
    <3>1. s \in Seq(Record)
      BY <2>3, <1>2
    <3> QED
      BY <3>1, <2>4, <2>5, Zenon
  <2>8. Typed'
    <3>1. Append(s, D) \in Seq(Record)
      BY <2>6, <2>7, AppendFacts
    <3>2. stack' \in Seq(Record)
      BY <3>1, <2>7, Zenon
    <3> QED
      BY <3>2, <2>4, <1>4, <1>7
  <2>9. /\ f.pc \notin BusyPc /\ f.pc \notin {"user", "widget"} /\ f.pc # "clear" /\ f.pc # "widget"
        /\ f.pc # "callback"
    BY <2>3 DEF BusyPc
  <2>10. f.i <= Len(dwidgets)
    BY <2>1, <2>3, <1>4
  <2>11. FrameOK(live, children, parent, Len(dwidgets), f)
    BY <2>9, <2>10, Zenon DEF FrameOK
  <2>12. b # <<>> => b[Len(b)].pc # "loop"
    BY <1>2, <1>3
  <2>13. \A j \in 1 .. Len(b) : Apart(parent, b[j], f)
    BY <2>9 DEF Apart
  <2>14. Calls(live, children, parent, Len(dwidgets), s)
    BY <2>3, <2>11, <2>12, <2>13, <1>2, <1>3, <1>5, CallsAppend
  <2>15. \A j \in 1 .. Len(s) : Apart(parent, s[j], D)
    <3> SUFFICES ASSUME NEW j \in 1 .. Len(s)
                 PROVE  s[j].pc \notin BusyPc /\ s[j].pc # "clear"
      BY DEF Apart
    <3>1. CASE j = Len(b) + 1
      BY <3>1, <2>3, <2>9, <1>2
    <3>2. CASE j # Len(b) + 1
      <4>1. j \in 1 .. Len(b) /\ s[j] = b[j]
        BY <3>2, <2>3, <1>2
      <4> QED
        BY <4>1, <1>3 DEF BusyPc
    <3> QED
      BY <3>1, <3>2
  <2>16. FrameOK(live, children, parent, Len(dwidgets), D)
    BY <2>2, <2>6 DEF FrameOK
  <2>17. /\ BusyIn(s) = {} /\ DyingIn(s) = {} /\ \A n \in Nat : HandledIn(s, n) <=> n <= m
    BY <2>3, <2>9, <1>2, <1>3, AppendSets
  <2> HIDE DEF s
  <2>18. Calls(live, children, parent, Len(dwidgets), Append(s, D))
    BY <2>6, <2>7, <2>14, <2>15, <2>16, CallsAppend, Zenon
  <2> DEFINE t == Append(s, D)
  <2>19. /\ BusyIn(t) = {c} /\ DyingIn(t) = {c} /\ \A n \in Nat : HandledIn(t, n) <=> n <= m
    BY <2>2, <2>6, <2>7, <2>17, AppendSets
  <2>20. Calls(live, children, parent, Len(dwidgets), t)
    BY <2>18
  <2> HIDE DEF t
  <2>21. \A n \in 1 .. Len(dwidgets) :
           /\ n \in Nat /\ (n <= m <=> n <= Top.i \/ n = m)
           /\ HandledIn(t, n) <=> HandledIn(stack, n) \/ n = m
    <3> SUFFICES ASSUME NEW n \in 1 .. Len(dwidgets)
                 PROVE  /\ n \in Nat /\ (n <= m <=> n <= Top.i \/ n = m)
                        /\ HandledIn(t, n) <=> HandledIn(stack, n) \/ n = m
      OBVIOUS
    <3>1. n \in Nat /\ (n <= m <=> n <= Top.i \/ n = m)
      BY <1>4
    <3> QED
      BY <3>1, <2>19, <1>3
  <2>22. Awaited(live, dwidgets, t)
    <3> SUFFICES ASSUME NEW n \in 1 .. Len(dwidgets)
                 PROVE  IF HandledIn(t, n) THEN dwidgets[n] \in live => dwidgets[n] \in DyingIn(t)
                        ELSE dwidgets[n] \in live /\ dwidgets[n] \notin DyingIn(t)
      BY DEF Awaited
    <3>1. IF HandledIn(stack, n) THEN dwidgets[n] \in live => dwidgets[n] \in DyingIn(stack)
          ELSE dwidgets[n] \in live /\ dwidgets[n] \notin DyingIn(stack)
      BY DEF IInv, Lists, Awaited
    <3>2. dwidgets[n] = c <=> n = m
      BY <2>1 DEF IInv, Lists, Entered, Distinct, c
    <3> QED
      BY <3>1, <3>2, <2>19, <2>21, <1>3
  <2>23. Promised(live, dwidgets, wanted)
    BY DEF IInv, Lists
  <2>24. Single(parent, ToSet(dwidgets), BusyIn(t))
    BY <2>2, <2>19 DEF IInv, Lists, Single, Scheduled
  <2>25. Lists(live, parent, dwidgets, wanted, t)
    BY <2>22, <2>23, <2>24, Zenon DEF IInv, Lists
  <2>26. stack' = t
    BY <2>7 DEF t
  <2> QED
    BY <2>4, <2>8, <2>20, <2>25, <2>26, <1>1, <1>6 DEF IInv
<1>9. CASE ~(Top.i < Len(dwidgets))
  <2>1. dwidgets' = <<>> /\ stack' = b
    BY <1>9, Zenon DEF LoopStep
  <2> HIDE DEF b
  <2>2. dwidgets' \in Seq(Widgets) /\ Len(dwidgets') = 0 /\ ToSet(dwidgets') = {}
    BY <2>1 DEF ToSet
  <2>3. Typed'
    BY <2>1, <2>2, <1>2, <1>7
  <2>4. \A k \in 1 .. Len(b) : FrameOK(live, children, parent, 0, b[k])
    BY <1>3, <1>5 DEF Calls, Framed, FrameOK
  <2>5. Calls(live, children, parent, 0, b)
    BY <2>4, <1>5 DEF Calls, Framed
  <2>6. wanted = {}
    <3> SUFFICES ASSUME NEW x \in wanted
                 PROVE  FALSE
      OBVIOUS
    <3>1. x \in live /\ x \in ToSet(dwidgets)
      BY DEF IInv, Lists, Promised
    <3>2. PICK n \in 1 .. Len(dwidgets) : dwidgets[n] = x
      BY <3>1, <1>4 DEF ToSet
    <3>3. n \in Nat /\ n <= Top.i
      BY <1>4, <1>9
    <3>4. x \in DyingIn(stack)
      BY <3>1, <3>2, <3>3, <1>3 DEF IInv, Lists, Awaited
    <3> QED
      BY <3>4, <1>3
  <2>7. Lists(live, parent, dwidgets', wanted, b)
    <3>1. Entered(dwidgets')
      BY <2>2 DEF Entered, Distinct
    <3>2. Awaited(live, dwidgets', b)
      BY <2>2 DEF Awaited
    <3>3. Promised(live, dwidgets', wanted)
      BY <2>6 DEF Promised
    <3>4. Single(parent, ToSet(dwidgets'), BusyIn(b))
      BY <2>2 DEF Single
    <3> QED
      BY <3>1, <3>2, <3>3, <3>4 DEF Lists
  <2> QED
    BY <2>1, <2>2, <2>3, <2>5, <2>7, <1>1, <1>6 DEF IInv
<1> QED
  BY <1>8, <1>9

\* What ~Fl_Widget() does to the calls: those that are no callbacks are as they
\* were, and the trackers of the others tell that w is gone.
Told(w) == Witness(w, clear_widget_pointer(w, Front(stack)))

LEMMA TrackersCleared ==
  ASSUME IInv, WInv, stack # <<>>, NEW w \in Widgets
  PROVE  /\ Told(w) \in Seq(Record) /\ Len(Told(w)) = Len(Front(stack))
         /\ \A k \in 1 .. Len(Front(stack)) :
              /\ Front(stack)[k].pc # "callback" => Told(w)[k] = Front(stack)[k]
              /\ Front(stack)[k].pc = "callback" => Tells(Told(w)[k])
              /\ Told(w)[k].pc = Front(stack)[k].pc /\ Told(w)[k].w = Front(stack)[k].w
              /\ Told(w)[k].i = Front(stack)[k].i /\ Told(w)[k].delete = Front(stack)[k].delete
<1> DEFINE b == Front(stack)
           y == clear_widget_pointer(w, b)
           z == Told(w)
<1>1. /\ b \in Seq(Record) /\ Len(b) = Depth - 1 /\ Depth \in Nat \ {0}
      /\ \A k \in 1 .. Depth - 1 : b[k] = stack[k]
  BY StackTop DEF IInv
<1>2. ASSUME NEW k \in 1 .. Len(b)
      PROVE  /\ b[k] \in Record
             /\ b[k].pc = "callback" <=> k \in ToSet(watch)
             /\ b[k].pc = "callback" => Tells(b[k])
  <2>1. k \in 1 .. Len(stack) /\ b[k] = stack[k]
    BY <1>1 DEF Depth
  <2> QED
    BY <2>1, <1>1 DEF WInv, Watched, CallbacksIn
<1>3. DOMAIN b = 1 .. Len(b) /\ Len(b) \in Nat
  BY <1>1
<1>4. /\ DOMAIN y = 1 .. Len(b)
      /\ \A k \in 1 .. Len(b) :
           y[k] = IF k \in ToSet(watch) /\ b[k].saved = w THEN [b[k] EXCEPT !.saved = NULL] ELSE b[k]
  BY <1>3 DEF clear_widget_pointer
<1> HIDE DEF y
<1>5. /\ z = [k \in 1 .. Len(b) |-> z[k]]
      /\ \A k \in 1 .. Len(b) :
           z[k] = [y[k] EXCEPT !.gone = y[k].gone \/ (y[k].pc = "callback" /\ y[k].w = w)]
  BY <1>4 DEF Told, Witness, y
<1> HIDE DEF z, b
<1>6. ASSUME NEW k \in 1 .. Len(b)
      PROVE  /\ z[k] \in Record
             /\ b[k].pc # "callback" => z[k] = b[k]
             /\ b[k].pc = "callback" => Tells(z[k])
             /\ z[k].pc = b[k].pc /\ z[k].w = b[k].w /\ z[k].i = b[k].i /\ z[k].delete = b[k].delete
  <2> DEFINE e == b[k]
             d == y[k]
             c == z[k]
             now == d.gone \/ (d.pc = "callback" /\ d.w = w)
  <2>1. /\ e \in Record /\ (e.pc = "callback" <=> k \in ToSet(watch))
        /\ e.pc = "callback" => Tells(e)
        /\ d = IF k \in ToSet(watch) /\ e.saved = w THEN [e EXCEPT !.saved = NULL] ELSE e
        /\ c = [d EXCEPT !.gone = now]
    BY <1>2, <1>4, <1>5
  <2> HIDE DEF e, d, c
  <2>2. /\ d \in Record /\ d.pc = e.pc /\ d.w = e.w /\ d.i = e.i /\ d.delete = e.delete /\ d.gone = e.gone
        /\ d.saved = IF e.pc = "callback" /\ e.saved = w THEN NULL ELSE e.saved
        /\ e.pc # "callback" => d = e
    <3>1. CASE e.pc = "callback" /\ e.saved = w
      BY <3>1, <2>1 DEF Record, Null
    <3>2. CASE ~(e.pc = "callback" /\ e.saved = w)
      <4>1. d = e
        BY <3>2, <2>1
      <4> QED
        BY <4>1, <3>2, <2>1
    <3> QED
      BY <3>1, <3>2
  <2>3. now \in BOOLEAN
    BY <2>2 DEF Record
  <2> HIDE DEF now
  <2>4. /\ c \in Record /\ c.pc = d.pc /\ c.w = d.w /\ c.i = d.i /\ c.delete = d.delete
        /\ c.saved = d.saved /\ c.gone = now
    BY <2>1, <2>2, <2>3 DEF Record
  <2>5. ASSUME e.pc # "callback"
        PROVE  c = e
    <3>1. now = d.gone
      BY <2>2, <2>5 DEF now, Record
    <3>2. c = d
      BY <3>1, <2>1, <2>2 DEF Record
    <3> QED
      BY <3>2, <2>2, <2>5
  <2>6. ASSUME e.pc = "callback"
        PROVE  Tells(c)
    <3>1. w # NULL /\ e.saved \in {e.w, NULL} /\ (e.gone <=> e.saved = NULL)
      BY <2>1, <2>6, WidgetsAssumption DEF Tells
    <3>2. now <=> e.gone \/ e.w = w
      BY <2>2, <2>6 DEF now
    <3>3. c.saved = IF e.saved = w THEN NULL ELSE e.saved
      BY <2>2, <2>4, <2>6
    <3>4. c.w = e.w /\ (c.gone <=> now)
      BY <2>2, <2>4
    <3> QED
      BY <3>1, <3>2, <3>3, <3>4 DEF Tells
  <2>7. /\ c \in Record /\ (e.pc # "callback" => c = e) /\ (e.pc = "callback" => Tells(c))
        /\ c.pc = e.pc /\ c.w = e.w /\ c.i = e.i /\ c.delete = e.delete
    BY <2>2, <2>4, <2>5, <2>6
  <2> QED
    BY <2>7 DEF c, e
<1>7. z \in Seq(Record) /\ Len(z) = Len(b)
  <2>1. z \in [1 .. Len(b) -> Record]
    BY <1>5, <1>6, Zenon
  <2> QED
    BY <2>1, <1>3
<1> QED
  BY <1>6, <1>7 DEF z, b

LEMMA DestroyKeeps ==
  ASSUME IInv, WInv, Destroy
  PROVE  IInv'
<1> DEFINE w == Top.w
           b == Front(stack)
           z == Told(w)
           o == Orphaned(w)
           lv == live \ {w}
<1>1. /\ stack # <<>> /\ Top.pc = "widget" /\ Top.pc \in BusyPc /\ UNCHANGED dwidgets
      /\ live' = lv /\ wanted' = wanted \ {w} /\ parent' = o.pa /\ children' = o.ch /\ stack' = z
      /\ ThrowFocus(w, o.pa, o.sf, focus, Takers(o.pa, lv, Scheduled \ {w}))
  BY DEF Destroy, BusyPc, Told
<1>2. /\ Top \in Record /\ FrameOK(live, children, parent, Len(dwidgets), Top)
      /\ b \in Seq(Record) /\ stack = Append(b, Top) /\ Typed /\ Tree
  BY <1>1, TopKnows
<1>3. w \in live /\ w # Win /\ Top.delete /\ (w \in Groups => children[w] = <<>>)
  BY <1>1, <1>2 DEF FrameOK
<1>4. /\ parent \in Parents /\ children \in Arrays /\ live \subseteq Widgets /\ w \in Widgets
      /\ dwidgets \in Seq(Widgets) /\ Len(dwidgets) \in Nat /\ TreeAgrees /\ Rooted(live, parent) /\ Pointers
  BY <1>2, <1>3, ParentIs DEF Typed, Tree
<1>5. ASSUME NEW x \in Widgets
      PROVE  parent[x] # w
  <2> SUFFICES ASSUME parent[x] = w
               PROVE  FALSE
    OBVIOUS
  <2>1. w \in Groups
    BY <1>4, WidgetsAssumption DEF Parents, Null
  <2>2. x \in ToSet(children[w])
    BY <1>4, <2>1, WidgetsAssumption DEF TreeAgrees
  <2> QED
    BY <2>1, <2>2, <1>3 DEF ToSet
<1>6. /\ o.pa = [parent EXCEPT ![w] = NULL] /\ o.pa \in Parents
      /\ o.ch \in Arrays /\ o.sf \in [Groups -> Null(Widgets)]
      /\ Agrees(o.pa, o.ch, lv) /\ AllSaved(o.sf, o.ch)
      /\ \A g \in Groups : Len(o.ch[g]) = IF g = parent[w] THEN Len(children[g]) - 1 ELSE Len(children[g])
  BY <1>2, <1>4, <1>5, OrphanedFacts DEF Pointers
<1>7. /\ z \in Seq(Record) /\ Len(z) = Len(b)
      /\ \A k \in 1 .. Len(b) :
           /\ b[k].pc # "callback" => z[k] = b[k]
           /\ z[k].pc = b[k].pc /\ z[k].w = b[k].w /\ z[k].i = b[k].i /\ z[k].delete = b[k].delete
  BY <1>1, <1>4, TrackersCleared
<1> DEFINE takers == Takers(o.pa, lv, Scheduled \ {w})
<1>8. takers \in SUBSET lv /\ ThrowFocus(w, o.pa, o.sf, focus, takers)
  BY <1>1 DEF Takers
<1>9. lv \in SUBSET Widgets /\ Win \in lv /\ lv \union {w} = live
  BY <1>3, <1>4 DEF Rooted
<1> HIDE DEF o, z, b, lv, takers
<1>10. /\ focus' \in Null(lv) /\ pushed' \in Null(lv)
       /\ savedfocus' \in [Groups -> Null(Widgets)] /\ AllSaved(savedfocus', o.ch)
  <2>1. focus \in Null(lv \union {w}) /\ pushed \in Null(lv \union {w})
    BY <1>4, <1>9 DEF Pointers
  <2> HIDE DEF w
  <2> QED
    BY <2>1, <1>4, <1>6, <1>8, <1>9, ThrowFocusFacts
<1>11. Typed'
  <2>1. focus' \in Widgets \union {NULL} /\ pushed' \in Widgets \union {NULL}
    BY <1>9, <1>10 DEF Null
  <2>2. wanted' \subseteq Widgets /\ live' \subseteq Widgets
    BY <1>1, <1>2, <1>9 DEF Typed
  <2> QED
    BY <2>1, <2>2, <1>1, <1>4, <1>6, <1>7, <1>10 DEF Typed, Parents, Arrays, Record, Pcs, Null
<1>12. Tree'
  <2>1. TreeAgrees'
    BY <1>1, <1>6, <1>11, TreeIsNext
  <2>2. Acyclic(o.pa)
    <3>1. Acyclic(parent) /\ o.pa = [parent EXCEPT ![w] = NULL]
      BY <1>4, <1>6 DEF Rooted
    <3> HIDE DEF w
    <3> QED
      BY <3>1, <1>4, CutAcyclic
  <2>3. o.pa[Win] = NULL
    <3>1. parent[Win] = NULL /\ Win \in Widgets
      BY <1>4, WidgetsAssumption DEF Rooted
    <3> QED
      BY <3>1, <1>4, <1>6 DEF Parents
  <2>4. Rooted(live, parent)'
    BY <2>2, <2>3, <1>1, <1>9 DEF Rooted
  <2>5. Pointers'
    BY <1>1, <1>10 DEF Pointers
  <2> QED
    BY <2>1, <2>4, <2>5 DEF Tree
<1>13. \A x \in Widgets : UpFrom(o.pa, x) \subseteq UpFrom(parent, x)
  BY <1>4, <1>6, UpCut
<1>14. Calls(live, children, parent, Len(dwidgets), b) /\ \A j \in 1 .. Len(b) : Apart(parent, b[j], Top)
  BY <1>2, CallsAppend DEF IInv
<1>15. ASSUME NEW k \in 1 .. Len(b)
       PROVE  /\ b[k].pc \in BusyPc => b[k].w \in lv
              /\ b[k].pc = "clear" => b[k].saved \in Null(lv)
  <2>1. Apart(parent, b[k], Top) /\ FrameOK(live, children, parent, Len(dwidgets), b[k])
    BY <1>14 DEF Calls, Framed
  <2>2. w \in UpFrom(parent, w) /\ w # NULL
    BY <1>4, UpClosed, WidgetsAssumption
  <2>3. b[k].pc \in BusyPc => b[k].w \in live /\ b[k].w # w
    BY <2>1, <2>2, <1>1 DEF FrameOK, Apart
  <2>4. b[k].pc = "clear" => b[k].saved \in Null(live) /\ b[k].saved # w
    BY <2>1, <2>2, <1>1, <1>3 DEF FrameOK, Apart
  <2> QED
    BY <2>3, <2>4 DEF lv, Null
<1>16. Calls(lv, o.ch, o.pa, Len(dwidgets), b)
  <2>1. /\ \A k \in 1 .. Len(b) : b[k].pc \in BusyPc => b[k].w \in lv
        /\ \A k \in 1 .. Len(b) : b[k].pc = "clear" => b[k].saved \in Null(lv)
    BY <1>15
  <2>2. \A x \in Groups \intersect ClearingIn(b) : Len(o.ch[x]) <= Len(children[x])
    <3>1. \A x \in Groups : Len(children[x]) \in Nat
      BY <1>2 DEF Typed
    <3> QED
      BY <3>1, <1>6
  <2>3. o.ch \in Arrays /\ Len(dwidgets) <= Len(dwidgets) /\ live \in SUBSET Widgets
    BY <1>4, <1>6
  <2> QED
    BY <2>1, <2>2, <2>3, <1>2, <1>4, <1>13, <1>14, CallsKeep
<1>17. Calls(lv, o.ch, o.pa, Len(dwidgets), z)
  <2>1. ASSUME NEW k \in 1 .. Len(z)
        PROVE  FrameOK(lv, o.ch, o.pa, Len(dwidgets), z[k])
    <3>1. k \in 1 .. Len(b) /\ FrameOK(lv, o.ch, o.pa, Len(dwidgets), b[k])
      BY <1>7, <1>16 DEF Calls, Framed
    <3>2. CASE b[k].pc # "callback"
      BY <3>1, <3>2, <1>7
    <3>3. CASE b[k].pc = "callback"
      <4>1. z[k].pc = "callback" /\ z[k].w = b[k].w /\ b[k].w \in Widgets
        BY <3>1, <3>3, <1>7 DEF FrameOK
      <4>2. /\ z[k].pc \notin BusyPc /\ z[k].pc \notin {"user", "widget"} /\ z[k].pc # "clear"
            /\ z[k].pc # "widget" /\ z[k].pc # "loop"
        BY <4>1 DEF BusyPc
      <4> QED
        BY <4>1, <4>2 DEF FrameOK
    <3> QED
      BY <3>2, <3>3
  <2>2. ASSUME NEW j \in 1 .. Len(z), NEW k \in 1 .. Len(z), j < k
        PROVE  Apart(o.pa, z[j], z[k])
    <3>1. j \in 1 .. Len(b) /\ k \in 1 .. Len(b) /\ Apart(o.pa, b[j], b[k])
      BY <2>2, <1>7, <1>16 DEF Calls, Nested
    <3>2. CASE b[j].pc # "callback"
      BY <3>1, <3>2, <1>7 DEF Apart
    <3>3. CASE b[j].pc = "callback"
      BY <3>1, <3>3, <1>7 DEF Apart, BusyPc
    <3> QED
      BY <3>1, <3>2, <3>3, <1>7
  <2>3. Looped(z)
    <3> SUFFICES ASSUME NEW k \in 1 .. Len(z), z[k].pc = "loop"
                 PROVE  /\ \A j \in 1 .. k - 1 : z[j].pc = "callback"
                        /\ k < Len(z) => z[k + 1].pc \in BusyPc
      BY DEF Looped
    <3>1. /\ Len(b) \in Nat /\ k \in 1 .. Len(b) /\ b[k].pc = "loop"
          /\ \A j \in 1 .. k - 1 : j \in 1 .. Len(b)
          /\ k < Len(b) => k + 1 \in 1 .. Len(b)
      BY <1>2, <1>7
    <3> QED
      BY <3>1, <1>7, <1>16 DEF Calls, Looped
  <2> QED
    BY <2>1, <2>2, <2>3 DEF Calls, Framed, Nested
<1>18. /\ BusyIn(z) = BusyIn(b) /\ DyingIn(z) = DyingIn(b)
       /\ \A n \in Nat : HandledIn(z, n) <=> HandledIn(b, n)
  BY <1>7 DEF BusyIn, DyingIn, HandledIn
<1>19. /\ BusyIn(stack) = BusyIn(b) \union {w} /\ DyingIn(stack) = DyingIn(b) \union {w}
       /\ \A n \in Nat : HandledIn(stack, n) <=> HandledIn(b, n)
  <2>1. Top.pc # "loop"
    BY <1>1
  <2> QED
    BY <2>1, <1>1, <1>2, <1>3, <1>4, AppendSets
<1>20. w \notin DyingIn(b)
  BY <1>15 DEF DyingIn, lv
<1>21. \A n \in 1 .. Len(dwidgets) : HandledIn(z, n) <=> HandledIn(stack, n)
  BY <1>18, <1>19
<1>22. Lists(lv, o.pa, dwidgets, wanted \ {w}, z)
  <2>1. Awaited(lv, dwidgets, z)
    <3> SUFFICES ASSUME NEW n \in 1 .. Len(dwidgets)
                 PROVE  IF HandledIn(z, n) THEN dwidgets[n] \in lv => dwidgets[n] \in DyingIn(z)
                        ELSE dwidgets[n] \in lv /\ dwidgets[n] \notin DyingIn(z)
      BY DEF Awaited
    <3>1. IF HandledIn(stack, n) THEN dwidgets[n] \in live => dwidgets[n] \in DyingIn(stack)
          ELSE dwidgets[n] \in live /\ dwidgets[n] \notin DyingIn(stack)
      BY DEF IInv, Lists, Awaited
    <3> QED
      BY <3>1, <1>18, <1>19, <1>21 DEF lv
  <2>2. Promised(lv, dwidgets, wanted \ {w})
    BY DEF IInv, Lists, Promised, lv
  <2>3. Single(o.pa, ToSet(dwidgets), BusyIn(z))
    <3>1. ToSet(dwidgets) \subseteq Widgets
      BY <1>4 DEF ToSet
    <3> QED
      BY <3>1, <1>13, <1>18, <1>19 DEF IInv, Lists, Single
  <2> QED
    BY <2>1, <2>2, <2>3 DEF IInv, Lists
<1> QED
  BY <1>1, <1>11, <1>12, <1>17, <1>22 DEF IInv
-----------------------------------------------------------------------------
LEMMA InitKeeps == Init => IInv
<1> SUFFICES ASSUME Init
             PROVE  IInv
  OBVIOUS
<1>1. Typed
  <2>1. <<>> \in Seq(Widgets) /\ <<>> \in Seq(Record)
    OBVIOUS
  <2> QED
    BY <2>1, WidgetsAssumption DEF Init, Typed, Record, Pcs, Null
<1>2. Tree
  <2>1. TreeAgrees
    BY WidgetsAssumption DEF Init, TreeAgrees, ToSet
  <2>2. Rooted(live, parent) /\ Pointers
    BY WidgetsAssumption DEF Init, Rooted, Acyclic, Pointers, AllSaved, Null
  <2> QED
    BY <2>1, <2>2 DEF Tree
<1>3. stack = <<>> /\ dwidgets = <<>> /\ wanted = {} /\ Len(stack) = 0 /\ Len(dwidgets) = 0 /\ ToSet(dwidgets) = {}
  BY DEF Init, ToSet
<1>4. Calls(live, children, parent, Len(dwidgets), stack)
  BY <1>3 DEF Calls, Framed, Looped, Nested
<1>5. Lists(live, parent, dwidgets, wanted, stack)
  BY <1>3 DEF Lists, Entered, Distinct, Awaited, Promised, Single
<1> QED
  BY <1>1, <1>2, <1>4, <1>5 DEF IInv

LEMMA NextKeeps ==
  ASSUME IInv, WInv, ~Adding, [Next]_vars
  PROVE  IInv'
<1>1. CASE UNCHANGED vars
  BY <1>1 DEF vars, tree, IInv, Typed, Tree, TreeAgrees, Pointers
<1>2. CASE UserCall
  <2>1. ASSUME NEW w \in Widgets, Focus(w) \/ RemoveChild(w) \/ delete_widget(w) \/ Delete(w) \/ do_callback(w)
        PROVE  IInv'
    BY <2>1, FocusKeeps, RemoveChildKeeps, delete_widgetKeeps, DeleteKeeps, do_callbackKeeps
  <2>2. ASSUME NEW w \in Widgets, NEW g \in Groups \union {NULL}, New(w, g)
        PROVE  IInv'
    BY <2>2, NewKeeps DEF Null
  <2>3. ASSUME NEW w \in Widgets, NEW g \in Groups, Insert(g, w)
        PROVE  IInv'
    BY <2>3, InsertKeeps
  <2>4. ASSUME NEW w \in Widgets \union {NULL}, SetPushed(w)
        PROVE  IInv'
    BY <2>4, SetPushedKeeps DEF Null
  <2>5. ASSUME NEW g \in Groups, Clear(g)
        PROVE  IInv'
    BY <2>5, ClearKeeps
  <2> QED
    BY <1>2, <2>1, <2>2, <2>3, <2>4, <2>5, Zenon DEF UserCall
<1>3. CASE BeginLoop
  BY <1>3, BeginLoopKeeps
<1>4. CASE Step
  BY <1>4, UserDoneKeeps, ClearStepKeeps, ClearDoneKeeps, DestroyKeeps, CallbackReturnsKeeps, LoopStepKeeps
     DEF Step
<1> QED
  BY <1>1, <1>2, <1>3, <1>4 DEF Next

\* A call that is no callback has no tracker.
LEMMA WatchedAppend ==
  ASSUME NEW wa, NEW s \in Seq(Record), NEW f \in Record, f.pc # "callback"
  PROVE  Watched(wa, Append(s, f)) <=> Watched(wa, s)
<1> DEFINE t == Append(s, f)
           m == Len(s) + 1
<1>1. Len(s) \in Nat /\ Len(t) = m /\ t[m] = f /\ \A k \in 1 .. Len(s) : t[k] = s[k]
  BY AppendFacts
<1>2. 1 .. m = (1 .. Len(s)) \union {m}
  BY <1>1
<1> HIDE DEF t, m
<1>3. CallbacksIn(t) = CallbacksIn(s)
  BY <1>1, <1>2 DEF CallbacksIn
<1>4. \A k \in CallbacksIn(s) : t[k] = s[k]
  BY <1>1 DEF CallbacksIn
<1>5. Watched(wa, t) <=> Watched(wa, s)
  BY <1>3, <1>4 DEF Watched
<1> QED
  BY <1>5 DEF t

\* A callback has one, which points to its widget.
LEMMA do_callbackWatched ==
  ASSUME IInv, WInv, NEW w \in Widgets, do_callback(w)
  PROVE  WInv'
<1> DEFINE e == Frame("callback", w)
           f == [e EXCEPT !.saved = w]
           p == Depth + 1
<1>1. e \in Record /\ e.pc = "callback" /\ e.w = w /\ e.gone = FALSE
  BY FrameIs DEF Frame, Pcs, Null
<1>2. stack' = Append(stack, f) /\ UNCHANGED lost /\ watch_widget_pointer(p)
  BY DEF do_callback, Push, tree
<1> HIDE DEF e
<1>3. f \in Record /\ f.pc = "callback" /\ Tells(f)
  <2>1. f \in Record /\ f.pc = "callback" /\ f.w = w /\ f.saved = w /\ f.gone = FALSE
    BY <1>1 DEF Record, Null
  <2> HIDE DEF f
  <2>2. w # NULL
    BY WidgetsAssumption
  <2> QED
    BY <2>1, <2>2 DEF Tells
<1> HIDE DEF f
<1>4. stack \in Seq(Record) /\ Depth = Len(stack) /\ Depth \in Nat
  BY ParentIs DEF IInv, Depth
<1>5. /\ Len(stack') = p /\ stack'[p] = f /\ p \in Nat
      /\ \A k \in 1 .. Depth : stack'[k] = stack[k]
  BY <1>2, <1>3, <1>4, AppendFacts
<1>6. 1 .. p = (1 .. Depth) \union {p} /\ p \notin 1 .. Depth
  BY <1>4
<1> HIDE DEF p
<1>7. CallbacksIn(stack') = CallbacksIn(stack) \union {p} /\ p \notin CallbacksIn(stack)
  BY <1>3, <1>4, <1>5, <1>6 DEF CallbacksIn
<1>8. /\ watch \in Seq(Nat) /\ Distinct(watch) /\ ToSet(watch) = CallbacksIn(stack)
      /\ \A k \in CallbacksIn(stack) : Tells(stack[k])
  BY DEF WInv, Watched
<1>9. watch' = Append(watch, p)
  BY <1>2, <1>7, <1>8 DEF watch_widget_pointer
<1>10. watch' \in Seq(Nat) /\ ToSet(watch') = CallbacksIn(stack')
  BY <1>5, <1>7, <1>8, <1>9, ToSetAppend
<1>11. Distinct(watch')
  <2>1. \A i \in 1 .. Len(watch) : watch[i] # p
    BY <1>7, <1>8 DEF ToSet
  <2> QED
    BY <2>1, <1>5, <1>8, <1>9 DEF Distinct
<1>12. \A k \in CallbacksIn(stack') : Tells(stack'[k])
  BY <1>3, <1>4, <1>5, <1>7, <1>8 DEF CallbacksIn
<1> QED
  BY <1>2, <1>10, <1>11, <1>12 DEF WInv, Watched

LEMMA CallbackReturnsWatched ==
  ASSUME IInv, WInv, CallbackReturns
  PROVE  WInv'
<1> DEFINE b == Front(stack)
           S == ToSet(watch) \ {Depth}
<1>1. /\ stack # <<>> /\ Top.pc = "callback" /\ stack' = b /\ UNCHANGED lost
      /\ watch' = Kept(watch, S)
  BY DEF CallbackReturns, release_widget_pointer, tree
<1>2. /\ Depth \in Nat \ {0} /\ Depth = Len(stack) /\ Len(b) = Depth - 1
      /\ \A k \in 1 .. Depth - 1 : b[k] = stack[k]
  BY <1>1, StackTop DEF IInv, Depth
<1>3. 1 .. Depth = (1 .. Depth - 1) \union {Depth} /\ Depth \notin 1 .. Depth - 1
  BY <1>2
<1>4. /\ watch \in Seq(Nat) /\ Distinct(watch) /\ ToSet(watch) = CallbacksIn(stack)
      /\ \A k \in CallbacksIn(stack) : Tells(stack[k])
  BY DEF WInv, Watched
<1> HIDE DEF b
<1>5. CallbacksIn(b) = S /\ \A k \in S : b[k] = stack[k]
  BY <1>2, <1>3, <1>4 DEF CallbacksIn
<1> HIDE DEF S
<1>6. watch' \in Seq(Nat) /\ Distinct(watch')
  BY <1>1, <1>4, KeptType, KeptDistinct
<1>7. ToSet(watch') = ToSet(watch) \intersect S
  BY <1>1, <1>4, KeptSet
<1>8. ToSet(watch') = S
  BY <1>7 DEF S
<1>9. \A k \in CallbacksIn(b) : Tells(b[k])
  BY <1>4, <1>5 DEF S
<1> QED
  BY <1>1, <1>5, <1>6, <1>8, <1>9 DEF WInv, Watched

LEMMA DestroyWatched ==
  ASSUME IInv, WInv, Destroy
  PROVE  WInv'
<1> DEFINE b == Front(stack)
           z == Told(Top.w)
<1>1. /\ stack # <<>> /\ Top.pc = "widget" /\ stack' = z /\ UNCHANGED watch
      /\ lost' = lost \ {Top.w}
  BY DEF Destroy, Told
<1>2. /\ Top \in Record /\ FrameOK(live, children, parent, Len(dwidgets), Top)
      /\ b \in Seq(Record) /\ stack = Append(b, Top) /\ Typed
  BY <1>1, TopKnows
<1>3. Top.w \in Widgets
  BY <1>1, <1>2 DEF FrameOK, BusyPc, Typed
<1>4. /\ z \in Seq(Record) /\ Len(z) = Len(b)
      /\ \A k \in 1 .. Len(b) : z[k].pc = b[k].pc /\ (b[k].pc = "callback" => Tells(z[k]))
  BY <1>1, <1>3, TrackersCleared
<1> HIDE DEF b, z
<1>5. Watched(watch, b)
  <2>1. Top.pc # "callback"
    BY <1>1
  <2> QED
    BY <2>1, <1>2, WatchedAppend DEF WInv
<1>6. CallbacksIn(z) = CallbacksIn(b) /\ \A k \in CallbacksIn(z) : Tells(z[k])
  BY <1>4 DEF CallbacksIn
<1> QED
  BY <1>1, <1>5, <1>6 DEF WInv, Watched

\* The other calls that end, go on or are made.
LEMMA WatchedRest ==
  ASSUME IInv, WInv, BeginLoop \/ UserDone \/ ClearStep \/ ClearDone \/ LoopStep
                     \/ (\E w \in Widgets : Delete(w)) \/ (\E g \in Groups : Clear(g))
  PROVE  WInv'
<1> DEFINE b == Front(stack)
           Plain == {f \in Record : f.pc # "callback"}
<1>1. stack \in Seq(Record) /\ Typed
  BY ParentIs DEF IInv
<1>2. \A s \in Seq(Record) : \A f \in Plain : Append(s, f) \in Seq(Record) /\ (Watched(watch, Append(s, f)) <=> Watched(watch, s))
  BY WatchedAppend
<1>3. /\ stack # <<>> => Top \in Record /\ b \in Seq(Record) /\ stack = Append(b, Top)
      /\ stack # <<>> => \A f \in Record : [stack EXCEPT ![Depth] = f] = Append(b, f)
  BY TopKnows
<1>4. \A w \in Widgets : Destructor(w) \in Plain
  BY DestructorIs
<1>5. stack # <<>> /\ Top.pc # "callback" => Top \in Plain /\ Watched(watch, b)
  BY <1>2, <1>3 DEF WInv
<1> HIDE DEF b, Plain
<1>6. ASSUME NEW w \in Widgets, Delete(w)
      PROVE  WInv'
  <2>1. stack' = Append(stack, Destructor(w)) /\ UNCHANGED <<watch, lost>>
    BY <1>6 DEF Delete, Push, tree
  <2> QED
    BY <2>1, <1>1, <1>2, <1>4 DEF WInv
<1>7. ASSUME NEW g \in Groups, Clear(g)
      PROVE  WInv'
  <2> DEFINE f == Frame("clear", g)
  <2>1. f \in Record /\ f.w = g /\ f.delete = FALSE
    BY WidgetsAssumption, FrameIs DEF Frame, Pcs, Null
  <2>2. g \in live /\ EnterClear(stack, f)
    BY <1>7 DEF Clear
  <2> HIDE DEF f
  <2>3. stack' = Append(stack, Cleared(f)) /\ Cleared(f) \in Record /\ Cleared(f).pc = "clear"
    BY <2>1, <2>2, <1>1, EnterClearFacts
  <2>4. Cleared(f) \in Plain
    BY <2>3 DEF Plain
  <2>5. UNCHANGED <<watch, lost>>
    BY <2>2 DEF EnterClear
  <2> QED
    BY <2>3, <2>4, <2>5, <1>1, <1>2 DEF WInv
<1>8. CASE BeginLoop
  <2>1. stack' = Append(stack, Frame("loop", NULL)) /\ UNCHANGED <<watch, lost>>
    BY <1>8 DEF BeginLoop, Push, tree
  <2>2. Frame("loop", NULL) \in Plain
    BY FrameIs DEF Frame, Pcs, Null, Plain
  <2> QED
    BY <2>1, <2>2, <1>1, <1>2 DEF WInv
<1>9. CASE UserDone
  <2>1. stack # <<>> /\ Top.pc = "user" /\ Top.pc # "callback"
    BY <1>9 DEF UserDone
  <2>2. FrameOK(live, children, parent, Len(dwidgets), Top)
    BY <2>1, TopKnows
  <2>3. CASE Top.w \in Groups
    <3>1. EnterClear(b, Top)
      BY <2>3, <1>9 DEF UserDone, b
    <3>2. Top.w \in live /\ (Top.delete => Top.w # Win)
      BY <2>1, <2>2 DEF FrameOK, BusyPc
    <3>3. stack' = Append(b, Cleared(Top)) /\ Cleared(Top) \in Record /\ Cleared(Top).pc = "clear"
      BY <3>1, <3>2, <2>1, <2>3, <1>3, EnterClearFacts
    <3>4. Cleared(Top) \in Plain
      BY <3>3 DEF Plain
    <3>5. UNCHANGED <<watch, lost>>
      BY <3>1 DEF EnterClear
    <3> QED
      BY <3>3, <3>4, <3>5, <2>1, <1>2, <1>3, <1>5 DEF WInv
  <2>4. CASE Top.w \notin Groups
    <3> DEFINE f == [Top EXCEPT !.pc = "widget"]
    <3>1. f \in Record /\ f.pc = "widget"
      BY <2>1, <1>3 DEF Record, Pcs
    <3>2. stack' = [stack EXCEPT ![Depth] = f] /\ UNCHANGED <<watch, lost>>
      BY <2>4, <1>9, Zenon DEF UserDone, SetTop, tree
    <3> HIDE DEF f
    <3>3. f \in Plain /\ stack' = Append(b, f)
      BY <3>1, <3>2, <2>1, <1>3 DEF Plain
    <3> QED
      BY <3>2, <3>3, <2>1, <1>2, <1>3, <1>5 DEF WInv
  <2> QED
    BY <2>3, <2>4
<1>10. CASE ClearStep
  <2> DEFINE f == [Top EXCEPT !.i = @ - 1]
  <2>1. stack # <<>> /\ Top.pc = "clear" /\ Top.pc # "callback" /\ Top.i > 0 /\ UNCHANGED <<watch, lost>>
    BY <1>10 DEF ClearStep, tree
  <2>2. FrameOK(live, children, parent, Len(dwidgets), Top)
    BY <2>1, TopKnows
  <2>3. f \in Record /\ f.pc = "clear"
    <3>1. Top.i - 1 \in Nat
      BY <2>1, <1>3 DEF Record
    <3> QED
      BY <3>1, <2>1, <1>3 DEF Record
  <2>4. f \in Plain /\ [stack EXCEPT ![Depth] = f] = Append(b, f)
    BY <2>1, <2>3, <1>3 DEF Plain
  <2>5. Append(b, f) \in Seq(Record) /\ Watched(watch, Append(b, f))
    BY <2>1, <2>4, <1>2, <1>3, <1>5
  <2>6. CASE Top.i > Len(children[Top.w])
    <3>1. stack' = [stack EXCEPT ![Depth] = f]
      BY <2>6, <1>10, Zenon DEF ClearStep, SetTop
    <3> QED
      BY <3>1, <2>1, <2>4, <2>5 DEF WInv
  <2>7. CASE ~(Top.i > Len(children[Top.w]))
    <3> DEFINE c == children[Top.w][Top.i]
    <3>1. stack' = Append([stack EXCEPT ![Depth] = f], Destructor(c))
      BY <2>7, <1>10, Zenon DEF ClearStep, Top
    <3>2. c \in Widgets
      <4>1. children[Top.w] \in Seq(Widgets) /\ Top.i \in Nat
        BY <2>1, <2>2, <1>1, <1>3 DEF FrameOK, Typed, Record
      <4>2. Len(children[Top.w]) \in Nat
        BY <4>1
      <4>3. Top.i \in 1 .. Len(children[Top.w])
        BY <4>1, <4>2, <2>1, <2>7
      <4> QED
        BY <4>1, <4>3
    <3> HIDE DEF c, f
    <3>3. stack' = Append(Append(b, f), Destructor(c))
      BY <3>1, <2>4, Zenon
    <3> QED
      BY <3>2, <3>3, <2>1, <2>5, <1>2, <1>4 DEF WInv
  <2> QED
    BY <2>6, <2>7
<1>11. CASE ClearDone
  <2>1. /\ stack # <<>> /\ Top.pc = "clear" /\ Top.pc # "callback" /\ Top.i = 0 /\ UNCHANGED watch
        /\ lost' = IF children[Top.w] = <<>> THEN lost ELSE lost \union {Top.w}
    BY <1>11 DEF ClearDone
  <2>2. Top.w \in Groups /\ Len(children[Top.w]) <= 0
    BY <2>1, TopKnows DEF FrameOK
  <2>3. children[Top.w] \in Seq(Widgets)
    BY <2>2, <1>1 DEF Typed
  <2>4. lost' = {}
    BY <2>1, <2>2, <2>3 DEF WInv
  <2>5. CASE Top.delete
    <3> DEFINE f == [Top EXCEPT !.pc = "widget", !.saved = NULL]
    <3>1. f \in Record /\ f.pc = "widget"
      BY <2>1, <1>3 DEF Record, Pcs, Null
    <3>2. stack' = [stack EXCEPT ![Depth] = f]
      BY <2>5, <1>11, Zenon DEF ClearDone, SetTop
    <3> HIDE DEF f
    <3>3. f \in Plain /\ stack' = Append(b, f)
      BY <3>1, <3>2, <2>1, <1>3 DEF Plain
    <3> QED
      BY <3>3, <2>1, <2>4, <1>2, <1>3, <1>5 DEF WInv
  <2>6. CASE ~Top.delete
    <3>1. stack' = b
      BY <2>6, <1>11, Zenon DEF ClearDone, b
    <3> QED
      BY <3>1, <2>1, <2>4, <1>5 DEF WInv
  <2> QED
    BY <2>5, <2>6
<1>12. CASE LoopStep
  <2> DEFINE f == [Top EXCEPT !.i = @ + 1]
  <2>1. stack # <<>> /\ Top.pc = "loop" /\ Top.pc # "callback" /\ UNCHANGED <<watch, lost>>
    BY <1>12 DEF LoopStep, tree
  <2>2. f \in Record /\ f.pc = "loop"
    <3>1. Top.i + 1 \in Nat
      BY <2>1, <1>3 DEF Record
    <3> QED
      BY <3>1, <2>1, <1>3 DEF Record
  <2>3. f \in Plain /\ [stack EXCEPT ![Depth] = f] = Append(b, f)
    BY <2>1, <2>2, <1>3 DEF Plain
  <2>4. Append(b, f) \in Seq(Record) /\ Watched(watch, Append(b, f))
    BY <2>1, <2>3, <1>2, <1>3, <1>5
  <2>5. CASE Top.i < Len(dwidgets)
    <3> DEFINE c == dwidgets[Top.i + 1]
    <3>1. stack' = Append([stack EXCEPT ![Depth] = f], Destructor(c))
      BY <2>5, <1>12, Zenon DEF LoopStep, Top
    <3>2. c \in Widgets
      <4>1. dwidgets \in Seq(Widgets) /\ Top.i \in Nat
        BY <2>1, <1>1, <1>3 DEF Typed, Record
      <4>2. Top.i + 1 \in 1 .. Len(dwidgets)
        BY <4>1, <2>5
      <4> QED
        BY <4>1, <4>2
    <3> HIDE DEF c, f
    <3>3. stack' = Append(Append(b, f), Destructor(c))
      BY <3>1, <2>3, Zenon
    <3> QED
      BY <3>2, <3>3, <2>1, <2>4, <1>2, <1>4 DEF WInv
  <2>6. CASE ~(Top.i < Len(dwidgets))
    <3>1. stack' = b
      BY <2>6, <1>12, Zenon DEF LoopStep, b
    <3> QED
      BY <3>1, <2>1, <1>5 DEF WInv
  <2> QED
    BY <2>5, <2>6
<1> QED
  BY <1>6, <1>7, <1>8, <1>9, <1>10, <1>11, <1>12

LEMMA NextWatched ==
  ASSUME IInv, WInv, [Next]_vars
  PROVE  WInv'
<1>1. ASSUME UNCHANGED <<stack, watch, lost>>
      PROVE  WInv'
  BY <1>1 DEF WInv
<1>2. CASE UNCHANGED vars
  BY <1>1, <1>2 DEF vars, tree
<1>3. CASE UserCall
  <2>1. ASSUME NEW w \in Widgets, Focus(w) \/ RemoveChild(w) \/ delete_widget(w)
        PROVE  WInv'
    BY <2>1, <1>1 DEF Focus, RemoveChild, delete_widget
  <2>2. ASSUME NEW w \in Widgets, Delete(w) \/ do_callback(w)
        PROVE  WInv'
    BY <2>2, WatchedRest, do_callbackWatched
  <2>3. ASSUME NEW w \in Widgets, NEW g \in Groups \union {NULL}, New(w, g)
        PROVE  WInv'
    BY <2>3, <1>1 DEF New
  <2>4. ASSUME NEW w \in Widgets, NEW g \in Groups, Insert(g, w)
        PROVE  WInv'
    BY <2>4, <1>1 DEF Insert
  <2>5. ASSUME NEW w \in Widgets \union {NULL}, SetPushed(w)
        PROVE  WInv'
    BY <2>5, <1>1 DEF SetPushed, tree
  <2>6. ASSUME NEW g \in Groups, Clear(g)
        PROVE  WInv'
    BY <2>6, WatchedRest
  <2> QED
    BY <1>3, <2>1, <2>2, <2>3, <2>4, <2>5, <2>6, Zenon DEF UserCall
<1>4. CASE BeginLoop
  BY <1>4, WatchedRest
<1>5. CASE Step
  BY <1>5, WatchedRest, DestroyWatched, CallbackReturnsWatched DEF Step
<1> QED
  BY <1>2, <1>3, <1>4, <1>5 DEF Next

LEMMA InitWatched == Init => WInv
BY DEF Init, WInv, Watched, CallbacksIn, Distinct, ToSet

\* The inductive invariant holds in every behaviour, for any number of widgets and
\* any depth of nested calls and callbacks, if nobody puts a widget into a group
\* while its clear() is under way.
THEOREM InvariantHolds == ~Adding /\ Spec => [](IInv /\ WInv)
<1> DEFINE J == ~Adding /\ IInv /\ WInv
<1>1. ~Adding /\ Init => J
  BY InitKeeps, InitWatched
<1>2. J /\ [Next]_vars => J'
  BY NextKeeps, NextWatched
<1>3. J => IInv /\ WInv
  OBVIOUS
<1> QED
  BY <1>1, <1>2, <1>3, PTL DEF Spec

\* No pointer dangles although destructors run the program's code, by the rules of
\* FlWidgets and if nobody puts a widget into a group while its clear() is under
\* way: parent_, children(), savedfocus_, focus_ and pushed_ name widgets that exist
\* and agree with each other, and clear() frees no array that has children
\* (Fl_Group::remove(), clear(), fl_throw_focus()).
THEOREM PointersAreGood == ~Adding /\ Spec => []NoDangling
<1>1. IInv /\ WInv => NoDangling
  <2> SUFFICES ASSUME IInv, WInv
               PROVE  NoDangling
    OBVIOUS
  <2>1. TypeOK
    BY DEF IInv, WInv, Watched, Typed, TypeOK
  <2> QED
    BY <2>1 DEF IInv, WInv, Tree, Pointers, AllSaved, NoDangling, Null
<1> QED
  BY <1>1, InvariantHolds, PTL

\* No widget is deleted twice and none that is gone is deleted: not by a group that
\* clears its children, nor by delete, nor by do_widget_deletion(); and ~Fl_Group()
\* leaves no children behind.  By the same rules.
THEOREM NoneDeletedTwice == ~Adding /\ Spec => []DeletedOnce
<1>1. ASSUME IInv
      PROVE  DeletedOnce
  <2>1. /\ Busy = BusyIn(stack) /\ Dying = DyingIn(stack) /\ BusyIn(stack) \subseteq live
        /\ \A n \in 1 .. Len(dwidgets) : Handled(n) <=> HandledIn(stack, n)
    BY <1>1, SetsAre
  <2>2. Busy \subseteq live
    BY <2>1
  <2>3. \A n \in 1 .. Len(dwidgets) : ~Handled(n) => dwidgets[n] \in live \ Dying
    BY <2>1, <1>1 DEF IInv, Lists, Awaited
  <2>4. Depth \in Nat /\ Depth = Len(stack) /\ parent \in Parents /\ live \subseteq Widgets
    BY <1>1, ParentIs DEF IInv, Typed, Depth
  <2>5. \A i \in Acting : i \in 1 .. Len(stack) /\ stack[i].pc \in BusyPc
    BY <2>4 DEF Acting, Frames, BusyPc
  <2>6. ASSUME NEW i \in Acting, NEW j \in Acting, i < j
        PROVE  stack[i].w # stack[j].w
    <3>1. Apart(parent, stack[i], stack[j])
      BY <1>1, <2>5, <2>6 DEF IInv, Calls, Nested
    <3>2. stack[i].w \in Widgets
      BY <1>1, <2>4, <2>5, FrameKnows
    <3>3. stack[i].w \in UpFrom(parent, stack[i].w)
      BY <3>2, <2>4, UpClosed
    <3> QED
      BY <3>1, <3>3, <2>5 DEF Apart
  <2>7. \A i, j \in Acting : stack[i].w = stack[j].w => i = j
    <3>1. \A i, j \in Acting : i < j \/ j < i \/ i = j
      BY <2>4, <2>5
    <3> QED
      BY <3>1, <2>6
  <2>8. \A i \in Frames({"widget"}) : stack[i].w \in Groups => children[stack[i].w] = <<>>
    <3>1. \A i \in Frames({"widget"}) : i \in 1 .. Len(stack) /\ stack[i].pc = "widget"
      BY <2>4 DEF Frames
    <3> QED
      BY <3>1, <1>1 DEF IInv, Calls, Framed, FrameOK
  <2> QED
    BY <2>2, <2>3, <2>7, <2>8 DEF DeletedOnce
<1> QED
  BY <1>1, InvariantHolds, PTL

\* Fl_Widget_Tracker::deleted() is right when a callback returns, for all of the
\* callbacks under way, although another widget may live at the address by then; and
\* the watch list holds their trackers, each one once, and no other pointer.
THEOREM TrackersTellTruth == ~Adding /\ Spec => []TrackersTell
<1>1. ASSUME WInv
      PROVE  TrackersTell
  <2>1. Frames({"callback"}) = CallbacksIn(stack)
    BY DEF Frames, Depth, CallbacksIn
  <2> QED
    BY <2>1, <1>1 DEF TrackersTell, WInv, Watched, Tells, Distinct
<1> QED
  BY <1>1, InvariantHolds, PTL

\* Every widget that delete_widget() was called for is deleted by the time that
\* do_widget_deletion() empties the list.
THEOREM DeletionsHappen == ~Adding /\ Spec => []NoneForgotten
<1>1. ASSUME IInv
      PROVE  NoneForgotten
  <2> SUFFICES ASSUME dwidgets = <<>>, NEW x \in wanted
               PROVE  FALSE
    BY DEF NoneForgotten
  <2>1. x \in ToSet(dwidgets)
    BY <1>1 DEF IInv, Lists, Promised
  <2> QED
    BY <2>1 DEF ToSet
<1> QED
  BY <1>1, InvariantHolds, PTL
=============================================================================
