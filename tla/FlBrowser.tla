----------------------------- MODULE FlBrowser ------------------------------
(***************************************************************************)
(* The list of lines of a browser (src/Fl_Browser.cxx): a doubly linked     *)
(* list of FL_BLINE, found by number from the nearest of its two ends and   *)
(* the line found last, and the pointers into it that Fl_Browser_ keeps     *)
(* (src/Fl_Browser_.cxx).                                                   *)
(*                                                                          *)
(* An item is its address; a text is a number, which is its place in the    *)
(* order of sort() and its length.  Every shown item is one unit high, and   *)
(* linespacing() is what the code adds to the height of every line.         *)
(* Abstracted: the flag that draws an item selected, icons, user data and   *)
(* columns, the scroll position in pixels: which items after top_ fit into  *)
(* the widget is any.  The browser is not an FL_MULTI_BROWSER.              *)
(***************************************************************************)
EXTENDS Integers, Sequences, SequencesExt, FiniteSetsExt, Subsequences

CONSTANTS
  Items,
  Texts,
  MaxLines,     \* bound on the number of lines
  Spacing,      \* linespacing()
  Beyond        \* how far behind the end a line is inserted: 0, or 1

NULL == 0

ASSUME BrowserAssumption ==
  /\ NULL \notin Items /\ IsFiniteSet(Items)
  /\ Texts \subseteq Nat /\ MaxLines \in Nat
  /\ Spacing \in Nat /\ Beyond \in Nat

VARIABLES
  b,            \* the browser
  bline,        \* the items: text, room for text, hidden
  allocated,    \* the items that malloc() returned and free() did not get
  rows, value   \* the texts in their order and the selected line, read off the list

vars == <<b, bline, allocated, rows, value>>

Blank == [text |-> 0, length |-> 0, hidden |-> FALSE]

Init ==
  /\ b = [first |-> NULL, last |-> NULL, lines |-> 0, full_height |-> 0,
          next |-> [l \in Items |-> NULL], prev |-> [l \in Items |-> NULL],
          cache |-> NULL, cacheline |-> 0, top |-> NULL, selection |-> NULL]
  /\ bline = [l \in Items |-> Blank]
  /\ allocated = {} /\ rows = <<>> /\ value = 0
-----------------------------------------------------------------------------
\* n times l = l->next, or l->prev, while l is not NULL.
Walk(link, l, n) == Follow(link, l, n + 1)[n + 1]

\* The list as a sequence.
Listed(B) == Kept(Follow(B.next, B.first, Cardinality(Items)), Items)

item_height(l) == IF bline[l].hidden THEN 0 ELSE 1

\* find_line(line): the browser with the line as its cached one.
find_line(B, line) ==
  IF line = B.cacheline THEN B
  ELSE LET near == B.cacheline # 0 /\ line > B.cacheline \div 2
                   /\ line < (B.cacheline + B.lines) \div 2
           n == IF near THEN B.cacheline ELSE IF line <= B.lines \div 2 THEN 1 ELSE B.lines
           l == IF near THEN B.cache ELSE IF line <= B.lines \div 2 THEN B.first ELSE B.last
       IN  [B EXCEPT !.cacheline = line,
                     !.cache = IF n < line THEN Walk(B.next, l, line - n)
                               ELSE Walk(B.prev, l, n - line)]

\* lineno(l): the browser after it, and the number.  The search goes both ways
\* from the cached line, and does not end when l is not in the list.
lineno(B, l) ==
  LET C == IF B.cache = NULL THEN [B EXCEPT !.cache = B.first, !.cacheline = 1] ELSE B
      Found(d) == Walk(C.prev, C.cache, d) = l \/ Walk(C.next, C.cache, d) = l
      near == {d \in 1 .. Cardinality(Items) : Found(d)}
      d == CHOOSE m \in near : \A k \in near : m <= k
      n == IF Walk(C.prev, C.cache, d) = l THEN C.cacheline - d ELSE C.cacheline + d
  IN  CASE l = NULL    -> [B |-> B, n |-> 0]
        [] l = B.cache -> [B |-> B, n |-> B.cacheline]
        [] l = B.first /\ l # B.cache -> [B |-> B, n |-> 1]
        [] l = B.last /\ l \notin {B.cache, B.first} -> [B |-> B, n |-> B.lines]
        [] OTHER -> IF near = {} THEN [B |-> B, n |-> -1]
                    ELSE [B |-> [C EXCEPT !.cache = l, !.cacheline = n], n |-> n]
-----------------------------------------------------------------------------
\* p->next = n and n->prev = p, where first and last stand in for NULL.
Link(B, p, n) ==
  LET C == IF p = NULL THEN [B EXCEPT !.first = n] ELSE [B EXCEPT !.next[p] = n]
  IN  IF n = NULL THEN [C EXCEPT !.last = p] ELSE [C EXCEPT !.prev[n] = p]

\* Whether displayed(l) may be true: top_ is, what comes after it may fit.
displayed(B, l) ==
  IF l = B.top THEN {TRUE}
  ELSE IF \E n \in 1 .. Cardinality(Items) : Walk(B.next, B.top, n) = l THEN BOOLEAN
  ELSE {FALSE}

\* deleting(l)
deleting(B, l, shown) ==
  [B EXCEPT
     !.top = IF ~shown THEN NULL
             ELSE IF @ # l THEN @
             ELSE IF B.next[l] # NULL THEN B.next[l] ELSE B.prev[l],
     !.selection = IF @ = l THEN NULL ELSE @]

\* inserting(a, l)
inserting(B, a, l) == [B EXCEPT !.top = IF @ = a THEN l ELSE @]

\* swapping(a, c)
swapping(B, a, c) ==
  LET Other(l) == IF l = a THEN c ELSE IF l = c THEN a ELSE l
  IN  [B EXCEPT !.selection = Other(@), !.top = Other(@)]

\* Mutant: the cached line stays the removed one.
RemoveKeepsCache(B, line, shown) ==
  LET F == find_line(B, line)
      l == F.cache
      D == deleting(F, l, shown)
  IN  Link([D EXCEPT !.lines = @ - 1, !.full_height = @ - (item_height(l) + Spacing)],
           D.prev[l], D.next[l])

\* _remove(line): the item is what find_line() finds.
_remove(B, line, shown) ==
  LET F == find_line(B, line)
      l == F.cache
      D == deleting(F, l, shown)
  IN  Link([D EXCEPT !.cacheline = line - 1, !.cache = D.prev[l], !.lines = @ - 1,
                     !.full_height = @ - (item_height(l) + Spacing)],
           D.prev[l], D.next[l])

\* insert(line, l), where l is height high.
insert(B, line, l, height) ==
  LET F == IF B.first # NULL /\ line \in 2 .. B.lines THEN find_line(B, line) ELSE B
      n == IF B.first = NULL \/ line > B.lines THEN NULL
           ELSE IF line <= 1 THEN B.first ELSE F.cache
      I == IF n = NULL THEN F ELSE inserting(F, n, l)
      p == IF n = NULL THEN I.last ELSE I.prev[n]
  IN  [Link(Link(I, p, l), l, n) EXCEPT
         !.cacheline = line, !.cache = l, !.lines = @ + 1,
         !.full_height = @ + (height + Spacing)]

\* Mutant: swapping neighbours is not a case of its own.
SwapUniform(B, a, c) ==
  IF a = c THEN B
  ELSE LET S == swapping(B, a, c)
           L1 == Link(S, S.prev[a], c)
           L2 == Link(L1, c, S.next[a])
           L3 == Link(L2, S.prev[c], a)
       IN  [Link(L3, a, S.next[c]) EXCEPT !.cache = NULL, !.cacheline = 0]

\* swap(a, c) of two items.
swap(B, a, c) ==
  LET S == swapping(B, a, c)
      Three(x, y) == Link(Link(Link(S, S.prev[x], y), y, x), x, S.next[y])
      Four == Link(Link(Link(Link(S, S.prev[a], c), c, S.next[a]), S.prev[c], a), a, S.next[c])
      R == IF S.prev[c] = a THEN Three(a, c) ELSE IF S.prev[a] = c THEN Three(c, a) ELSE Four
  IN  IF a = c THEN B ELSE [R EXCEPT !.cache = NULL, !.cacheline = 0]

\* One comparison of sort(), of the item l and the one before it; and sort(),
\* whose rounds end early when one changes nothing.
Compared(B, l, descending) ==
  LET k == B.prev[l]
      wrong == IF descending THEN bline[k].text < bline[l].text ELSE bline[k].text > bline[l].text
  IN  IF wrong THEN swap(B, k, l) ELSE B

Round(B, i, descending) ==
  LET at[j \in 0 .. i] ==
        IF j = 0 THEN [B |-> B, l |-> B.next[B.first]]
        ELSE LET a == at[j - 1]
             IN  IF a.l = NULL THEN a
                 ELSE [B |-> Compared(a.B, a.l, descending), l |-> a.B.next[a.l]]
  IN  at[i].B

sort(B, descending) ==
  LET n == Len(Listed(B)) - 1
      after[k \in 0 .. n] ==
        IF k = 0 THEN B ELSE Round(after[k - 1], n + 1 - k, descending)
  IN  IF B.first = NULL THEN B ELSE after[n]

\* update_top(): top_ is the first item, or the scroll position has moved it.
update_top(B) ==
  {[B EXCEPT !.top = l] : l \in IF B.top = NULL /\ B.first = NULL THEN {NULL} ELSE ToSet(Listed(B))}

\* new_list()
new_list(B) == [B EXCEPT !.top = NULL, !.selection = NULL]
-----------------------------------------------------------------------------
Lines == 1 .. b.lines

\* free(l): what l holds is lost.
Free(B, l) == [B EXCEPT !.next[l] = NULL, !.prev[l] = NULL]

\* insert(line, t), and add(t) at the line after the last; malloc() returns l.
Insert(line, t, l) ==
  /\ b.lines < MaxLines /\ line \in 1 .. b.lines + 1 + Beyond
  /\ l \notin allocated /\ allocated' = allocated \union {l}
  /\ b' = insert(b, line, l, 1)
  /\ bline' = [bline EXCEPT ![l] = [text |-> t, length |-> t, hidden |-> FALSE]]

\* remove(line)
RemoveLine(line) ==
  /\ line \in Lines
  /\ LET l == find_line(b, line).cache
     IN  /\ \E shown \in displayed(b, l) : b' = Free(_remove(b, line, shown), l)
         /\ bline' = [bline EXCEPT ![l] = Blank]
         /\ allocated' = allocated \ {l}

\* move(to, from)
Move(to, from) ==
  /\ from \in Lines /\ to \in 1 .. b.lines + Beyond
  /\ LET l == find_line(b, from).cache
     IN  \E shown \in displayed(b, l) :
           b' = insert(_remove(b, from, shown), to, l, item_height(l))
  /\ UNCHANGED <<bline, allocated>>

\* Mutant: top_ and selection_ keep the item that is freed.
ReplacesNothing(B, a, l) == B

\* replacing(a, l)
replacing(B, a, l) ==
  [B EXCEPT !.selection = IF @ = a THEN l ELSE @, !.top = IF @ = a THEN l ELSE @]

\* text(line, t): a text that is longer than the item has room for gets a new
\* item n, which takes the old one's place.
Text(line, t, n) ==
  /\ line \in Lines /\ n \notin allocated
  /\ LET F == find_line(b, line)
         l == F.cache
         R == [replacing(F, l, n) EXCEPT !.cache = n]
     IN  IF t <= bline[l].length
         THEN b' = F /\ bline' = [bline EXCEPT ![l].text = t] /\ UNCHANGED allocated
         ELSE /\ b' = Free(Link(Link(R, F.prev[l], n), n, F.next[l]), l)
              /\ bline' = [bline EXCEPT ![n] = [bline[l] EXCEPT !.text = t, !.length = t],
                                        ![l] = Blank]
              /\ allocated' = (allocated \ {l}) \union {n}

\* Mutant: hiding a hidden line, or showing a shown one, counts again.
DisplayAgain(line, val) ==
  /\ line \in Lines
  /\ LET F == find_line(b, line)
     IN  /\ b' = [F EXCEPT !.full_height = IF val THEN @ + (1 + Spacing) ELSE @ - (1 + Spacing)]
         /\ bline' = [bline EXCEPT ![F.cache].hidden = ~val]
  /\ UNCHANGED allocated

\* show(line), hide(line)
Display(line, val) ==
  /\ line \in Lines
  /\ LET F == find_line(b, line)
         l == F.cache
     IN  IF bline[l].hidden = ~val THEN b' = F /\ UNCHANGED bline
         ELSE /\ b' = [F EXCEPT !.full_height = IF val THEN @ + (1 + Spacing) ELSE @ - (1 + Spacing)]
              /\ bline' = [bline EXCEPT ![l].hidden = ~val]
  /\ UNCHANGED allocated

\* swap(i, j)
Swap(i, j) ==
  /\ {i, j} \subseteq Lines
  /\ LET F == find_line(b, i)
         G == find_line(F, j)
     IN  b' = swap(G, F.cache, G.cache)
  /\ UNCHANGED <<bline, allocated>>

Sort(descending) == b' = sort(b, descending) /\ UNCHANGED <<bline, allocated>>

\* select(line, val)
Select(line, val) ==
  /\ line \in Lines
  /\ LET F == find_line(b, line)
         l == F.cache
     IN  IF val = (F.selection = l) THEN b' = F
         ELSE IF val THEN \E U \in update_top(F) : b' = [U EXCEPT !.selection = l]
         ELSE b' = [F EXCEPT !.selection = NULL]
  /\ UNCHANGED <<bline, allocated>>

\* deselect()
Deselect == b' = [b EXCEPT !.selection = NULL] /\ UNCHANGED <<bline, allocated>>

\* text(line), data(line), visible(line), selected(line)
Lookup(line) == line \in Lines /\ b' = find_line(b, line) /\ UNCHANGED <<bline, allocated>>

\* value() and topline()
Value(l) ==
  /\ l \in {b.selection, b.top} /\ lineno(b, l).n # -1
  /\ b' = lineno(b, l).B
  /\ UNCHANGED <<bline, allocated>>

\* draw(), and display(line) of a line elsewhere.
Draw == b' \in update_top(b) /\ UNCHANGED <<bline, allocated>>

\* textsize(newSize): the height is counted anew, the spacing of hidden lines too.
Textsize ==
  /\ LET L == Listed(b)
     IN  b' = [new_list(b) EXCEPT !.full_height = Cardinality({l \in ToSet(L) : ~bline[l].hidden})
                                                  + Spacing * Len(L)]
  /\ UNCHANGED <<bline, allocated>>

Clear ==
  /\ b' = [new_list(b) EXCEPT !.first = NULL, !.last = NULL, !.lines = 0, !.full_height = 0,
                              !.cache = NULL, !.cacheline = 0,
                              !.next = [l \in Items |-> NULL], !.prev = [l \in Items |-> NULL]]
  /\ bline' = [l \in Items |-> Blank]
  /\ allocated' = allocated \ ToSet(Listed(b))

Operation ==
  \/ \E t \in Texts, l \in Items : \E line \in 1 .. MaxLines + Beyond :
       Insert(line, t, l) \/ Text(line, t, l)
  \/ \E i, j \in 1 .. MaxLines + Beyond : Move(i, j) \/ Swap(i, j)
  \/ \E line \in 1 .. MaxLines :
       \/ RemoveLine(line) \/ Lookup(line)
       \/ \E val \in BOOLEAN : Display(line, val) \/ Select(line, val)
  \/ \E descending \in BOOLEAN : Sort(descending)
  \/ \E l \in Items : Value(l)
  \/ Deselect \/ Draw \/ Textsize \/ Clear

Next ==
  /\ Operation
  /\ LET L == Listed(b')
     IN  /\ rows' = [n \in DOMAIN L |-> [text |-> bline'[L[n]].text, hidden |-> bline'[L[n]].hidden]]
         /\ value' = SelectInSeq(L, LAMBDA l : l = b'.selection)

Spec == Init /\ [][Next]_vars
-----------------------------------------------------------------------------
TypeOK ==
  /\ {b.first, b.last, b.cache, b.top, b.selection} \subseteq Items \union {NULL}
  /\ b.next \in [Items -> Items \union {NULL}] /\ b.prev \in [Items -> Items \union {NULL}]
  /\ b.lines \in 0 .. MaxLines /\ b.cacheline \in Nat /\ allocated \subseteq Items

\* No item is lost, freed twice or used after it was freed: the items that are
\* allocated are those of the list, it reads the same from both ends, top_,
\* selection_ and the cached line are in it, and the number of lines is that of the
\* list.
ListIntact ==
  LET L == Listed(b)
  IN  /\ TypeOK
      /\ ToSet(L) = allocated /\ Len(L) = Cardinality(allocated) /\ b.lines = Len(L)
      /\ b.last = IF L = <<>> THEN NULL ELSE Last(L)
      /\ \A n \in DOMAIN L : b.prev[L[n]] = IF n = 1 THEN NULL ELSE L[n - 1]
      /\ {b.top, b.selection, b.cache} \subseteq allocated \union {NULL}

\* full_height(), which the scrollbar is made from, is the height of all lines that
\* are shown, though every operation only adds or subtracts what it thinks it
\* changed.  This is so without linespacing(): _remove() and textsize() count the
\* spacing of hidden lines, which hide() has already subtracted.
HeightShown ==
  b.full_height = (1 + Spacing) * Cardinality({l \in allocated : ~bline[l].hidden})

\* find_line() and lineno() are each other's inverse and right for every line,
\* whichever line was found last and whatever has changed in the list since.
FindsLines ==
  LET L == Listed(b)
  IN  \A n \in DOMAIN L : find_line(b, n).cache = L[n] /\ lineno(b, L[n]).n = n

Rows == INSTANCE BrowserRows

\* The list is a sequence of rows: every operation changes the rows it was asked
\* to change and no other, sort() orders them and leaves equal ones in their order.
\* value() follows the selected row when rows are inserted and removed and when its
\* item is replaced; move() of that row loses it, and swap() and sort() leave it at
\* its line number.
RowsSpec == Rows!Spec
=============================================================================
