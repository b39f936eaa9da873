---------------------------- MODULE BrowserRows -----------------------------
(***************************************************************************)
(* What Fl_Browser promises a program: numbered rows, each with a text and  *)
(* hidden or not, and value(), the number of the selected row or 0, which   *)
(* stays with its row as rows are inserted and removed above it, and with   *)
(* its line number as rows are swapped and sorted.                          *)
(***************************************************************************)
EXTENDS Integers, Sequences, SequencesExt, FiniteSets

CONSTANT Texts                \* numbers, in the order of sort()

VARIABLES rows, value

vars == <<rows, value>>

Init == rows = <<>> /\ value = 0

\* The number of the row n after a row was taken out at line, or put in there.
Without(line, n) == IF n = line THEN 0 ELSE IF n > line THEN n - 1 ELSE n
With(line, n)    == IF n # 0 /\ n >= line THEN n + 1 ELSE n

Insert(line, t) ==
  /\ rows' = InsertAt(rows, line, [text |-> t, hidden |-> FALSE])
  /\ value' = With(line, value)

RemoveLine(line) == rows' = RemoveAt(rows, line) /\ value' = Without(line, value)

\* A row that is moved loses the selection.
Move(to, from) ==
  /\ rows' = InsertAt(RemoveAt(rows, from), to, rows[from])
  /\ value' = With(to, Without(from, value))

SetText(line, t) == rows' = [rows EXCEPT ![line].text = t] /\ UNCHANGED value

Hide(line, hidden) == rows' = [rows EXCEPT ![line].hidden = hidden] /\ UNCHANGED value

\* The selection stays where it is.
Swap(i, j) ==
  /\ rows' = [rows EXCEPT ![i] = rows[j], ![j] = rows[i]]
  /\ UNCHANGED value

Sort(descending) ==
  LET Before(i, j) == \/ rows[i].text = rows[j].text /\ i < j
                      \/ IF descending THEN rows[i].text > rows[j].text
                                       ELSE rows[i].text < rows[j].text
      Rank(i) == 1 + Cardinality({j \in DOMAIN rows : Before(j, i)})
  IN  /\ rows' = [n \in DOMAIN rows |-> rows[CHOOSE i \in DOMAIN rows : Rank(i) = n]]
      /\ UNCHANGED value

Select(line) == value' = line /\ UNCHANGED rows

Clear == rows' = <<>> /\ value' = 0

Next ==
  \/ \E t \in Texts : \/ \E line \in 1 .. Len(rows) + 1 : Insert(line, t)
                      \/ \E line \in DOMAIN rows : SetText(line, t)
  \/ \E i \in DOMAIN rows :
       \/ RemoveLine(i) \/ \E hidden \in BOOLEAN : Hide(i, hidden)
       \/ \E j \in DOMAIN rows : Move(j, i) \/ Swap(i, j)
  \/ \E descending \in BOOLEAN : Sort(descending)
  \/ \E line \in 0 .. Len(rows) : Select(line)
  \/ Clear

Spec == Init /\ [][Next]_vars
=============================================================================
