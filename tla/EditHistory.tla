---------------------------- MODULE EditHistory -----------------------------
(***************************************************************************)
(* What Fl_Text_Buffer promises an editor: a text, the texts that undo()   *)
(* goes back to and the texts that redo() goes forward to.  An edit may    *)
(* join the edit before it, and it ends what could be redone.              *)
(***************************************************************************)
EXTENDS Integers, Sequences, SequencesExt

CONSTANT Texts                \* what is inserted

VARIABLES text, past, future, enabled

vars == <<text, past, future, enabled>>

\* s with its bytes from p to q replaced by t.
Splice(s, p, q, t) == SubSeq(s, 1, p) \o t \o SubSeq(s, q + 1, Len(s))

Init == text = <<>> /\ past = <<>> /\ future = <<>> /\ enabled = TRUE

\* insert(), remove() and replace() of the bytes from p to q.  The first edit is
\* always an edit of its own.
Edit(p, q, t) ==
  /\ text' = Splice(text, p, q, t)
  /\ \/ ~enabled /\ UNCHANGED past
     \/ enabled /\ past' = Append(past, text)
     \/ enabled /\ past # <<>> /\ UNCHANGED past
  /\ future' = <<>>
  /\ UNCHANGED enabled

Undo ==
  /\ past # <<>>
  /\ text' = Last(past) /\ past' = Front(past) /\ future' = Append(future, text)
  /\ UNCHANGED enabled

Redo ==
  /\ future # <<>>
  /\ text' = Last(future) /\ future' = Front(future) /\ past' = Append(past, text)
  /\ UNCHANGED enabled

\* text(t).
SetText(t) == text' = t /\ past' = <<>> /\ future' = <<>> /\ UNCHANGED enabled

\* canUndo(flag): switching undo off forgets the history.
Enable(flag) ==
  /\ enabled' = flag
  /\ IF flag THEN UNCHANGED <<past, future>> ELSE past' = <<>> /\ future' = <<>>
  /\ UNCHANGED text

Next ==
  \/ \E p, q \in 0 .. Len(text), t \in Texts \union {<<>>} : p <= q /\ Edit(p, q, t)
  \/ \E t \in Texts : SetText(t)
  \/ Undo \/ Redo \/ \E flag \in BOOLEAN : Enable(flag)

Spec == Init /\ [][Next]_vars
=============================================================================
