---------------------------- MODULE FlTextBuffer ----------------------------
(***************************************************************************)
(* Fl_Text_Buffer (src/Fl_Text_Buffer.cxx): the gap buffer, the primary     *)
(* selection, the modify callbacks and undo/redo.                           *)
(*                                                                          *)
(* A buffer is a record, and the member functions are operators from        *)
(* buffers to buffers, so that properties can say what undo() would do.     *)
(* Positions count bytes from 0; the byte behind position p is buf[p + 1].  *)
(* The bytes of the gap are all Garbage: whoever reads them gives himself   *)
(* away.  A missing undo action or list is an empty one, as every reader in *)
(* the code has it.                                                         *)
(*                                                                          *)
(* Abstracted: the cursor position hint, predelete callbacks, the secondary *)
(* selection and the highlight (updated like the primary one), redisplay    *)
(* callbacks (they delete and insert nothing), characters of several bytes. *)
(***************************************************************************)
EXTENDS Integers, Sequences, SequencesExt, FiniteSetsExt

CONSTANTS
  Texts,          \* what the program inserts
  Newline,        \* the byte between two lines
  Garbage,        \* a byte of the gap
  PreferredGap,   \* mPreferredGapSize
  MaxLength,      \* bound on the text
  MaxEvents,      \* bound on the undo and redo lists ...
  MaxSelected     \* ... and on the lists while something is selected

Bytes == UNION {ToSet(t) : t \in Texts}

ASSUME TextBufferAssumption ==
  /\ {PreferredGap, MaxLength, MaxEvents, MaxSelected} \subseteq Nat
  /\ Texts \subseteq Seq(Bytes) /\ Garbage \notin Bytes

VARIABLES
  b,        \* the buffer
  mirror,   \* history: the text as a listener knows it from the callbacks
  past,     \* history: the texts before the events that can be undone
  future    \* history: the texts before the undo() calls that can be redone

vars == <<b, mirror, past, future>>

EmptyAction == [buffer |-> <<>>, at |-> 0, cut |-> 0, insert |-> 0, yankcut |-> 0]
NoCall      == [pos |-> 0, nDeleted |-> 0, nInserted |-> 0, deleted |-> <<>>]
Unselected  == [selected |-> FALSE, start |-> 0, end |-> 0]

\* call holds the arguments of the last modify callback.
Init ==
  /\ b = [buf |-> <<>>, gapStart |-> 0, gapEnd |-> 0, length |-> 0,
          canUndo |-> TRUE, undo |-> EmptyAction, undoList |-> <<>>,
          redoList |-> <<>>, locked |-> FALSE, sel |-> Unselected,
          call |-> NoCall]
  /\ mirror = <<>> /\ past = <<>> /\ future = <<>>
-----------------------------------------------------------------------------
\* memcpy() and memmove() of n bytes from offset src of one buffer to offset
\* dst of another.
Memcpy(to, dst, from, src, n) ==
  [i \in DOMAIN to |-> IF i \in dst + 1 .. dst + n THEN from[i - dst + src] ELSE to[i]]

Fill(n) == [i \in 1 .. n |-> Garbage]

Gap(t) == t.gapEnd - t.gapStart

\* What is left in the gap is never used again.
Blank(t) == [t EXCEPT !.buf = Memcpy(@, t.gapStart, Fill(Gap(t)), 0, Gap(t))]

\* text()
TextOf(t) ==
  SubSeq(t.buf, 1, t.gapStart)
    \o SubSeq(t.buf, t.gapEnd + 1, t.gapEnd + t.length - t.gapStart)

\* text_range(), for a range within the text.
text_range(t, start, end) ==
  IF end <= t.gapStart THEN SubSeq(t.buf, start + 1, end)
  ELSE IF start >= t.gapStart THEN SubSeq(t.buf, start + Gap(t) + 1, end + Gap(t))
  ELSE SubSeq(t.buf, start + 1, t.gapStart)
         \o SubSeq(t.buf, t.gapEnd + 1, t.gapEnd + end - t.gapStart)

\* Mutant: the bytes between the old and the new gap stay where they are.
GapJumps(t, pos) ==
  Blank([t EXCEPT !.gapStart = pos, !.gapEnd = pos + Gap(t)])

move_gap(t, pos) ==
  Blank([t EXCEPT
    !.buf = IF pos > t.gapStart
            THEN Memcpy(@, t.gapStart, @, t.gapEnd, pos - t.gapStart)
            ELSE Memcpy(@, pos + Gap(t), @, pos, t.gapStart - pos),
    !.gapEnd = @ + pos - t.gapStart,
    !.gapStart = pos])

reallocate_with_gap(t, start, len) ==
  LET end   == start + len
      fresh == Fill(t.length + len)
      low   == Memcpy(fresh, 0, t.buf, 0, IF start <= t.gapStart THEN start ELSE t.gapStart)
  IN  [t EXCEPT
        !.buf = IF start <= t.gapStart
                THEN Memcpy(Memcpy(low, end, t.buf, start, t.gapStart - start),
                            end + t.gapStart - start, t.buf, t.gapEnd, t.length - t.gapStart)
                ELSE Memcpy(Memcpy(low, t.gapStart, t.buf, t.gapEnd, start - t.gapStart),
                            end, t.buf, t.gapEnd + start - t.gapStart, t.length - start),
        !.gapStart = start, !.gapEnd = end]

\* Fl_Text_Selection::set()
Selection(s, e) ==
  [selected |-> s # e, start |-> IF s < e THEN s ELSE e, end |-> IF s < e THEN e ELSE s]

\* Mutant: text inserted right in front of a selection joins it.
UpdateJoins(sel, pos, nDeleted, nInserted) ==
  CASE ~sel.selected \/ pos > sel.end -> sel
    [] pos + nDeleted < sel.start ->
         [sel EXCEPT !.start = @ + nInserted - nDeleted, !.end = @ + nInserted - nDeleted]
    [] pos <= sel.start /\ pos + nDeleted >= sel.end ->
         [selected |-> FALSE, start |-> pos, end |-> pos]
    [] pos <= sel.start -> [sel EXCEPT !.start = pos, !.end = @ + nInserted - nDeleted]
    [] OTHER -> [sel EXCEPT !.end = @ + nInserted - nDeleted]

\* Fl_Text_Selection::update()
Update(sel, pos, nDeleted, nInserted) ==
  LET end == sel.end + nInserted - nDeleted
  IN  CASE ~sel.selected \/ pos > sel.end -> sel
        [] sel.selected /\ pos + nDeleted <= sel.start ->
             [sel EXCEPT !.start = @ + nInserted - nDeleted, !.end = end]
        [] sel.selected /\ pos <= sel.start /\ pos + nDeleted > sel.start ->
             IF pos + nDeleted >= sel.end
             THEN [selected |-> FALSE, start |-> pos, end |-> pos]
             ELSE [sel EXCEPT !.start = pos, !.end = end]
        [] sel.selected /\ sel.start < pos /\ pos < sel.end ->
             [sel EXCEPT !.end = end, !.selected = end > sel.start]
        [] OTHER -> sel
-----------------------------------------------------------------------------
\* An event of its own: the redo list is purged, unless it is locked.
NewEvent(t, action) ==
  [t EXCEPT !.undo = action, !.undoList = Append(@, t.undo),
            !.redoList = IF t.locked THEN @ ELSE <<>>]

\* An edit that joins the current event; the redo list stays.
JoinEvent(t, action) == [t EXCEPT !.undo = action]

\* Mutant: text inserted where the last edit ended always joins it.
RecordInsertJoins(t, pos, n) ==
  LET u == t.undo
  IN  IF u.at = pos
      THEN JoinEvent(t, [u EXCEPT !.insert = @ + n, !.at = pos + n, !.cut = 0])
      ELSE NewEvent(t, [EmptyAction EXCEPT !.insert = n, !.at = pos + n])

RecordInsert(t, pos, n) ==
  LET u == t.undo
  IN  CASE u.at = pos /\ u.insert > 0 ->
             JoinEvent(t, [u EXCEPT !.insert = @ + n, !.at = pos + n, !.cut = 0])
        [] u.at = pos /\ u.insert = 0 /\ u.cut > 0 ->
             JoinEvent(t, [u EXCEPT !.insert = n, !.yankcut = u.cut, !.at = pos + n, !.cut = 0])
        [] OTHER -> NewEvent(t, [EmptyAction EXCEPT !.insert = n, !.at = pos + n])

\* insert_()
insert_(t, pos, ins) ==
  LET n     == Len(ins)
      roomy == IF n > Gap(t) THEN reallocate_with_gap(t, pos, n + PreferredGap)
               ELSE IF pos # t.gapStart THEN move_gap(t, pos) ELSE t
      put   == [roomy EXCEPT !.buf = Memcpy(@, pos, ins, 0, n), !.gapStart = @ + n,
                             !.length = @ + n, !.sel = Update(@, pos, 0, n)]
  IN  IF ins = <<>> THEN t
      ELSE IF t.canUndo THEN RecordInsert(put, pos, n) ELSE put

RecordRemove(t, start, end, bytes) ==
  LET u == t.undo
  IN  IF u.at = end /\ u.cut > 0
      THEN JoinEvent(t, [u EXCEPT !.buffer = bytes \o SubSeq(@, 1, u.cut),
                                  !.cut = @ + end - start, !.at = start,
                                  !.insert = 0, !.yankcut = 0])
      ELSE NewEvent(t, [EmptyAction EXCEPT !.buffer = bytes, !.cut = end - start, !.at = start])

\* The bytes that remove_() saves, read around the gap.
Removed(t, start, end) ==
  IF start > t.gapStart THEN SubSeq(t.buf, Gap(t) + start + 1, Gap(t) + end)
  ELSE IF end < t.gapStart THEN SubSeq(t.buf, start + 1, end)
  ELSE SubSeq(t.buf, start + 1, t.gapStart)
         \o SubSeq(t.buf, t.gapEnd + 1, t.gapEnd + end - t.gapStart)

\* remove_()
remove_(t, start, end) ==
  LET kept  == IF t.canUndo THEN RecordRemove(t, start, end, Removed(t, start, end)) ELSE t
      moved == IF start > t.gapStart THEN move_gap(kept, start)
               ELSE IF end < t.gapStart THEN move_gap(kept, end) ELSE kept
  IN  IF start >= end THEN t
      ELSE Blank([moved EXCEPT !.gapEnd = @ + end - moved.gapStart, !.gapStart = start,
                               !.length = @ - (end - start),
                               !.sel = Update(@, start, end - start, 0)])

\* call_modify_callbacks()
Notify(t, pos, deleted, nInserted) ==
  [t EXCEPT !.call = [pos |-> pos, nDeleted |-> Len(deleted), nInserted |-> nInserted,
                      deleted |-> deleted]]

Clamp(t, pos) == IF pos > t.length THEN t.length ELSE IF pos < 0 THEN 0 ELSE pos

insert(t, pos, ins) ==
  LET p == Clamp(t, pos)
  IN  IF ins = <<>> THEN t ELSE Notify(insert_(t, p, ins), p, <<>>, Len(ins))

replace(t, start, end, ins) ==
  LET s == IF start < 0 THEN 0 ELSE start
      e == IF end > t.length THEN t.length ELSE end
  IN  Notify(insert_(remove_(t, s, e), s, ins), s, text_range(t, s, e), Len(ins))

remove(t, start, end) ==
  LET s == Clamp(t, IF start > end THEN end ELSE start)
      e == Clamp(t, IF start > end THEN start ELSE end)
  IN  IF s = e THEN t ELSE Notify(remove_(t, s, e), s, text_range(t, s, e), 0)

\* text(t).  Of an action in which nothing was cut or inserted nothing else is
\* ever read.
SetText(t, new) ==
  LET n   == Len(new)
      set == Notify([t EXCEPT !.buf = new \o Fill(PreferredGap), !.length = n,
                              !.gapStart = n, !.gapEnd = n + PreferredGap,
                              !.sel = Update(@, 0, t.length, 0)],
                    0, TextOf(t), n)
  IN  IF ~t.canUndo THEN set
      ELSE [set EXCEPT !.undo = EmptyAction, !.undoList = <<>>, !.redoList = <<>>]
-----------------------------------------------------------------------------
Empty(action) == action.cut = 0 /\ action.insert = 0
can_undo(t) == t.canUndo /\ ~Empty(t.undo)

\* Mutant: the redo list is not locked while an event is undone.
ApplyUnlocked(t, action) ==
  LET xlen == action.insert
      ilen == IF xlen > 0 /\ action.cut = 0 THEN action.yankcut ELSE action.cut
      ins  == SubSeq(action.buffer, 1, ilen)
      from == action.at - xlen
  IN  IF xlen > 0 /\ ilen > 0 THEN replace(t, from, action.at, ins)
      ELSE IF xlen > 0 THEN remove(t, from, action.at)
      ELSE insert(t, action.at, ins)

\* apply_undo() of an action that is not empty; the redo list is locked.
apply_undo(t, action) ==
  LET xlen == action.insert
      ilen == IF xlen > 0 /\ action.cut = 0 THEN action.yankcut ELSE action.cut
      ins  == SubSeq(action.buffer, 1, ilen)
      from == action.at - xlen
      held == [t EXCEPT !.locked = TRUE]
      done == IF xlen > 0 /\ ilen > 0 THEN replace(held, from, action.at, ins)
              ELSE IF xlen > 0 THEN remove(held, from, action.at)
              ELSE insert(held, action.at, ins)
  IN  [done EXCEPT !.locked = FALSE]

\* undo(): the event made by applying the current one goes to the redo list;
\* the fresh action it pushed is thrown away, and the one below is current.
undo(t) ==
  IF ~t.canUndo \/ Empty(t.undo) THEN t
  ELSE LET done == apply_undo([t EXCEPT !.undo = EmptyAction], t.undo)
           rest == Front(done.undoList)
       IN  [done EXCEPT
             !.redoList = Append(@, done.undo),
             !.undoList = IF rest = <<>> THEN <<>> ELSE Front(rest),
             !.undo = IF rest = <<>> THEN EmptyAction ELSE Last(rest)]

can_redo(t) == t.canUndo /\ t.redoList # <<>>

redo(t) ==
  IF ~can_redo(t) THEN t
  ELSE LET rest == [t EXCEPT !.redoList = Front(@)]
       IN  IF Empty(Last(t.redoList)) THEN rest
           ELSE apply_undo(rest, Last(t.redoList))

\* canUndo(flag)
SetCanUndo(t, flag) ==
  IF flag \/ ~t.canUndo THEN [t EXCEPT !.canUndo = flag]
  ELSE [t EXCEPT !.canUndo = FALSE, !.undo = EmptyAction,
                 !.undoList = <<>>, !.redoList = <<>>]

\* replace_selection_(): the selection is gone afterwards.
ReplaceSelection(t, ins) ==
  IF ~t.sel.selected THEN t
  ELSE [replace(t, t.sel.start, t.sel.end, ins) EXCEPT !.sel.selected = FALSE]

\* remove_selection_()
RemoveSelection(t) == IF t.sel.selected THEN remove(t, t.sel.start, t.sel.end) ELSE t
-----------------------------------------------------------------------------
\* Mutant: the byte behind the gap is looked for in it.
ByteAtGap(t, pos) == t.buf[pos + 1 + IF pos <= t.gapStart THEN 0 ELSE Gap(t)]

\* address(pos): the lines are found without moving the gap.
ByteAt(t, pos) == t.buf[pos + 1 + IF pos < t.gapStart THEN 0 ELSE Gap(t)]

\* The newlines from start up to, and not including, end.
Newlines(t, start, end) == {p \in start .. end - 1 : ByteAt(t, p) = Newline}

\* line_start() and line_end(), with findchar_backward() and findchar_forward().
line_start(t, pos) ==
  LET before == Newlines(t, 0, pos) IN IF before = {} THEN 0 ELSE Max(before) + 1
line_end(t, pos) ==
  LET after == Newlines(t, pos, t.length) IN IF after = {} THEN t.length ELSE Min(after)

count_lines(t, start, end) ==
  Cardinality(Newlines(t, start, IF start <= end THEN end ELSE t.length))

\* skip_lines(): behind the n-th newline from start on.
skip_lines(t, start, n) ==
  LET ends == {p \in Newlines(t, start, t.length) : Cardinality(Newlines(t, start, p + 1)) = n}
  IN  IF n = 0 THEN start ELSE IF ends = {} THEN t.length ELSE Max(ends) + 1

\* rewind_lines(): behind the newline before which n more lie between it and start.
rewind_lines(t, start, n) ==
  LET ends == {p \in Newlines(t, 0, start) : Cardinality(Newlines(t, p, start)) = n + 1}
  IN  IF start - 1 <= 0 \/ ends = {} THEN 0 ELSE Max(ends) + 1
-----------------------------------------------------------------------------
\* A listener checks the deleted bytes it is told of, and takes the inserted
\* ones from the buffer.
Heard(m, t) ==
  LET call == t.call
  IN  IF call.deleted # SubSeq(m, call.pos + 1, call.pos + call.nDeleted)
      THEN <<Garbage>>
      ELSE SubSeq(m, 1, call.pos)
             \o text_range(t, call.pos, call.pos + call.nInserted)
             \o SubSeq(m, call.pos + call.nDeleted + 1, Len(m))

\* A member function returns.  The offsets of a selection that is not active
\* are never read.
Become(t) ==
  /\ t.length <= MaxLength
  /\ Len(t.undoList) + Len(t.redoList) <= IF t.sel.selected THEN MaxSelected ELSE MaxEvents
  /\ b' = [t EXCEPT !.call = NoCall, !.sel = IF @.selected THEN @ ELSE Unselected]
  /\ mirror' = Heard(mirror, t)

\* The events that undo() can undo.
Events(t) ==
  IF Empty(t.undo) THEN 0
  ELSE 1 + Cardinality({i \in DOMAIN t.undoList : ~Empty(t.undoList[i])})

Edited(t) ==
  /\ Become(t)
  /\ past' = IF Events(t) > Events(b) THEN Append(past, TextOf(b)) ELSE past
  /\ future' = IF t.undo = b.undo /\ t.undoList = b.undoList THEN future ELSE <<>>

Positions == 0 .. b.length

Insert  == \E pos \in Positions, t \in Texts : Edited(insert(b, pos, t))
Delete  == \E s, e \in Positions : s # e /\ Edited(remove(b, s, e))
Replace == \E s, e \in Positions, t \in Texts : s < e /\ Edited(replace(b, s, e, t))
EditSelection ==
  Edited(RemoveSelection(b)) \/ \E t \in Texts : Edited(ReplaceSelection(b, t))

Reset == \E t \in Texts : Become(SetText(b, t)) /\ past' = <<>> /\ future' = <<>>

Undo ==
  /\ can_undo(b) /\ Become(undo(b))
  /\ past' = IF past = <<>> THEN past ELSE Front(past)
  /\ future' = Append(future, TextOf(b))

\* An event that is older than an edit (RedoRepeatsUndo) is not redone.
Redo ==
  /\ future # <<>> /\ can_redo(b) /\ Become(redo(b))
  /\ future' = Front(future)
  /\ past' = Append(past, TextOf(b))

CanUndo ==
  \E flag \in BOOLEAN :
    /\ Become(SetCanUndo(b, flag))
    /\ IF flag THEN UNCHANGED <<past, future>> ELSE past' = <<>> /\ future' = <<>>

Select ==
  /\ \/ \E s, e \in Positions : Become([b EXCEPT !.sel = Selection(s, e)])
     \/ Become([b EXCEPT !.sel.selected = FALSE])
  /\ UNCHANGED <<past, future>>

Next ==
  \/ Insert \/ Delete \/ Replace \/ EditSelection \/ Reset
  \/ Undo \/ Redo \/ CanUndo \/ Select

Spec == Init /\ [][Next]_vars
-----------------------------------------------------------------------------
History == INSTANCE EditHistory WITH text <- TextOf(b), enabled <- b.canUndo

\* Undo and redo walk through the texts the buffer had: whatever sequence of
\* joined and separate edits, undone and redone, text() replacements and changes
\* of canUndo(), every undo() restores the text before the last event, byte by
\* byte, every redo() the one after it, and each edit changes what it was asked
\* to change.
HistorySpec == History!Spec

\* The modify callbacks tell the truth: a listener (a text display, a style
\* buffer) that knows the text only from their arguments is never out of step,
\* also through undo() and redo().  The gap and the length agree.
ListenersInSync ==
  /\ b.gapStart \in 0 .. b.length /\ b.gapStart <= b.gapEnd
  /\ Len(b.buf) = b.length + Gap(b)
  /\ mirror = TextOf(b)

\* can_undo() and can_redo() tell the truth, and no edit gets lost: there is one
\* event for every text to go back to, and undone events stay until an edit.
EventsKept ==
  /\ Events(b) = Len(past) /\ (can_undo(b) <=> past # <<>>)
  /\ Len(future) <= Len(b.redoList)

\* A selection that an edit does not touch, or of which it deletes the front or
\* an inner part, keeps exactly the bytes that are left of it, for every range
\* that could be deleted and every place where text could be inserted.  A deletion
\* that runs over the end of the selection is excluded: update() then subtracts
\* the whole deletion from the end and loses bytes that are still there.
SelectionFollows ==
  LET Sel(u)   == IF u.selected THEN u.start + 1 .. u.end ELSE {}
      Cut(s, e) == {IF i <= s THEN i ELSE i - (e - s) : i \in Sel(b.sel) \ (s + 1 .. e)}
  IN  b.sel.selected =>
        /\ 0 <= b.sel.start /\ b.sel.start < b.sel.end /\ b.sel.end <= b.length
        /\ \A s, e \in Positions :
             s <= e /\ ~(b.sel.start < s /\ s < b.sel.end /\ b.sel.end < e)
             => Sel(Update(b.sel, s, e - s, 0)) = Cut(s, e)
        /\ \A s \in Positions, n \in 1 .. 2 :
             Sel(Update(b.sel, s, 0, n)) =
               {IF i <= s THEN i ELSE i + n : i \in Sel(b.sel)}
                 \union (IF b.sel.start < s /\ s < b.sel.end THEN s + 1 .. s + n ELSE {})

\* Whoever scrolls by lines ends up where whoever counts them expects: wherever
\* the gap is, the newlines are those of text(), going forward from the start by
\* the lines counted up to a position finds the start of its line, going back
\* finds the same lines, and the end of a line is in front of the next one.
\* Position 1 is excluded from going back: rewind_lines() takes it for a part of
\* the first line even behind a newline.
LinesAgree ==
  \A pos \in Positions :
    LET before == count_lines(b, 0, pos)
    IN  /\ before = Cardinality({i \in 1 .. pos : TextOf(b)[i] = Newline})
        /\ skip_lines(b, 0, before) = line_start(b, pos)
        /\ \A n \in 0 .. before :
             pos # 1 => rewind_lines(b, pos, n) = skip_lines(b, 0, before - n)
        /\ line_end(b, pos) + (IF before < count_lines(b, 0, b.length) THEN 1 ELSE 0)
             = skip_lines(b, pos, 1)

\* can_redo(): "Check if undo is enabled and if the last undo action can be
\* redone": whenever it says so, redo() leads back to the text before the last
\* undo(), with no edit in between.
RedoRepeatsUndo ==
  can_redo(b) => future # <<>> /\ TextOf(redo(b)) = Last(future)
=============================================================================
