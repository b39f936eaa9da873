---------------------------- MODULE MCTextBuffer ----------------------------
(***************************************************************************)
(* FlTextBuffer with deletions (the empty text), single bytes that join an *)
(* event, and a text of two lines, longer than the preferred gap.          *)
(***************************************************************************)
EXTENDS FlTextBuffer

CONSTANTS a, c

MCTexts == {<<>>, <<a>>, <<c, a>>}
=============================================================================
