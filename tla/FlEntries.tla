----------------------------- MODULE FlEntries ------------------------------
(***************************************************************************)
(* What the check callbacks (FlChecks) and the idle callbacks (FlIdle) are *)
(* kept in: entries that are allocated one by one, linked through their    *)
(* next fields and kept on a free list when they are removed.  Both are    *)
(* called by Fl::wait(), which callbacks may run again; each kind has      *)
(* entries and a stack of calls of its own.                                *)
(*                                                                         *)
(* Entries are numbered from 1; 0 is the null pointer.                     *)
(***************************************************************************)
EXTENDS Integers, Sequences

CONSTANTS
  Handlers,    \* (callback, argument) pairs
  MaxEntries,  \* bound on the entries allocated
  MaxDepth     \* bound on nested Fl::wait() calls

ASSUME EntriesAssumption ==
  Handlers # {} /\ MaxEntries \in Nat /\ MaxDepth \in Nat \ {0}

Entries == 1 .. MaxEntries

VARIABLES
  nxt,         \* entry -> its next field
  handler,     \* entry -> its callback and argument
  allocated,   \* entries allocated with new: 1 .. allocated
  stack        \* the calls of Fl::wait(), innermost last

NoEntries ==
  /\ nxt = [e \in Entries |-> 0]
  /\ handler \in [Entries -> {CHOOSE h \in Handlers : TRUE}]
  /\ allocated = 0
  /\ stack = <<>>

Depth == Len(stack)
=============================================================================
