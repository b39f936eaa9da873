---------------------------- MODULE Subsequences ----------------------------
(***************************************************************************)
(* What a loop over a list keeps of it, and what it meets when the list is *)
(* linked by pointers.  Kept() is SelectSeq() of the standard modules, with*)
(* the test as a set: the provers know nothing of SelectSeq, but can reason*)
(* about the recursive functions here by induction (SequenceLemmas).       *)
(***************************************************************************)
EXTENDS Integers, Sequences

\* The elements of s that are in S, in their order.
Kept(s, S) ==
  LET k[i \in 0 .. Len(s)] ==
        IF i = 0 THEN <<>>
        ELSE IF s[i] \in S THEN Append(k[i - 1], s[i]) ELSE k[i - 1]
  IN  k[Len(s)]

\* The pointer p and the n - 1 that come behind it; 0 is the null pointer.
Follow(next, p, n) ==
  LET at[i \in 1 .. n] ==
        IF i = 1 THEN p ELSE LET q == at[i - 1] IN IF q = 0 THEN 0 ELSE next[q]
  IN  at
=============================================================================
