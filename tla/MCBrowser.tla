----------------------------- MODULE MCBrowser ------------------------------
(***************************************************************************)
(* FlBrowser with three lines and one address to spare; addresses are      *)
(* alike.                                                                  *)
(***************************************************************************)
EXTENDS FlBrowser, TLC

Alike == Permutations(Items)
=============================================================================
