----------------------------- MODULE MCWidgets ------------------------------
(***************************************************************************)
(* FlWidgets with a window, a group and two leaves, which are alike.       *)
(***************************************************************************)
EXTENDS FlWidgets, TLC

Alike == Permutations(Widgets \ Groups)
=============================================================================
