---------------------------- MODULE MCShiftDrawer ----------------------------
(***************************************************************************)
(* Instances of ShiftDrawer: two shifts of one terminal, two requests, and *)
(* as many events as the .cfg allows.                                      *)
(***************************************************************************)
EXTENDS ShiftDrawer, TLC

Symmetry == Permutations(Shifts) \cup Permutations(Slots)
=============================================================================
