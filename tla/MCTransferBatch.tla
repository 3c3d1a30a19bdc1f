--------------------------- MODULE MCTransferBatch ---------------------------
(***************************************************************************)
(* Two branches, two batches with lists of one and two lines, and two      *)
(* requests at a time, on different batches: each loads and commits with   *)
(* the steps of the other, sales and new batches in between.               *)
(***************************************************************************)
EXTENDS TransferBatch, TLC

CONSTANTS b1, b2, s1, s2

MCLists == {<<1>>, <<2>>, <<1, 1>>}

MCInitial == [x \in Branches |-> 2]

Symmetry == {p @@ q : p \in Permutations(Batches), q \in Permutations(Slots)}
=============================================================================
