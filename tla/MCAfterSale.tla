----------------------------- MODULE MCAfterSale -----------------------------
\* AfterSale with a cash sale and a sale on account, one line of two units
\* and two requests, which are interchangeable.
EXTENDS AfterSale, TLC

CONSTANTS l1

MCSold == l1 :> 2
MCPrice == l1 :> 1
MCDue == 1 :> 0 @@ 2 :> 2
Symmetry == Permutations(Requests)
=============================================================================
