--------------------------- MODULE MCPosCheckout ---------------------------
(***************************************************************************)
(* One branch, one shift, one or two carts. The price 4 with a cash        *)
(* increment of 3 makes a total round down (4 to 3), up (8 to 9, 2 to 3)   *)
(* or not at all. One unit of opening stock makes a cart of two            *)
(* unsellable; two let both of two carts be sold. Requests, keys and carts *)
(* are interchangeable.                                                    *)
(***************************************************************************)
EXTENDS PosCheckout, TLC

CONSTANTS c1, c2, s1, s2, ana, k1, k2

MCPrice == [p \in Products |-> 4]

Symmetry == {p @@ q @@ r : p \in Permutations(Slots), q \in Permutations(Keys),
                           r \in Permutations(Carts)}
=============================================================================
