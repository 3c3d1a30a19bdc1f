--------------------------- MODULE MCStockLedger ---------------------------
(***************************************************************************)
(* Two requests, two levels, five keys. The programs are what handlers do: *)
(* a goods receipt on one level or on both, the two-line sales of two      *)
(* carts that list the products in opposite orders (the deadlock), the     *)
(* same sale retried under its key, a reservation, and a sale whose key    *)
(* was already used on another level.                                      *)
(***************************************************************************)
EXTENDS StockLedger

CONSTANTS t1, t2, shelfA, shelfB, receive, restock, saleA, saleB, reserve

D(oh, rs) == [oh |-> oh, rs |-> rs, dm |-> 0]

C(k, l, d) == [key |-> k, level |-> l, d |-> d]

MCDeltas == {D(2, 0), D(-1, 0), D(0, 1)}

MCPrograms ==
    { <<C(receive, shelfA, D(2, 0)), C(restock, shelfB, D(2, 0))>>,
      <<C(saleA, shelfA, D(-1, 0)), C(saleB, shelfB, D(-1, 0))>>,
      <<C(saleB, shelfB, D(-1, 0)), C(saleA, shelfA, D(-1, 0))>>,
      <<C(reserve, shelfA, D(0, 1))>>,
      <<C(receive, shelfB, D(2, 0))>> }
=============================================================================
