----------------------------- MODULE AtomicSale -----------------------------
(***************************************************************************)
(* What the checkout promises to the rest of the system: a cart is sold at *)
(* most once and for good, in one step that takes the next invoice number  *)
(* and moves cash, stock and loyalty points together, never more than      *)
(* there is; and nothing else moves them.                                  *)
(***************************************************************************)
EXTENDS Naturals

CONSTANTS Carts, Products, Customers,
          Nobody,  \* the customer of a sale to no account
          Opening, \* stock of each product at the start
          Earned   \* points of each customer at the start

VARIABLES sold,    \* the sales of each cart: none or one
          drawer,  \* cash
          stock,   \* [Products -> Nat]
          points   \* [Customers -> Nat]

Sale == [number : Nat \ {0}, cash : Nat, units : [Products -> Nat],
         customer : Customers \cup {Nobody}, debited : Nat, earned : Nat]

\* The invoice numbers in use.
Numbers == {sale.number : sale \in UNION {sold[c] : c \in Carts}}

Init ==
    /\ sold = [c \in Carts |-> {}] /\ drawer = 0
    /\ stock = [p \in Products |-> Opening]
    /\ points = [k \in Customers |-> Earned]

\* The shop can deliver the sale and its customer can pay with the points.
Covered(sale) ==
    /\ \A p \in Products : sale.units[p] <= stock[p]
    /\ sale.customer # Nobody => sale.debited <= points[sale.customer]

Sell(c, sale) ==
    /\ sold[c] = {} /\ sale \in Sale
    /\ Numbers = 1..(sale.number - 1)
    /\ Covered(sale)
    /\ sold' = [sold EXCEPT ![c] = {sale}]
    /\ drawer' = drawer + sale.cash
    /\ stock' = [p \in Products |-> stock[p] - sale.units[p]]
    /\ points' = IF sale.customer = Nobody THEN points
                 ELSE [points EXCEPT ![sale.customer] = @ - sale.debited + sale.earned]

\* The sale of a step is the one its cart has after it.
Next == \E c \in Carts : \E sale \in sold'[c] : Sell(c, sale)

Spec == Init /\ [][Next]_<<sold, drawer, stock, points>>
=============================================================================
