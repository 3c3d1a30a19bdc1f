------------------------------- MODULE PosCart -------------------------------
(***************************************************************************)
(* The POS cart of app/services/cart_service.py: its status, its lines and *)
(* discounts, the total stored on it and its customer.                     *)
(*                                                                         *)
(* A request (Slots) is one HTTP request with its own session at READ      *)
(* COMMITTED; nothing locks the cart, so a handler that has read the cart  *)
(* writes later over whatever others have committed. Hence every handler   *)
(* is a Begin step (its reads and guards; what it read is in req[s]) and a *)
(* Commit step; those that recompute the total have a Flush step between   *)
(* them, where _recalc_totals writes the rows and reads them back.         *)
(*                                                                         *)
(* Lines and discounts are rows [id, what, n] of one set: a product and    *)
(* its quantity, a flat discount and its amount, a promotion code and its  *)
(* amount, or a loyalty discount and its points. Tax and units of measure  *)
(* are left out: every rate is zero and every quantity is in base units.   *)
(***************************************************************************)
EXTENDS Integers, FiniteSets, Functions

CONSTANTS Carts, Slots, Products, Customers,
          Nobody,      \* no customer on the cart
          Price,       \* unit price of each product
          MaxQty,      \* the quantities a cashier enters
          FlatAmounts, \* the flat discounts a cashier enters
          PointAmounts, \* the loyalty points a cashier redeems
          CodeAmounts, \* values of the promotion code's rule (none: no code)
          PointValue,  \* money per loyalty point
          MaxRows      \* bound: rows ever inserted

Discounts == {"flat", "code", "points"}

ASSUME CartAssumption ==
    /\ IsFiniteSet(Carts)
    /\ Products \cap Discounts = {} /\ Nobody \notin Customers
    /\ Price \in [Products -> Nat \ {0}]
    /\ MaxQty \in Nat \ {0} /\ PointValue \in Nat \ {0}
    /\ FlatAmounts \cup PointAmounts \cup CodeAmounts \subseteq Nat \ {0} /\ MaxRows \in Nat

RowSet == [id : 1..MaxRows, what : Products \cup Discounts, n : Nat \ {0}]

Statuses == {"new", "active", "parked", "checkout_locked", "cancelled", "paid"}

CartState == [status : Statuses, customer : Customers \cup {Nobody},
              total : Nat, rows : SUBSET RowSet]

VARIABLES cart,     \* committed carts
          nextRow,  \* id of the next line or discount
          points,   \* loyalty balance of each customer
          active,   \* customers whose account is active
          req       \* what each request has read and is going to write

cartVars == <<cart, nextRow, points, active, req>>

\* edit: loaded is the total read; known the rows read; del, upd and ins what
\* it deletes, updates and inserts; flushed and total the outcome of Flush.
EditRequest == [op : {"edit"}, cart : Carts, loaded : Nat, known : SUBSET RowSet,
                del : SUBSET (1..MaxRows), upd : SUBSET RowSet, ins : SUBSET RowSet,
                flushed : BOOLEAN, total : Nat]
StateRequest == [op : {"state"}, cart : Carts, to : Statuses]
CustomerRequest == [op : {"customer"}, cart : Carts,
                    from : Customers \cup {Nobody}, to : Customers \cup {Nobody}]

Idle == [op |-> "idle"]

CartRequests == {Idle} \cup EditRequest \cup StateRequest \cup CustomerRequest

CartTypeOK ==
    /\ cart \in [Carts -> CartState]
    /\ nextRow \in 1..(MaxRows + 1)
    /\ points \in [Customers -> Int]
    /\ active \subseteq Customers

-----------------------------------------------------------------------------
(* Totals *)

Lines(rows) == {r \in rows : r.what \in Products}

Net(rows) == SumFunction([r \in Lines(rows) |-> Price[r.what] * r.n])

Amount(r) == IF r.what = "points" THEN r.n * PointValue ELSE r.n

Off(rows) == SumFunction([r \in rows \ Lines(rows) |-> Amount(r)])

\* Variant: discounts larger than the subtotal make the total negative.
TotalUnclamped(rows) == Net(rows) - Off(rows)

\* _recalc_totals
Total(rows) == IF Off(rows) > Net(rows) THEN 0 ELSE Net(rows) - Off(rows)

Named(rows, what) == {r \in rows : r.what = what}

Ids(rows) == {r.id : r \in rows}

-----------------------------------------------------------------------------
(* Line and discount edits *)

Begin(s, request) == req[s] = Idle /\ req' = [req EXCEPT ![s] = request]

Edit(c, known, del, upd, ins) ==
    [op |-> "edit", cart |-> c, loaded |-> cart[c].total, known |-> known,
     del |-> del, upd |-> upd, ins |-> ins, flushed |-> FALSE, total |-> 0]

\* The row a request inserts takes the next id of the sequence.
NewRow(what, n) == {[id |-> nextRow, what |-> what, n |-> n]}

TakeId == nextRow <= MaxRows /\ nextRow' = nextRow + 1

\* An unchanged quantity is not written.
Changed(own, qty) == {r \in own : qty # 0 /\ r.n # qty}

\* Variant: a cart may be edited in any status.
UpsertAnyStatus(s, c, p, qty) ==
    LET own == Named(cart[c].rows, p) IN
    /\ cart[c].status # "new" /\ Cardinality(own) <= 1
    /\ IF qty # 0 /\ own = {}
       THEN Begin(s, Edit(c, own, {}, {}, NewRow(p, qty))) /\ TakeId
       ELSE /\ Begin(s, Edit(c, own, IF qty = 0 THEN Ids(own) ELSE {},
                             {[r EXCEPT !.n = qty] : r \in Changed(own, qty)}, {}))
            /\ UNCHANGED nextRow
    /\ UNCHANGED <<cart, points, active>>

\* upsert_line: sets the quantity of a product, 0 removes its line. With two
\* lines of the product its query fails.
UpsertLine(s, c, p, qty) ==
    LET own == Named(cart[c].rows, p) IN
    /\ cart[c].status = "active" /\ Cardinality(own) <= 1
    /\ IF qty # 0 /\ own = {}
       THEN Begin(s, Edit(c, own, {}, {}, NewRow(p, qty))) /\ TakeId
       ELSE /\ Begin(s, Edit(c, own, IF qty = 0 THEN Ids(own) ELSE {},
                             {[r EXCEPT !.n = qty] : r \in Changed(own, qty)}, {}))
            /\ UNCHANGED nextRow
    /\ UNCHANGED <<cart, points, active>>

\* The discounts of the kinds in kinds leave something of the subtotal.
Eligible(rows, kinds) == Net(rows) - Off({r \in rows : r.what \in kinds})

\* Replace the discount rows called what by one worth n.
Discount(s, c, what, n) ==
    LET rows == cart[c].rows IN
    /\ cart[c].status = "active" /\ Net(rows) > 0
    /\ Begin(s, Edit(c, rows, Ids(Named(rows, what)), {}, NewRow(what, n)))
    /\ TakeId
    /\ UNCHANGED <<cart, points, active>>

\* apply_flat_discount
ApplyFlatDiscount(s, c, amount) ==
    /\ amount <= Eligible(cart[c].rows, {"code"})
    /\ Discount(s, c, "flat", amount)

\* apply_discount: a promotion code is accepted once per cart.
ApplyDiscount(s, c, value) ==
    /\ Named(cart[c].rows, "code") = {}
    /\ LET net == Net(cart[c].rows)
       IN  Discount(s, c, "code", IF value < net THEN value ELSE net)

\* apply_loyalty_discount: the points are checked now and debited at finalize.
ApplyLoyaltyDiscount(s, c, pts) ==
    /\ cart[c].customer \in active
    /\ pts <= points[cart[c].customer]
    /\ pts * PointValue <= Eligible(cart[c].rows, {"flat", "code"})
    /\ Discount(s, c, "points", pts)

\* The rows as the request sees them after its own writes; those it had loaded
\* keep, in its session, the values they were loaded with.
View(e) ==
    LET kept == {r \in cart[e.cart].rows : r.id \notin e.del \cup Ids(e.upd)}
    IN  {r \in kept : r.id \notin Ids(e.known)}
        \cup {k \in e.known : k.id \in Ids(kept)} \cup e.upd \cup e.ins

\* _recalc_totals: the writes of an edit go to the database, where they wait
\* for other requests' uncommitted writes of the same rows; an update of a row
\* that is gone fails. Then the total is computed from what is visible.
Flush(s) ==
    LET e == req[s] IN
    /\ e.op = "edit" /\ ~e.flushed
    /\ \A u \in Slots \ {s} : req[u].op = "edit" /\ req[u].flushed =>
          (e.del \cup Ids(e.upd)) \cap (req[u].del \cup Ids(req[u].upd)) = {}
    /\ Ids(e.upd) \subseteq Ids(cart[e.cart].rows)
    /\ req' = [req EXCEPT ![s].flushed = TRUE, ![s].total = Total(View(e))]
    /\ UNCHANGED <<cart, nextRow, points, active>>

\* Variant: the total is not recomputed.
CommitEditOnly(s) ==
    LET e == req[s] IN
    /\ e.op = "edit" /\ e.flushed
    /\ cart' = [cart EXCEPT ![e.cart].rows =
           {r \in @ : r.id \notin e.del \cup Ids(e.upd)} \cup e.upd \cup e.ins]
    /\ req' = [req EXCEPT ![s] = Idle]
    /\ UNCHANGED <<nextRow, points, active>>

\* The total is written only when it differs from the one the request loaded.
CommitEdit(s) ==
    LET e == req[s] IN
    /\ e.op = "edit" /\ e.flushed
    /\ cart' = [cart EXCEPT
          ![e.cart].rows = {r \in @ : r.id \notin e.del \cup Ids(e.upd)} \cup e.upd \cup e.ins,
          ![e.cart].total = IF e.total = e.loaded THEN @ ELSE e.total]
    /\ req' = [req EXCEPT ![s] = Idle]
    /\ UNCHANGED <<nextRow, points, active>>

-----------------------------------------------------------------------------
(* Status and customer *)

\* create_cart
CreateCart(c, customer) ==
    /\ cart[c].status = "new"
    /\ customer \in active \cup {Nobody}
    /\ cart' = [cart EXCEPT ![c].status = "active", ![c].customer = customer]
    /\ UNCHANGED <<nextRow, points, active, req>>

\* _assert_transition
Transition(status, action) ==
    CASE status = "active" /\ action = "park" -> "parked"
      [] status = "parked" /\ action = "resume" -> "active"
      [] status = "active" /\ action = "lock" -> "checkout_locked"
      [] status = "checkout_locked" /\ action = "cancel" -> "active"
      [] status \in {"active", "parked"} /\ action = "cancel" -> "cancelled"
      [] OTHER -> "refused"

\* change_state
ChangeState(s, c, action) ==
    LET to == Transition(cart[c].status, action) IN
    /\ to # "refused"
    /\ action \in {"lock", "park"} => Lines(cart[c].rows) # {}
    /\ Begin(s, [op |-> "state", cart |-> c, to |-> to])
    /\ UNCHANGED <<cart, nextRow, points, active>>

CommitState(s) ==
    /\ req[s].op = "state"
    /\ cart' = [cart EXCEPT ![req[s].cart].status = req[s].to]
    /\ req' = [req EXCEPT ![s] = Idle]
    /\ UNCHANGED <<nextRow, points, active>>

\* patch_cart_customer
PatchCustomer(s, c, customer) ==
    /\ cart[c].status \in {"active", "parked", "checkout_locked"}
    /\ customer \in active \cup {Nobody}
    /\ Begin(s, [op |-> "customer", cart |-> c,
                 from |-> cart[c].customer, to |-> customer])
    /\ UNCHANGED <<cart, nextRow, points, active>>

CommitCustomer(s) ==
    LET r == req[s] IN
    /\ r.op = "customer"
    /\ cart' = IF r.to = r.from THEN cart ELSE [cart EXCEPT ![r.cart].customer = r.to]
    /\ req' = [req EXCEPT ![s] = Idle]
    /\ UNCHANGED <<nextRow, points, active>>

\* A customer's account is deactivated or reactivated by the back office.
SetAccountStatus(customer) ==
    /\ active' = IF customer \in active THEN active \ {customer} ELSE active \cup {customer}
    /\ UNCHANGED <<cart, nextRow, points, req>>

\* Any request may fail before its commit; nothing of it remains.
Fail(s) ==
    /\ req[s] # Idle
    /\ req' = [req EXCEPT ![s] = Idle]
    /\ UNCHANGED <<cart, nextRow, points, active>>

-----------------------------------------------------------------------------

CartInit ==
    /\ cart = [c \in Carts |->
                 [status |-> "new", customer |-> Nobody, total |-> 0, rows |-> {}]]
    /\ nextRow = 1
    /\ active = Customers
    /\ req = [s \in Slots |-> Idle]

Actions == {"park", "resume", "lock", "cancel"}

BeginCart(s, c) ==
    \/ \E p \in Products, qty \in 0..MaxQty : UpsertLine(s, c, p, qty)
    \/ \E amount \in FlatAmounts : ApplyFlatDiscount(s, c, amount)
    \/ \E value \in CodeAmounts : ApplyDiscount(s, c, value)
    \/ \E customer \in Customers, pts \in PointAmounts :
          cart[c].customer = customer /\ ApplyLoyaltyDiscount(s, c, pts)
    \/ \E action \in Actions : ChangeState(s, c, action)
    \/ \E customer \in Customers \cup {Nobody} : PatchCustomer(s, c, customer)

FinishCart(s) == Flush(s) \/ CommitEdit(s) \/ CommitState(s) \/ CommitCustomer(s)
=============================================================================
